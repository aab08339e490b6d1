------------------------------- MODULE WebProofs -------------------------------
(* Theorems about three parts of the web server: the limiter, which decides how often a    *)
(* peer may ask, the table of connections, and the commands from the pages.  They share     *)
(* nothing.                                                                              *)
EXTENDS RateLimiter, HttpServer, WebControl, FiniteSetTheorems, TLAPS

-----------------------------------------------------------------------------
(* The limiter.  What a peer was granted within a window is split in two: what its row  *)
(* has counted since the window began, and what is older than that.                      *)

Ticks == 0 .. TickRange - 1

(* How far a tick lies behind, whatever the sign ticks_diff() gives it. *)
Behind(tick) == IF tick <= now THEN now - tick ELSE now - tick + TickRange

Rows ==
    [requestStart : Ticks, requests : 0 .. MaxRequests,
     mutationStart : Ticks, mutations : 0 .. MaxMutations,
     config : Ticks \cup {None}, seen : Ticks]

Log(window) == {s \in SUBSET ((0 .. window - 1) \X Nat) : IsFiniteSet(s)}

Logs ==
    [requests : Log(RequestWindow), mutations : Log(MutationWindow),
     commits : Log(ConfigCooldown)]

NotBefore(log, tick) == \A x \in log : x[1] >= Behind(tick)

(* What is not counted any more is older than the window, and was within the limit. *)
Windowed(log, max, count, started) ==
    \E old \in SUBSET log :
        /\ NotBefore(old, started)
        /\ Cardinality(old) <= max
        /\ Cardinality(log \ old) <= count

Covers(row, logs) ==
    /\ Windowed(logs.requests, MaxRequests, row.requests, row.requestStart)
    /\ Windowed(logs.mutations, MaxMutations, row.mutations, row.mutationStart)
    /\ Cardinality(logs.commits) <= 1
    /\ logs.commits # {} => row.config # None /\ NotBefore(logs.commits, row.config)
    /\ NotBefore(logs.requests \cup logs.mutations \cup logs.commits, row.seen)

NoGrants == [requests |-> {}, mutations |-> {}, commits |-> {}]

(* A table within its bounds.  A peer that has no row was granted nothing of late: it   *)
(* was safe to forget it.                                                               *)
Bounded(peers) ==
    /\ DOMAIN peers \subseteq Clients
    /\ IsFiniteSet(DOMAIN peers) /\ Cardinality(DOMAIN peers) <= MaxPeers
    /\ peers \in [DOMAIN peers -> Rows]

PeerIsCovered(peers, grants, c) ==
    IF c \in DOMAIN peers THEN Covers(peers[c], grants[c]) ELSE grants[c] = NoGrants

TableCovers(peers, grants) == \A c \in Clients : PeerIsCovered(peers, grants, c)

LimiterInv ==
    /\ now \in Ticks
    /\ limiter = [peers |-> limiter.peers, faulted |-> limiter.faulted]
    /\ limiter.faulted \in BOOLEAN
    /\ granted \in [Clients -> Logs]
    /\ Bounded(limiter.peers)
    /\ TableCovers(limiter.peers, granted)

-----------------------------------------------------------------------------
(* Ticks *)

LEMMA Halves ==
    ASSUME NEW t \in Nat, t % 2 = 0
    PROVE  /\ t \div 2 \in Nat
           /\ 2 * (t \div 2) = t
  BY SMT

LEMMA Modulo ==
    ASSUME NEW t \in Nat \ {0}, NEW x \in Int
    PROVE  /\ 0 <= x /\ x < t => x % t = x
           /\ t <= x /\ x < 2 * t => x % t = x - t
           /\ -t <= x /\ x < 0 => x % t = x + t
  BY SMT

LEMMA LimiterNumbers ==
    /\ MaxPeers \in Nat \ {0} /\ MaxRequests \in Nat \ {0} /\ MaxMutations \in Nat \ {0}
    /\ RequestWindow \in Nat \ {0} /\ MutationWindow \in Nat \ {0}
    /\ ConfigCooldown \in Nat \ {0} /\ PeerStale \in Nat \ {0} /\ TickRange \in Nat \ {0}
    /\ RequestWindow <= PeerStale /\ MutationWindow <= PeerStale /\ ConfigCooldown <= PeerStale
    /\ 2 * PeerStale < TickRange /\ TickRange % 2 = 0
    /\ None \notin Ticks
  BY LimiterAssumption DEF Ticks

(* ticks_diff() is right about what lies less than half the range behind, and never     *)
(* puts a tick further back than it lies.                                                *)
LEMMA SinceIsBehind ==
    ASSUME now \in Ticks, NEW tick \in Ticks
    PROVE  /\ Behind(tick) \in Ticks
           /\ Since(tick) \in Int
           /\ Since(tick) <= Behind(tick)
  <1>1. PICK half \in Nat : half = TickRange \div 2 /\ TickRange = 2 * half
    BY LimiterNumbers, Halves
  <1>2. Behind(tick) \in Ticks
    BY LimiterNumbers DEF Ticks, Behind
  <1>3. PICK x \in Int : x = now - tick + half
    BY <1>1, LimiterNumbers DEF Ticks
  <1>4. Since(tick) = (x % TickRange) - half
    BY <1>1, <1>3 DEF Since, TicksDiff
  <1>5. /\ 0 <= x /\ x < TickRange => x % TickRange = x
        /\ TickRange <= x /\ x < 2 * TickRange => x % TickRange = x - TickRange
        /\ -TickRange <= x /\ x < 0 => x % TickRange = x + TickRange
    BY Modulo, LimiterNumbers
  <1>6. -TickRange <= x /\ x < 2 * TickRange
    BY <1>1, <1>3, LimiterNumbers DEF Ticks
  <1> QED
    BY <1>1, <1>2, <1>3, <1>4, <1>5, <1>6, LimiterNumbers DEF Ticks, Behind

-----------------------------------------------------------------------------
(* Logs *)

LEMMA LogParts ==
    ASSUME NEW window \in Nat, NEW log \in Log(window)
    PROVE  /\ IsFiniteSet(log) /\ Cardinality(log) \in Nat
           /\ \A x \in log : x[1] \in Nat /\ x[1] < window
           /\ \A part \in SUBSET log :
                 IsFiniteSet(part) /\ Cardinality(part) \in Nat /\ part \in Log(window)
  BY FS_CardinalityType, FS_Subset DEF Log

(* A window that is over has nothing left in the log. *)
LEMMA OverIsEmpty ==
    ASSUME now \in Ticks, NEW tick \in Ticks, NEW window \in Nat, NEW log \in Log(window),
           NotBefore(log, tick), Since(tick) >= window
    PROVE  log = {}
  <1>1. Behind(tick) \in Nat /\ Behind(tick) >= window
    BY SinceIsBehind DEF Ticks
  <1> QED
    BY <1>1, LogParts DEF NotBefore

LEMMA BeforeParts ==
    ASSUME NEW log, NEW part \in SUBSET log, NEW tick, NotBefore(log, tick)
    PROVE  NotBefore(part, tick)
  BY DEF NotBefore

(* What lies before no time at all is everything. *)
LEMMA AllBeforeNow ==
    ASSUME now \in Ticks, NEW window \in Nat, NEW log \in Log(window)
    PROVE  NotBefore(log, now)
  <1>1. Behind(now) = 0
    BY DEF Behind, Ticks
  <1> QED
    BY <1>1, LogParts DEF NotBefore

LEMMA LoggedIsLog ==
    ASSUME NEW window \in Nat \ {0}, NEW log \in Log(window)
    PROVE  \E x \in (0 .. window - 1) \X Nat :
              x[1] = 0 /\ Logged(log) = log \cup {x} /\ Logged(log) \in Log(window)
  <1> DEFINE n == Cardinality({x \in log : x[1] = 0})
             x == <<0, n>>
  <1>1. n \in Nat
    BY LogParts
  <1>2. x \in (0 .. window - 1) \X Nat /\ x[1] = 0
    BY <1>1
  <1>3. Logged(log) = log \cup {x}
    BY DEF Logged
  <1>4. IsFiniteSet(log \cup {x})
    BY LogParts, FS_AddElement
  <1>5. Logged(log) \in Log(window)
    BY <1>2, <1>3, <1>4 DEF Log
  <1> QED
    BY <1>2, <1>3, <1>5

LEMMA LoggedIsBefore ==
    ASSUME now \in Ticks, NEW window \in Nat \ {0}, NEW log \in Log(window)
    PROVE  NotBefore(Logged(log), now)
  BY AllBeforeNow, LoggedIsLog

(* A log grown by one has at most one more. *)
LEMMA OneMoreIsCounted ==
    ASSUME NEW S, NEW x, NEW P \in SUBSET S, IsFiniteSet(S)
    PROVE  Cardinality((S \cup {x}) \ P) <= Cardinality(S \ P) + 1
  <1>1. IsFiniteSet(S \ P) /\ Cardinality(S \ P) \in Nat
    <2>1. S \ P \in SUBSET S
      OBVIOUS
    <2> QED
      BY <2>1, FS_Subset, FS_CardinalityType
  <1>2. IsFiniteSet((S \ P) \cup {x}) /\ Cardinality((S \ P) \cup {x}) <= Cardinality(S \ P) + 1
    <2> DEFINE R == S \ P
    <2>1. IsFiniteSet(R) /\ Cardinality(R) \in Nat
      BY <1>1
    <2> HIDE DEF R
    <2>2. /\ IsFiniteSet(R \cup {x})
          /\ Cardinality(R \cup {x}) = IF x \in R THEN Cardinality(R) ELSE Cardinality(R) + 1
      BY <2>1, FS_AddElement
    <2>3. Cardinality(R \cup {x}) <= Cardinality(R) + 1
      BY <2>1, <2>2
    <2> QED
      BY <2>2, <2>3 DEF R
  <1>3. (S \cup {x}) \ P \in SUBSET ((S \ P) \cup {x})
    OBVIOUS
  <1>4. Cardinality((S \cup {x}) \ P) <= Cardinality((S \ P) \cup {x})
    BY <1>2, <1>3, FS_Subset
  <1>5. Cardinality((S \cup {x}) \ P) \in Nat /\ Cardinality((S \ P) \cup {x}) \in Nat
    BY <1>2, <1>3, FS_Subset, FS_CardinalityType
  <1> QED
    BY <1>1, <1>2, <1>4, <1>5

(* Two windows' worth. *)
LEMMA WindowedIsBounded ==
    ASSUME NEW window \in Nat, NEW log \in Log(window), NEW max \in Nat, NEW count \in Nat,
           NEW started, Windowed(log, max, count, started)
    PROVE  Cardinality(log) <= max + count
  <1>1. PICK old \in SUBSET log : Cardinality(old) <= max /\ Cardinality(log \ old) <= count
    BY DEF Windowed
  <1>2. IsFiniteSet(old) /\ Cardinality(old) \in Nat
        /\ IsFiniteSet(log \ old) /\ Cardinality(log \ old) \in Nat
    BY LogParts
  <1>3. Cardinality(log) = Cardinality(old) + Cardinality(log \ old) - Cardinality(old \cap (log \ old))
    <2>1. log = old \cup (log \ old)
      OBVIOUS
    <2> QED
      BY <1>2, <2>1, FS_Union
  <1>4. Cardinality(old \cap (log \ old)) = 0
    <2>1. old \cap (log \ old) = {}
      OBVIOUS
    <2> QED
      BY <2>1, FS_EmptySet
  <1> QED
    BY <1>1, <1>2, <1>3, <1>4

(* A renewed window has all of the log behind it: what was counted is now what is older. *)
LEMMA RenewedCovers ==
    ASSUME now \in Ticks, NEW window \in Nat \ {0}, NEW log \in Log(window),
           NEW max \in Nat, NEW count \in 0 .. max, NEW started \in Ticks,
           Windowed(log, max, count, started)
    PROVE  LET r == Renewed(started, count, window)
           IN  /\ r.started \in Ticks /\ r.count \in 0 .. max
               /\ Windowed(log, max, r.count, r.started)
  <1> DEFINE r == Renewed(started, count, window)
  <1>1. CASE Since(started) >= window
    <2>1. r.started = now /\ r.count = 0
      BY <1>1 DEF Renewed
    <2>2. PICK old \in SUBSET log : NotBefore(old, started) /\ Cardinality(log \ old) <= count
      BY DEF Windowed
    <2>3. old = {}
      <3>1. old \in Log(window)
        BY LogParts
      <3> QED
        BY <1>1, <2>2, <3>1, OverIsEmpty
    <2>4. log \ old = log
      BY <2>3
    <2>5. Cardinality(log) <= max
      <3>1. Cardinality(log) <= count /\ Cardinality(log) \in Nat
        BY <2>2, <2>4, LogParts
      <3> QED
        BY <3>1
    <2>6. Cardinality(log \ log) <= 0
      <3>1. log \ log = {}
        OBVIOUS
      <3> QED
        BY <3>1, FS_EmptySet
    <2>7. Windowed(log, max, 0, now)
      BY <2>5, <2>6, AllBeforeNow DEF Windowed
    <2> QED
      BY <2>1, <2>7
  <1>2. CASE ~(Since(started) >= window)
    BY <1>2 DEF Renewed
  <1> QED
    BY <1>1, <1>2

(* One more is counted, granted or not. *)
LEMMA CountedCovers ==
    ASSUME now \in Ticks, NEW window \in Nat \ {0}, NEW log \in Log(window),
           NEW max \in Nat, NEW count \in Nat, NEW started \in Ticks,
           Windowed(log, max, count, started)
    PROVE  /\ Windowed(log, max, count + 1, started)
           /\ Windowed(Logged(log), max, count + 1, started)
  <1>1. PICK old \in SUBSET log :
            NotBefore(old, started) /\ Cardinality(old) <= max /\ Cardinality(log \ old) <= count
    BY DEF Windowed
  <1>2. Cardinality(log \ old) \in Nat
    BY LogParts
  <1>3. Cardinality(log \ old) <= count + 1
    BY <1>1, <1>2
  <1>4. Windowed(log, max, count + 1, started)
    BY <1>1, <1>3 DEF Windowed
  <1>5. PICK x : Logged(log) = log \cup {x} /\ Logged(log) \in Log(window)
    BY LoggedIsLog
  <1>6. Cardinality(Logged(log) \ old) <= Cardinality(log \ old) + 1
    BY <1>5, LogParts, OneMoreIsCounted
  <1>7. Cardinality(Logged(log) \ old) \in Nat
    BY <1>5, LogParts
  <1>8. Cardinality(Logged(log) \ old) <= count + 1
    BY <1>1, <1>2, <1>6, <1>7
  <1>9. old \in SUBSET Logged(log)
    BY <1>5
  <1> QED
    BY <1>1, <1>4, <1>8, <1>9 DEF Windowed

-----------------------------------------------------------------------------
(* A row *)

Granted(logs, kind, committed) ==
    [requests |-> Logged(logs.requests),
     mutations |-> IF kind = "read" THEN logs.mutations ELSE Logged(logs.mutations),
     commits |-> IF committed THEN Logged(logs.commits) ELSE logs.commits]

LEMMA RowParts ==
    ASSUME NEW row \in Rows
    PROVE  /\ row.requestStart \in Ticks /\ row.requests \in 0 .. MaxRequests
           /\ row.mutationStart \in Ticks /\ row.mutations \in 0 .. MaxMutations
           /\ row.config \in Ticks \cup {None} /\ row.seen \in Ticks
  BY DEF Rows

LEMMA LogsParts ==
    ASSUME NEW logs \in Logs
    PROVE  /\ logs.requests \in Log(RequestWindow) /\ logs.mutations \in Log(MutationWindow)
           /\ logs.commits \in Log(ConfigCooldown)
           /\ logs = [requests |-> logs.requests, mutations |-> logs.mutations,
                      commits |-> logs.commits]
  BY DEF Logs

LEMMA GrantedIsLogs ==
    ASSUME NEW logs \in Logs, NEW kind, NEW committed \in BOOLEAN
    PROVE  Granted(logs, kind, committed) \in Logs
  <1>1. /\ Logged(logs.requests) \in Log(RequestWindow)
        /\ Logged(logs.mutations) \in Log(MutationWindow)
        /\ Logged(logs.commits) \in Log(ConfigCooldown)
    BY LogsParts, LoggedIsLog, LimiterNumbers
  <1> QED
    BY <1>1, LogsParts DEF Granted, Logs

(* Everything in the logs is no younger than now. *)
LEMMA AllLogsBeforeNow ==
    ASSUME now \in Ticks, NEW logs \in Logs
    PROVE  NotBefore(logs.requests \cup logs.mutations \cup logs.commits, now)
  <1>1. /\ NotBefore(logs.requests, now) /\ NotBefore(logs.mutations, now) /\ NotBefore(logs.commits, now)
    BY LogsParts, LimiterNumbers, AllBeforeNow
  <1> QED
    BY <1>1 DEF NotBefore

(* A commit is granted only when the last one is forgotten. *)
LEMMA CommitsCool ==
    ASSUME now \in Ticks, NEW row \in Rows, NEW logs \in Logs, Covers(row, logs), ~Cooling(row)
    PROVE  logs.commits = {}
  <1> SUFFICES ASSUME logs.commits # {} PROVE FALSE
    OBVIOUS
  <1>1. row.config # None /\ NotBefore(logs.commits, row.config)
    BY DEF Covers
  <1>2. row.config \in Ticks
    BY <1>1, RowParts
  <1>3. ~(Since(row.config) < ConfigCooldown)
    BY <1>1 DEF Cooling
  <1>4. Since(row.config) \in Int
    BY <1>2, SinceIsBehind
  <1>5. Since(row.config) >= ConfigCooldown
    BY <1>3, <1>4, LimiterNumbers
  <1> QED
    BY <1>1, <1>2, <1>5, LogsParts, LimiterNumbers, OverIsEmpty

LEMMA OneCommit ==
    ASSUME NEW log, log = {}
    PROVE  Cardinality(Logged(log)) <= 1
  <1>1. PICK x : Logged(log) = {x}
    BY DEF Logged
  <1> QED
    BY <1>1, FS_Singleton

(* The row that a request leaves behind, one field after another. *)
Asked(row) ==
    LET r == Renewed(row.requestStart, row.requests, RequestWindow)
    IN  [row EXCEPT !.requestStart = r.started, !.requests = r.count + 1]

Changed(row) ==
    LET m == Renewed(row.mutationStart, row.mutations, MutationWindow)
    IN  [Asked(row) EXCEPT !.mutationStart = m.started, !.mutations = m.count + 1]

MayAsk(row) == Renewed(row.requestStart, row.requests, RequestWindow).count < MaxRequests
MayChange(row) ==
    Renewed(row.mutationStart, row.mutations, MutationWindow).count < MaxMutations

(* What authorize() may make of a row, and what it has checked by then. *)
UsedOneOf(row, kind, used) ==
    \/ used.row = row /\ used.outcome \in {"fault", "refused"}
    \/ MayAsk(row) /\ used.row = Asked(row) /\ used.outcome \in {"fault", "refused"}
    \/ /\ MayAsk(row) /\ MayChange(row)
       /\ used.row = Changed(row) /\ used.outcome \in {"fault", "refused"}
    \/ /\ MayAsk(row) /\ kind = "read"
       /\ used.row = [Asked(row) EXCEPT !.seen = now] /\ used.outcome = "granted"
    \/ /\ MayAsk(row) /\ MayChange(row) /\ kind # "read"
       /\ kind = "config" => ~Cooling(row)
       /\ used.row = [Changed(row) EXCEPT !.seen = now] /\ used.outcome = "granted"

LEMMA UsedIsOneOf ==
    ASSUME now \in Ticks, NEW row \in Rows, NEW kind \in {"read", "control", "config"}
    PROVE  UsedOneOf(row, kind, Used(row, kind))
  <1> DEFINE r == Renewed(row.requestStart, row.requests, RequestWindow)
             m == Renewed(row.mutationStart, row.mutations, MutationWindow)
  <1>1. r.count \in Nat /\ m.count \in Nat
    BY RowParts, LimiterNumbers DEF Renewed
  <1>2. ~(r.count >= MaxRequests) => MayAsk(row)
    BY <1>1, LimiterNumbers DEF MayAsk
  <1>3. ~(m.count >= MaxMutations) => MayChange(row)
    BY <1>1, LimiterNumbers DEF MayChange
  <1> HIDE DEF r, m
  <1>4. Asked(row) = [row EXCEPT !.requestStart = r.started, !.requests = r.count + 1]
    BY DEF Asked, r
  <1>5. Changed(row) = [Asked(row) EXCEPT !.mutationStart = m.started, !.mutations = m.count + 1]
    BY DEF Changed, m
  <1> DEFINE f1 == ClockFails({row.requestStart})
             f2 == r.count >= MaxRequests
             f3 == ClockFails({row.mutationStart})
             f4 == m.count >= MaxMutations
             f5 == ClockFails({row.config})
             As(left, outcome) == [row |-> left, outcome |-> outcome]
  <1>6. Used(row, kind) =
          IF f1 THEN As(row, "fault")
          ELSE IF f2 THEN As(row, "refused")
          ELSE IF kind = "read" THEN As([Asked(row) EXCEPT !.seen = now], "granted")
          ELSE IF f3 THEN As(Asked(row), "fault")
          ELSE IF f4 THEN As(Asked(row), "refused")
          ELSE IF kind = "config" /\ f5 THEN As(Changed(row), "fault")
          ELSE IF kind = "config" /\ Cooling(row) THEN As(Changed(row), "refused")
          ELSE As([Changed(row) EXCEPT !.seen = now], "granted")
    BY <1>4, <1>5 DEF Used, r, m
  <1>7. (~f2 => MayAsk(row)) /\ (~f4 => MayChange(row))
    BY <1>2, <1>3
  <1> HIDE DEF f1, f2, f3, f4, f5
  <1>8. CASE f1 \/ f2
    BY <1>6, <1>8 DEF UsedOneOf
  <1>9. CASE ~f1 /\ ~f2 /\ kind = "read"
    BY <1>6, <1>7, <1>9 DEF UsedOneOf
  <1>10. CASE ~f1 /\ ~f2 /\ kind # "read" /\ (f3 \/ f4)
    BY <1>6, <1>7, <1>10 DEF UsedOneOf
  <1>11. CASE ~f1 /\ ~f2 /\ kind # "read" /\ ~f3 /\ ~f4 /\ kind = "config" /\ (f5 \/ Cooling(row))
    BY <1>6, <1>7, <1>11 DEF UsedOneOf
  <1>12. CASE ~f1 /\ ~f2 /\ kind # "read" /\ ~f3 /\ ~f4 /\ ~(kind = "config" /\ (f5 \/ Cooling(row)))
    BY <1>6, <1>7, <1>12 DEF UsedOneOf
  <1> QED
    BY <1>8, <1>9, <1>10, <1>11, <1>12

(* A request counted, granted or not. *)
LEMMA AskedCovers ==
    ASSUME now \in Ticks, NEW row \in Rows, NEW logs \in Logs, Covers(row, logs), MayAsk(row)
    PROVE  LET a == Asked(row)
           IN  /\ a \in Rows /\ Covers(a, logs)
               /\ Windowed(Logged(logs.requests), MaxRequests, a.requests, a.requestStart)
               /\ a.mutations = row.mutations /\ a.mutationStart = row.mutationStart
               /\ a.config = row.config /\ a.seen = row.seen
  <1> DEFINE r == Renewed(row.requestStart, row.requests, RequestWindow)
             a == Asked(row)
  <1>1. r.started \in Ticks /\ r.count \in 0 .. MaxRequests
        /\ Windowed(logs.requests, MaxRequests, r.count, r.started)
    BY RowParts, LogsParts, LimiterNumbers, RenewedCovers DEF Covers
  <1>2. r.count < MaxRequests
    BY DEF MayAsk
  <1>3. Asked(row) = [row EXCEPT !.requestStart = r.started, !.requests = r.count + 1]
    BY DEF Asked
  <1> HIDE DEF r
  <1>4. /\ Windowed(logs.requests, MaxRequests, r.count + 1, r.started)
        /\ Windowed(Logged(logs.requests), MaxRequests, r.count + 1, r.started)
    BY <1>1, LogsParts, LimiterNumbers, CountedCovers
  <1>5. r.count + 1 \in 0 .. MaxRequests
    BY <1>1, <1>2, LimiterNumbers
  <1>6. a \in Rows /\ a.requestStart = r.started /\ a.requests = r.count + 1
        /\ a.mutations = row.mutations /\ a.mutationStart = row.mutationStart
        /\ a.config = row.config /\ a.seen = row.seen
    BY <1>1, <1>3, <1>5 DEF Rows
  <1> HIDE DEF a
  <1>7. Covers(a, logs)
    BY <1>4, <1>6 DEF Covers
  <1> QED
    BY <1>4, <1>6, <1>7 DEF a

(* A change counted, granted or not. *)
LEMMA ChangedCovers ==
    ASSUME now \in Ticks, NEW row \in Rows, NEW logs \in Logs, Covers(row, logs),
           MayAsk(row), MayChange(row)
    PROVE  LET d == Changed(row)
           IN  /\ d \in Rows /\ Covers(d, logs)
               /\ Windowed(Logged(logs.requests), MaxRequests, d.requests, d.requestStart)
               /\ Windowed(Logged(logs.mutations), MaxMutations, d.mutations, d.mutationStart)
               /\ d.config = row.config /\ d.seen = row.seen
  <1> DEFINE m == Renewed(row.mutationStart, row.mutations, MutationWindow)
             a == Asked(row)
             d == Changed(row)
  <1>1. m.started \in Ticks /\ m.count \in 0 .. MaxMutations
        /\ Windowed(logs.mutations, MaxMutations, m.count, m.started)
    BY RowParts, LogsParts, LimiterNumbers, RenewedCovers DEF Covers
  <1>2. m.count < MaxMutations
    BY DEF MayChange
  <1>3. d = [a EXCEPT !.mutationStart = m.started, !.mutations = m.count + 1]
    BY DEF Changed
  <1>4. /\ a \in Rows /\ Covers(a, logs)
        /\ Windowed(Logged(logs.requests), MaxRequests, a.requests, a.requestStart)
        /\ a.config = row.config /\ a.seen = row.seen
    BY AskedCovers
  <1> HIDE DEF m, a, d
  <1>5. /\ Windowed(logs.mutations, MaxMutations, m.count + 1, m.started)
        /\ Windowed(Logged(logs.mutations), MaxMutations, m.count + 1, m.started)
    BY <1>1, LogsParts, LimiterNumbers, CountedCovers
  <1>6. m.count + 1 \in 0 .. MaxMutations
    BY <1>1, <1>2, LimiterNumbers
  <1>7. d \in Rows /\ d.mutationStart = m.started /\ d.mutations = m.count + 1
        /\ d.requests = a.requests /\ d.requestStart = a.requestStart
        /\ d.config = a.config /\ d.seen = a.seen
    BY <1>1, <1>3, <1>4, <1>6 DEF Rows
  <1>8. Covers(d, logs)
    BY <1>4, <1>5, <1>7 DEF Covers
  <1> QED
    BY <1>4, <1>5, <1>7, <1>8 DEF d

(* What the table records of one request covers what was granted by it. *)
LEMMA UsedCovers ==
    ASSUME now \in Ticks, NEW row \in Rows, NEW logs \in Logs, Covers(row, logs),
           NEW kind \in {"read", "control", "config"}, NEW used, used = Used(row, kind)
    PROVE  /\ used.outcome \in {"fault", "refused", "granted"}
           /\ used.row \in Rows
           /\ used.outcome # "granted" => Covers(used.row, logs)
           /\ used.outcome = "granted" =>
                 /\ Covers(used.row, Granted(logs, kind, FALSE))
                 /\ kind = "config" => Covers([used.row EXCEPT !.config = now],
                                              Granted(logs, kind, TRUE))
  <1>1. UsedOneOf(row, kind, used)
    BY UsedIsOneOf
  <1>2. CASE used.row = row /\ used.outcome \in {"fault", "refused"}
    BY <1>2
  <1>3. CASE MayAsk(row) /\ used.row = Asked(row) /\ used.outcome \in {"fault", "refused"}
    BY <1>3, AskedCovers
  <1>4. CASE MayAsk(row) /\ MayChange(row) /\ used.row = Changed(row)
             /\ used.outcome \in {"fault", "refused"}
    BY <1>4, ChangedCovers
  <1>5. CASE MayAsk(row) /\ kind = "read" /\ used.row = [Asked(row) EXCEPT !.seen = now]
             /\ used.outcome = "granted"
    <2> DEFINE a == Asked(row)
               w == used.row
               g == Granted(logs, kind, FALSE)
    <2>1. /\ a \in Rows /\ Covers(a, logs)
          /\ Windowed(Logged(logs.requests), MaxRequests, a.requests, a.requestStart)
      BY <1>5, AskedCovers
    <2>2. w = [a EXCEPT !.seen = now]
      BY <1>5
    <2>3. g \in Logs /\ g.requests = Logged(logs.requests) /\ g.mutations = logs.mutations
          /\ g.commits = logs.commits
      BY <1>5, GrantedIsLogs DEF Granted
    <2>4. NotBefore(g.requests \cup g.mutations \cup g.commits, now)
      BY <2>3, AllLogsBeforeNow
    <2> HIDE DEF a, w, g
    <2>5. w \in Rows /\ w.requests = a.requests /\ w.requestStart = a.requestStart
          /\ w.mutations = a.mutations /\ w.mutationStart = a.mutationStart
          /\ w.config = a.config /\ w.seen = now
      BY <2>1, <2>2 DEF Rows
    <2>6. Covers(w, g)
      BY <2>1, <2>3, <2>4, <2>5 DEF Covers
    <2> QED
      BY <1>5, <2>5, <2>6 DEF w, g
  <1>6. CASE /\ MayAsk(row) /\ MayChange(row) /\ kind # "read"
             /\ kind = "config" => ~Cooling(row)
             /\ used.row = [Changed(row) EXCEPT !.seen = now] /\ used.outcome = "granted"
    <2> DEFINE d == Changed(row)
               w == used.row
               g == Granted(logs, kind, FALSE)
               h == Granted(logs, kind, TRUE)
               v == [w EXCEPT !.config = now]
    <2>1. /\ d \in Rows /\ Covers(d, logs)
          /\ Windowed(Logged(logs.requests), MaxRequests, d.requests, d.requestStart)
          /\ Windowed(Logged(logs.mutations), MaxMutations, d.mutations, d.mutationStart)
      BY <1>6, ChangedCovers
    <2>2. w = [d EXCEPT !.seen = now]
      BY <1>6
    <2>3. /\ g \in Logs /\ g.requests = Logged(logs.requests)
          /\ g.mutations = Logged(logs.mutations) /\ g.commits = logs.commits
      BY <1>6, GrantedIsLogs DEF Granted
    <2>4. /\ h \in Logs /\ h.requests = Logged(logs.requests)
          /\ h.mutations = Logged(logs.mutations) /\ h.commits = Logged(logs.commits)
      BY <1>6, GrantedIsLogs DEF Granted
    <2>5. /\ NotBefore(g.requests \cup g.mutations \cup g.commits, now)
          /\ NotBefore(h.requests \cup h.mutations \cup h.commits, now)
      BY <2>3, <2>4, AllLogsBeforeNow
    <2>6. kind = "config" => Cardinality(h.commits) <= 1
      BY <1>6, <2>4, CommitsCool, OneCommit
    <2>7. NotBefore(h.commits, now)
      BY <2>5 DEF NotBefore
    <2>8. now # None
      BY LimiterNumbers
    <2> HIDE DEF d, w, g, h
    <2>9. w \in Rows /\ w.requests = d.requests /\ w.requestStart = d.requestStart
          /\ w.mutations = d.mutations /\ w.mutationStart = d.mutationStart
          /\ w.config = d.config /\ w.seen = now
      BY <2>1, <2>2 DEF Rows
    <2>10. v.requests = d.requests /\ v.requestStart = d.requestStart
           /\ v.mutations = d.mutations /\ v.mutationStart = d.mutationStart
           /\ v.config = now /\ v.seen = now
      BY <2>9 DEF Rows
    <2> HIDE DEF v
    <2>11. Covers(w, g)
      BY <2>1, <2>3, <2>5, <2>9 DEF Covers
    <2>12. kind = "config" => Covers(v, h)
      BY <2>1, <2>4, <2>5, <2>6, <2>7, <2>8, <2>10 DEF Covers
    <2> QED
      BY <1>6, <2>9, <2>11, <2>12 DEF w, g, h, v
  <1> QED
    BY <1>1, <1>2, <1>3, <1>4, <1>5, <1>6 DEF UsedOneOf

-----------------------------------------------------------------------------
(* The table *)

LEMMA NoGrantsAreCovered ==
    ASSUME now \in Ticks
    PROVE  PeerState \in Rows /\ Covers(PeerState, NoGrants)
  <1>1. PeerState \in Rows
    BY LimiterNumbers DEF PeerState, Rows
  <1>2. Cardinality({}) = 0 /\ {} \ {} = {}
    BY FS_EmptySet
  <1>3. Windowed({}, MaxRequests, 0, now) /\ Windowed({}, MaxMutations, 0, now)
    BY <1>2, LimiterNumbers DEF Windowed, NotBefore
  <1>4. NotBefore({} \cup {} \cup {}, now)
    BY DEF NotBefore
  <1> QED
    BY <1>1, <1>2, <1>3, <1>4 DEF Covers, NoGrants, PeerState

LEMMA LimiterInitSafe == LimiterInit => LimiterInv
  <1> SUFFICES ASSUME LimiterInit PROVE LimiterInv
    OBVIOUS
  <1>1. limiter.faulted = FALSE /\ limiter.peers = [p \in {} |-> PeerState]
        /\ limiter = [peers |-> limiter.peers, faulted |-> limiter.faulted]
        /\ granted = [p \in Clients |-> NoGrants]
    BY DEF LimiterInit, NoGrants
  <1>2. NoGrants \in Logs
    BY FS_EmptySet DEF NoGrants, Logs, Log
  <1>3. DOMAIN limiter.peers = {}
    BY <1>1
  <1>4. Bounded(limiter.peers)
    BY <1>1, <1>3, FS_EmptySet, LimiterNumbers DEF Bounded
  <1>5. TableCovers(limiter.peers, granted)
    BY <1>1, <1>3 DEF TableCovers, PeerIsCovered
  <1>6. now \in Ticks
    BY DEF LimiterInit, Ticks
  <1> QED
    BY <1>1, <1>2, <1>4, <1>5, <1>6 DEF LimiterInv

(* A peer that is dropped has been silent for longer than anything is remembered.  *)
LEMMA ReplaceableIsForgotten ==
    ASSUME LimiterInv, NEW p \in Replaceable
    PROVE  granted[p] = NoGrants
  <1> DEFINE row == limiter.peers[p]
             logs == granted[p]
  <1>1. p \in DOMAIN limiter.peers /\ Since(row.seen) >= PeerStale
    BY DEF Replaceable, Known
  <1>2. p \in Clients /\ row \in Rows /\ logs \in Logs /\ now \in Ticks
    BY <1>1 DEF LimiterInv, Bounded
  <1>3. Covers(row, logs)
    BY <1>1, <1>2 DEF LimiterInv, TableCovers, PeerIsCovered
  <1>4. /\ NotBefore(logs.requests, row.seen) /\ NotBefore(logs.mutations, row.seen)
        /\ NotBefore(logs.commits, row.seen)
    BY <1>3 DEF Covers, NotBefore
  <1>5. row.seen \in Ticks
    BY <1>2, RowParts
  <1>6. /\ Since(row.seen) >= RequestWindow /\ Since(row.seen) >= MutationWindow
        /\ Since(row.seen) >= ConfigCooldown
    <2>1. Since(row.seen) \in Int
      BY <1>2, <1>5, SinceIsBehind
    <2> QED
      BY <1>1, <2>1, LimiterNumbers
  <1>7. /\ logs.requests \in Log(RequestWindow) /\ logs.mutations \in Log(MutationWindow)
        /\ logs.commits \in Log(ConfigCooldown)
        /\ logs = [requests |-> logs.requests, mutations |-> logs.mutations,
                   commits |-> logs.commits]
    BY <1>2, LogsParts
  <1> HIDE DEF row, logs
  <1>8. logs.requests = {}
    BY <1>2, <1>4, <1>5, <1>6, <1>7, LimiterNumbers, OverIsEmpty
  <1>9. logs.mutations = {}
    BY <1>2, <1>4, <1>5, <1>6, <1>7, LimiterNumbers, OverIsEmpty
  <1>10. logs.commits = {}
    BY <1>2, <1>4, <1>5, <1>6, <1>7, LimiterNumbers, OverIsEmpty
  <1> QED
    BY <1>7, <1>8, <1>9, <1>10 DEF NoGrants, logs

(* The peer that asks has a row, whoever was dropped for it. *)
LEMMA WithRowCovers ==
    ASSUME LimiterInv, NEW c \in Clients, NEW rows \in WithRow(c)
    PROVE  c \in DOMAIN rows /\ Bounded(rows) /\ TableCovers(rows, granted)
  <1>1. CASE c \in Known
    BY <1>1 DEF WithRow, LimiterInv, Known
  <1>2. CASE c \notin Known
    <2>1. PICK kept \in SUBSET Known :
              /\ rows = [p \in kept \cup {c} |-> IF p = c THEN PeerState ELSE limiter.peers[p]]
              /\ \/ ~Full /\ kept = Known
                 \/ \E p \in Replaceable : kept = Known \ {p}
      BY <1>2 DEF WithRow
    <2>2. DOMAIN rows = kept \cup {c}
      BY <2>1
    <2>3. IsFiniteSet(Known) /\ Cardinality(Known) \in Nat /\ Cardinality(Known) <= MaxPeers
          /\ Known \subseteq Clients
      BY FS_CardinalityType DEF LimiterInv, Bounded, Known
    <2>4. IsFiniteSet(kept) /\ Cardinality(kept) \in Nat
      BY <2>3, FS_Subset, FS_CardinalityType
    <2>5. Cardinality(kept) + 1 <= MaxPeers
      <3>1. CASE ~Full /\ kept = Known
        BY <2>3, <3>1, LimiterNumbers DEF Full
      <3>2. CASE \E p \in Replaceable : kept = Known \ {p}
        <4>1. PICK p \in Replaceable : kept = Known \ {p}
          BY <3>2
        <4>2. p \in Known
          BY DEF Replaceable
        <4>3. Cardinality(kept) = Cardinality(Known) - 1
          BY <2>3, <4>1, <4>2, FS_RemoveElement
        <4> QED
          BY <2>3, <4>3, LimiterNumbers
      <3> QED
        BY <2>1, <3>1, <3>2
    <2>6. IsFiniteSet(kept \cup {c}) /\ Cardinality(kept \cup {c}) <= MaxPeers
      <3>1. c \notin kept
        BY <1>2
      <3>2. IsFiniteSet(kept \cup {c}) /\ Cardinality(kept \cup {c}) = Cardinality(kept) + 1
        BY <2>4, <3>1, FS_AddElement
      <3> QED
        BY <2>5, <3>2
    <2>7. \A p \in kept : rows[p] = limiter.peers[p]
      BY <1>2, <2>1
    <2>8. rows[c] = PeerState
      BY <2>1
    <2>9. Bounded(rows)
      <3>1. now \in Ticks /\ \A p \in Known : limiter.peers[p] \in Rows
        BY DEF LimiterInv, Bounded, Known
      <3>2. \A p \in kept \cup {c} : rows[p] \in Rows
        BY <2>7, <2>8, <3>1, NoGrantsAreCovered
      <3>3. rows \in [kept \cup {c} -> Rows]
        BY <2>1, <3>2
      <3> QED
        BY <2>2, <2>3, <2>6, <3>3 DEF Bounded
    <2>10. ASSUME NEW d \in Clients PROVE PeerIsCovered(rows, granted, d)
      <3>1. PeerIsCovered(limiter.peers, granted, d) /\ now \in Ticks
        BY DEF LimiterInv, TableCovers
      <3>2. CASE d = c
        <4>1. granted[d] = NoGrants
          BY <1>2, <3>1, <3>2 DEF PeerIsCovered, Known
        <4> QED
          BY <2>2, <2>8, <3>1, <3>2, <4>1, NoGrantsAreCovered DEF PeerIsCovered
      <3>3. CASE d # c /\ d \in kept
        <4>1. d \in DOMAIN limiter.peers /\ d \in DOMAIN rows /\ rows[d] = limiter.peers[d]
          BY <2>2, <2>7, <3>3 DEF Known
        <4> QED
          BY <3>1, <4>1 DEF PeerIsCovered
      <3>4. CASE d # c /\ d \notin kept
        <4>1. d \notin DOMAIN rows
          BY <2>2, <3>4
        <4>2. granted[d] = NoGrants
          <5>1. CASE d \in Known
            <6>1. d \in Replaceable
              BY <2>1, <3>4, <5>1
            <6> QED
              BY <6>1, ReplaceableIsForgotten
          <5>2. CASE d \notin Known
            BY <3>1, <5>2 DEF PeerIsCovered, Known
          <5> QED
            BY <5>1, <5>2
        <4> QED
          BY <4>1, <4>2 DEF PeerIsCovered
      <3> QED
        BY <3>2, <3>3, <3>4
    <2> QED
      BY <2>2, <2>9, <2>10 DEF TableCovers
  <1> QED
    BY <1>1, <1>2

-----------------------------------------------------------------------------
(* Steps *)

(* Nothing grows older while the clock stands. *)
LEMMA CoversAtOneTick ==
    ASSUME now' = now, NEW peers, NEW grants, TableCovers(peers, grants)
    PROVE  TableCovers(peers, grants)'
  BY DEF TableCovers, PeerIsCovered, Covers, Windowed, NotBefore, Behind

(* A row is written and its peer granted what the row covers. *)
LEMMA RowWritten ==
    ASSUME NEW rows, NEW grants \in [Clients -> Logs], Bounded(rows),
           TableCovers(rows, grants), NEW c \in DOMAIN rows, NEW row \in Rows,
           NEW logs \in Logs, Covers(row, logs)
    PROVE  LET t == [rows EXCEPT ![c] = row]
               g == [grants EXCEPT ![c] = logs]
           IN  Bounded(t) /\ TableCovers(t, g) /\ g \in [Clients -> Logs]
  <1> DEFINE t == [rows EXCEPT ![c] = row]
             g == [grants EXCEPT ![c] = logs]
  <1>1. c \in Clients
    BY DEF Bounded
  <1>2. DOMAIN t = DOMAIN rows
    OBVIOUS
  <1>3. Bounded(t)
    BY <1>2 DEF Bounded
  <1>4. g \in [Clients -> Logs]
    BY <1>1
  <1>5. ASSUME NEW d \in Clients PROVE PeerIsCovered(t, g, d)
    <2>1. PeerIsCovered(rows, grants, d)
      BY DEF TableCovers
    <2>2. CASE d = c
      <3>1. t[d] = row /\ g[d] = logs /\ d \in DOMAIN t
        BY <1>1, <1>2, <2>2
      <3> QED
        BY <3>1 DEF PeerIsCovered
    <2>3. CASE d # c
      <3>1. g[d] = grants[d] /\ (d \in DOMAIN rows => t[d] = rows[d])
        BY <2>3
      <3> QED
        BY <1>2, <2>1, <3>1 DEF PeerIsCovered
    <2> QED
      BY <2>2, <2>3
  <1> QED
    BY <1>3, <1>4, <1>5 DEF TableCovers

(* What authorize() and complete() make of a table in which the peer has a row. *)
Treats(c, rows, kind, commits) ==
    LET used == Used(rows[c], kind)
        kept == [rows EXCEPT ![c] = used.row]
    IN  \/ used.outcome = "fault" /\ Fails(kept)
        \/ /\ used.outcome = "refused"
           /\ limiter' = [limiter EXCEPT !.peers = kept]
           /\ UNCHANGED granted
        \/ /\ used.outcome = "granted"
           /\ commits => kind = "config"
           /\ limiter' = [limiter EXCEPT !.peers =
                            IF commits THEN [kept EXCEPT ![c].config = now] ELSE kept]
           /\ Grant(c, kind, commits)

LEMMA AskTreats ==
    ASSUME NEW c \in Clients, Ask(c)
    PROVE  \/ Fails(limiter.peers)
           \/ \E rows \in WithRow(c), kind \in {"read", "control", "config"}, commits \in BOOLEAN :
                 Treats(c, rows, kind, commits)
  BY DEF Ask, Treats

LEMMA AskKeepsLimiter ==
    ASSUME LimiterInv, NEW c \in Clients, Ask(c)
    PROVE  LimiterInv'
  <1>1. now' = now /\ now \in Ticks /\ granted \in [Clients -> Logs]
    BY DEF Ask, LimiterInv
  <1> SUFFICES /\ limiter' = [peers |-> limiter'.peers, faulted |-> limiter'.faulted]
               /\ limiter'.faulted \in BOOLEAN /\ granted' \in [Clients -> Logs]
               /\ Bounded(limiter'.peers) /\ TableCovers(limiter'.peers, granted')
    <2>1. PICK peers, grants : peers = limiter'.peers /\ grants = granted'
      OBVIOUS
    <2>2. TableCovers(peers, grants)'
      BY <1>1, <2>1, CoversAtOneTick
    <2> QED
      BY <1>1, <2>1, <2>2 DEF LimiterInv, Bounded
  <1>2. CASE Fails(limiter.peers)
    BY <1>2 DEF Fails, LimiterInv
  <1>3. ASSUME NEW rows \in WithRow(c), NEW kind \in {"read", "control", "config"},
               NEW commits \in BOOLEAN, Treats(c, rows, kind, commits)
        PROVE  /\ limiter' = [peers |-> limiter'.peers, faulted |-> limiter'.faulted]
               /\ limiter'.faulted \in BOOLEAN /\ granted' \in [Clients -> Logs]
               /\ Bounded(limiter'.peers) /\ TableCovers(limiter'.peers, granted')
    <2> DEFINE used == Used(rows[c], kind)
               kept == [rows EXCEPT ![c] = used.row]
    <2>a. \/ used.outcome = "fault" /\ Fails(kept)
          \/ /\ used.outcome = "refused"
             /\ limiter' = [limiter EXCEPT !.peers = kept]
             /\ UNCHANGED granted
          \/ /\ used.outcome = "granted"
             /\ commits => kind = "config"
             /\ limiter' = [limiter EXCEPT !.peers =
                              IF commits THEN [kept EXCEPT ![c].config = now] ELSE kept]
             /\ Grant(c, kind, commits)
      BY <1>3 DEF Treats
    <2>b. used = Used(rows[c], kind) /\ kept = [rows EXCEPT ![c] = used.row]
      OBVIOUS
    <2>c. limiter = [peers |-> limiter.peers, faulted |-> limiter.faulted]
          /\ limiter.faulted \in BOOLEAN
      BY DEF LimiterInv
    <2> HIDE DEF used, kept
    <2> DEFINE row == rows[c]
               logs == granted[c]
    <2>1. c \in DOMAIN rows /\ Bounded(rows) /\ TableCovers(rows, granted)
      BY WithRowCovers
    <2>2. row \in Rows /\ logs \in Logs /\ Covers(row, logs)
      BY <1>1, <2>1 DEF Bounded, TableCovers, PeerIsCovered
    <2>3. /\ used.row \in Rows
          /\ used.outcome # "granted" => Covers(used.row, logs)
          /\ used.outcome = "granted" =>
                /\ Covers(used.row, Granted(logs, kind, FALSE))
                /\ kind = "config" => Covers([used.row EXCEPT !.config = now],
                                             Granted(logs, kind, TRUE))
      BY <1>1, <2>2, <2>b, UsedCovers
    <2>4. CASE used.outcome \in {"fault", "refused"}
      <3>1. granted = [granted EXCEPT ![c] = logs]
        BY <1>1
      <3>2. Bounded(kept) /\ TableCovers(kept, granted)
        <4>1. Covers(used.row, logs)
          BY <2>3, <2>4
        <4> HIDE DEF logs, row
        <4>2. LET t == [rows EXCEPT ![c] = used.row]
                  g == [granted EXCEPT ![c] = logs]
              IN  Bounded(t) /\ TableCovers(t, g) /\ g \in [Clients -> Logs]
          BY <1>1, <2>1, <2>2, <2>3, <4>1, RowWritten
        <4> QED
          BY <2>b, <3>1, <4>2
      <3>3. limiter'.peers = kept /\ granted' = granted /\ limiter'.faulted \in BOOLEAN
            /\ limiter' = [peers |-> limiter'.peers, faulted |-> limiter'.faulted]
        <4>1. CASE Fails(kept)
          BY <4>1 DEF Fails
        <4>2. CASE limiter' = [limiter EXCEPT !.peers = kept] /\ granted' = granted
          BY <2>c, <4>2
        <4> QED
          BY <2>a, <2>4, <4>1, <4>2
      <3> QED
        BY <1>1, <3>2, <3>3
    <2>5. CASE used.outcome = "granted"
      <3> DEFINE row2 == IF commits THEN [used.row EXCEPT !.config = now] ELSE used.row
                 logs2 == Granted(logs, kind, commits)
      <3>1. commits => kind = "config"
        BY <2>a, <2>5
      <3>2. Covers(row2, logs2)
        BY <2>3, <2>5, <3>1
      <3>3. row2 \in Rows
        BY <1>1, <2>3 DEF Rows
      <3>4. logs2 \in Logs
        BY <2>2, GrantedIsLogs
      <3>5. limiter'.peers = [rows EXCEPT ![c] = row2]
        <4>1. limiter'.peers = IF commits THEN [kept EXCEPT ![c].config = now] ELSE kept
          <5> DEFINE p == IF commits THEN [kept EXCEPT ![c].config = now] ELSE kept
          <5>1. limiter' = [limiter EXCEPT !.peers = p]
            BY <2>a, <2>5
          <5> HIDE DEF p
          <5>2. limiter'.peers = p
            BY <2>c, <5>1
          <5> QED
            BY <5>2 DEF p
        <4>2. kept[c] = used.row /\ [kept EXCEPT ![c] = row2] = [rows EXCEPT ![c] = row2]
          BY <2>b, <2>1
        <4>3. commits => [kept EXCEPT ![c].config = now] = [kept EXCEPT ![c] = row2]
          BY <4>2
        <4> QED
          <5>1. CASE commits
            BY <4>1, <4>2, <4>3, <5>1
          <5>2. CASE ~commits
            BY <2>b, <4>1, <5>2
          <5> QED
            BY <5>1, <5>2
      <3>6. limiter'.faulted = limiter.faulted
            /\ limiter' = [peers |-> limiter'.peers, faulted |-> limiter'.faulted]
        <4> DEFINE p == IF commits THEN [kept EXCEPT ![c].config = now] ELSE kept
        <4>1. limiter' = [limiter EXCEPT !.peers = p]
          BY <2>a, <2>5
        <4> HIDE DEF p
        <4> QED
          BY <2>c, <4>1
      <3>7. granted' = [granted EXCEPT ![c] = logs2]
        BY <2>a, <2>5 DEF Grant, Granted
      <3> HIDE DEF row2, logs2
      <3>8. LET t == [rows EXCEPT ![c] = row2]
                g == [granted EXCEPT ![c] = logs2]
            IN  Bounded(t) /\ TableCovers(t, g) /\ g \in [Clients -> Logs]
        BY <1>1, <2>1, <3>2, <3>3, <3>4, RowWritten
      <3>9. limiter.faulted \in BOOLEAN
        BY DEF LimiterInv
      <3> QED
        BY <3>5, <3>6, <3>7, <3>8, <3>9
    <2> QED
      BY <2>a, <2>4, <2>5
  <1> QED
    BY <1>2, <1>3, AskTreats

(* A tick later everything is one tick older, or out of its window. *)
LEMMA OlderIsLog ==
    ASSUME NEW window \in Nat, NEW log \in Log(window)
    PROVE  /\ Older(log, window) \in Log(window)
           /\ Cardinality(Older(log, window)) <= Cardinality(log)
  <1> DEFINE left == {y \in log : y[1] + 1 < window}
             older == Older(log, window)
             f == [y \in left |-> <<y[1] + 1, y[2]>>]
  <1>1. left \in SUBSET log
    OBVIOUS
  <1>2. IsFiniteSet(left) /\ Cardinality(left) \in Nat /\ Cardinality(left) <= Cardinality(log)
        /\ Cardinality(log) \in Nat
    BY <1>1, LogParts, FS_Subset
  <1>3. older = {<<y[1] + 1, y[2]>> : y \in left}
    BY DEF Older
  <1>4. f \in Surjection(left, older)
    BY <1>3 DEF Surjection
  <1> HIDE DEF f
  <1>5. IsFiniteSet(older) /\ Cardinality(older) <= Cardinality(left)
    BY <1>2, <1>4, FS_Surjection
  <1>6. Cardinality(older) \in Nat
    BY <1>5, FS_CardinalityType
  <1>7. older \in SUBSET ((0 .. window - 1) \X Nat)
    BY <1>3 DEF Log
  <1> QED
    BY <1>2, <1>5, <1>6, <1>7 DEF Log

LEMMA OlderIsBefore ==
    ASSUME now \in Ticks, now' = (now + 1) % TickRange, NEW tick \in Ticks,
           NEW window \in Nat, NEW log \in Log(window), NotBefore(log, tick)
    PROVE  NotBefore(Older(log, window), tick)'
  <1>1. now' = IF now + 1 = TickRange THEN 0 ELSE now + 1
    <2>1. now + 1 \in Int /\ 0 <= now + 1 /\ now + 1 <= TickRange
      BY LimiterNumbers DEF Ticks
    <2>2. PICK x \in Int : x = now + 1
      BY <2>1
    <2>3. /\ 0 <= x /\ x < TickRange => x % TickRange = x
          /\ TickRange <= x /\ x < 2 * TickRange => x % TickRange = x - TickRange
      BY <2>2, Modulo, LimiterNumbers
    <2>4. now' = x % TickRange
      BY <2>2
    <2> QED
      BY <2>1, <2>2, <2>3, <2>4, LimiterNumbers
  <1>2. Behind(tick) \in Nat /\ Behind(tick)' <= Behind(tick) + 1 /\ Behind(tick)' \in Int
    BY <1>1, LimiterNumbers DEF Behind, Ticks
  <1>3. \A x \in Older(log, window) : \E y \in log : x[1] = y[1] + 1
    BY DEF Older
  <1>4. \A y \in log : y[1] \in Nat /\ y[1] >= Behind(tick)
    BY LogParts DEF NotBefore
  <1>5. \A x \in Older(log, window) : x[1] >= Behind(tick)'
    BY <1>2, <1>3, <1>4
  <1> QED
    BY <1>5 DEF NotBefore

LEMMA OlderIsWindowed ==
    ASSUME now \in Ticks, now' = (now + 1) % TickRange, NEW started \in Ticks,
           NEW window \in Nat, NEW log \in Log(window), NEW max \in Nat, NEW count \in Nat,
           Windowed(log, max, count, started)
    PROVE  Windowed(Older(log, window), max, count, started)'
  <1>1. PICK old \in SUBSET log :
            NotBefore(old, started) /\ Cardinality(old) <= max /\ Cardinality(log \ old) <= count
    BY DEF Windowed
  <1> DEFINE young == log \ old
             o == Older(old, window)
             l == Older(log, window)
  <1>2. old \in Log(window) /\ young \in Log(window)
        /\ Cardinality(old) \in Nat /\ Cardinality(young) \in Nat
    BY LogParts
  <1>3. o \in SUBSET l /\ l \ o \in SUBSET Older(young, window)
    BY DEF Older
  <1>4. NotBefore(o, started)'
    BY <1>1, <1>2, OlderIsBefore
  <1>5. o \in Log(window) /\ Cardinality(o) <= Cardinality(old)
        /\ Older(young, window) \in Log(window)
        /\ Cardinality(Older(young, window)) <= Cardinality(young)
    BY <1>2, OlderIsLog
  <1>6. Cardinality(o) \in Nat /\ Cardinality(Older(young, window)) \in Nat
    BY <1>5, LogParts
  <1>7. Cardinality(l \ o) <= Cardinality(Older(young, window)) /\ Cardinality(l \ o) \in Nat
    <2>1. IsFiniteSet(Older(young, window))
      BY <1>5, LogParts
    <2> QED
      BY <1>3, <2>1, FS_Subset, FS_CardinalityType
  <1>8. Cardinality(o) <= max
    BY <1>1, <1>2, <1>5, <1>6
  <1>9. Cardinality(l \ o) <= count
    BY <1>1, <1>2, <1>5, <1>6, <1>7
  <1> HIDE DEF o, l
  <1>10. Windowed(l, max, count, started)'
    BY <1>3, <1>4, <1>8, <1>9 DEF Windowed
  <1> QED
    BY <1>10 DEF l

LEMMA CoversLater ==
    ASSUME now \in Ticks, now' = (now + 1) % TickRange, NEW row \in Rows, NEW logs \in Logs,
           Covers(row, logs)
    PROVE  Covers(row, [requests |-> Older(logs.requests, RequestWindow),
                        mutations |-> Older(logs.mutations, MutationWindow),
                        commits |-> Older(logs.commits, ConfigCooldown)])'
  <1> DEFINE older == [requests |-> Older(logs.requests, RequestWindow),
                       mutations |-> Older(logs.mutations, MutationWindow),
                       commits |-> Older(logs.commits, ConfigCooldown)]
  <1>1. PICK requests, mutations, commits :
            /\ requests = Older(logs.requests, RequestWindow)
            /\ mutations = Older(logs.mutations, MutationWindow)
            /\ commits = Older(logs.commits, ConfigCooldown)
    OBVIOUS
  <1>2. /\ logs.requests \in Log(RequestWindow) /\ logs.mutations \in Log(MutationWindow)
        /\ logs.commits \in Log(ConfigCooldown)
    BY LogsParts
  <1>3. /\ row.requestStart \in Ticks /\ row.requests \in Nat
        /\ row.mutationStart \in Ticks /\ row.mutations \in Nat /\ row.seen \in Ticks
    BY RowParts, LimiterNumbers
  <1>4. Windowed(requests, MaxRequests, row.requests, row.requestStart)'
    BY <1>1, <1>2, <1>3, LimiterNumbers, OlderIsWindowed DEF Covers
  <1>5. Windowed(mutations, MaxMutations, row.mutations, row.mutationStart)'
    BY <1>1, <1>2, <1>3, LimiterNumbers, OlderIsWindowed DEF Covers
  <1>6. Cardinality(commits) <= 1
    <2>1. commits \in Log(ConfigCooldown) /\ Cardinality(commits) <= Cardinality(logs.commits)
      BY <1>1, <1>2, LimiterNumbers, OlderIsLog
    <2>2. Cardinality(commits) \in Nat /\ Cardinality(logs.commits) \in Nat
      BY <1>2, <2>1, LimiterNumbers, LogParts
    <2>3. Cardinality(logs.commits) <= 1
      BY DEF Covers
    <2> QED
      BY <2>1, <2>2, <2>3
  <1>7. commits # {} => row.config # None /\ NotBefore(commits, row.config)'
    <2> SUFFICES ASSUME commits # {} PROVE row.config # None /\ NotBefore(commits, row.config)'
      OBVIOUS
    <2>1. logs.commits # {}
      BY <1>1 DEF Older
    <2>2. row.config \in Ticks /\ row.config # None /\ NotBefore(logs.commits, row.config)
      BY <2>1, RowParts DEF Covers
    <2> QED
      BY <1>1, <1>2, <2>2, LimiterNumbers, OlderIsBefore
  <1>8. NotBefore(requests \cup mutations \cup commits, row.seen)'
    <2>1. /\ NotBefore(logs.requests, row.seen) /\ NotBefore(logs.mutations, row.seen)
          /\ NotBefore(logs.commits, row.seen)
      BY DEF Covers, NotBefore
    <2>2. NotBefore(requests, row.seen)' /\ NotBefore(mutations, row.seen)' /\ NotBefore(commits, row.seen)'
      BY <1>1, <1>2, <1>3, <2>1, LimiterNumbers, OlderIsBefore
    <2> QED
      BY <2>2 DEF NotBefore
  <1>9. PICK o : o = older
    OBVIOUS
  <1>10. o.requests = requests /\ o.mutations = mutations /\ o.commits = commits
    BY <1>1, <1>9
  <1>11. Covers(row, o)'
    BY <1>4, <1>5, <1>6, <1>7, <1>8, <1>10 DEF Covers
  <1> QED
    BY <1>9, <1>11

LEMMA TickKeepsLimiter ==
    ASSUME LimiterInv, LimiterTick
    PROVE  LimiterInv'
  <1>1. now \in Ticks /\ now' = (now + 1) % TickRange /\ limiter' = limiter
    BY DEF LimiterInv, LimiterTick
  <1>2. now' \in Ticks
    BY <1>1, LimiterNumbers DEF Ticks
  <1>3. PICK peers, grants : peers = limiter.peers /\ grants = granted
    OBVIOUS
  <1>4. PICK later : later = granted'
    OBVIOUS
  <1>5. /\ grants \in [Clients -> Logs] /\ Bounded(peers) /\ TableCovers(peers, grants)
    BY <1>3 DEF LimiterInv
  <1>6. later = [c \in Clients |->
                   [requests |-> Older(grants[c].requests, RequestWindow),
                    mutations |-> Older(grants[c].mutations, MutationWindow),
                    commits |-> Older(grants[c].commits, ConfigCooldown)]]
    BY <1>3, <1>4 DEF LimiterTick
  <1>7. ASSUME NEW c \in Clients PROVE later[c] \in Logs
    <2>1. grants[c] \in Logs
      BY <1>5
    <2>2. /\ Older(grants[c].requests, RequestWindow) \in Log(RequestWindow)
          /\ Older(grants[c].mutations, MutationWindow) \in Log(MutationWindow)
          /\ Older(grants[c].commits, ConfigCooldown) \in Log(ConfigCooldown)
      BY <2>1, LogsParts, LimiterNumbers, OlderIsLog
    <2> QED
      BY <1>6, <2>2 DEF Logs
  <1>8. ASSUME NEW c \in Clients PROVE PeerIsCovered(peers, later, c)'
    <2>1. PICK logs : logs = grants[c]
      OBVIOUS
    <2>2. logs \in Logs /\ PeerIsCovered(peers, grants, c)
      BY <1>5, <2>1 DEF TableCovers
    <2>3. later[c] = [requests |-> Older(logs.requests, RequestWindow),
                      mutations |-> Older(logs.mutations, MutationWindow),
                      commits |-> Older(logs.commits, ConfigCooldown)]
      BY <1>6, <2>1
    <2>4. CASE c \in DOMAIN peers
      <3>1. PICK row \in Rows : row = peers[c]
        BY <1>5, <2>4 DEF Bounded
      <3>2. Covers(row, logs)
        BY <2>1, <2>2, <2>4, <3>1 DEF PeerIsCovered
      <3>3. Covers(row, later[c])'
        BY <1>1, <2>2, <2>3, <3>2, CoversLater
      <3> QED
        BY <2>4, <3>1, <3>3 DEF PeerIsCovered
    <2>5. CASE c \notin DOMAIN peers
      <3>1. logs = NoGrants
        BY <2>1, <2>2, <2>5 DEF PeerIsCovered
      <3>2. later[c] = NoGrants
        BY <2>3, <3>1 DEF NoGrants, Older
      <3> QED
        BY <2>5, <3>2 DEF PeerIsCovered
    <2> QED
      BY <2>4, <2>5
  <1>9. TableCovers(peers, later)'
    BY <1>8 DEF TableCovers
  <1>10. later \in [Clients -> Logs]
    BY <1>6, <1>7
  <1> QED
    BY <1>1, <1>2, <1>3, <1>4, <1>5, <1>9, <1>10 DEF LimiterInv, Bounded

LEMMA LimiterSteps == LimiterInv /\ [LimiterNext]_limiterVars => LimiterInv'
  <1> SUFFICES ASSUME LimiterInv, [LimiterNext]_limiterVars PROVE LimiterInv'
    OBVIOUS
  <1>1. CASE LimiterTick
    BY <1>1, TickKeepsLimiter
  <1>2. CASE \E c \in Clients : Ask(c)
    BY <1>2, AskKeepsLimiter
  <1>3. CASE UNCHANGED limiterVars
    BY <1>3 DEF limiterVars, LimiterInv, Bounded, TableCovers, PeerIsCovered, Covers,
                Windowed, NotBefore, Behind
  <1> QED
    BY <1>1, <1>2, <1>3 DEF LimiterNext

(* The table always covers what was granted: LimiterInv is inductive. *)
THEOREM LimiterInvariance == LimiterSpec => []LimiterInv
  BY LimiterInitSafe, LimiterSteps, PTL DEF LimiterSpec

(* Whoever asks, and however peers push each other out of the table, authorize() and     *)
(* complete() grant no peer more than two windows' worth of requests or changes within    *)
(* a window, and no second change of the configuration within the cooldown.               *)
THEOREM NoPeerExceedsItsQuota == LimiterSpec => []QuotasHold
  <1>1. LimiterInv => QuotasHold
    <2> SUFFICES ASSUME LimiterInv, NEW c \in Clients
                 PROVE  /\ Cardinality(granted[c].requests) <= 2 * MaxRequests
                        /\ Cardinality(granted[c].mutations) <= 2 * MaxMutations
                        /\ Cardinality(granted[c].commits) <= 1
      BY DEF QuotasHold
    <2> DEFINE logs == granted[c]
               row == limiter.peers[c]
    <2>1. logs \in Logs /\ PeerIsCovered(limiter.peers, granted, c)
      BY DEF LimiterInv, TableCovers
    <2>2. CASE c \in DOMAIN limiter.peers
      <3>1. row \in Rows /\ Covers(row, logs)
        BY <2>1, <2>2 DEF LimiterInv, Bounded, PeerIsCovered
      <3>2. row.requests \in 0 .. MaxRequests /\ row.mutations \in 0 .. MaxMutations
        BY <3>1, RowParts
      <3>3. logs.requests \in Log(RequestWindow) /\ logs.mutations \in Log(MutationWindow)
        BY <2>1, LogsParts
      <3>4. /\ Windowed(logs.requests, MaxRequests, row.requests, row.requestStart)
            /\ Windowed(logs.mutations, MaxMutations, row.mutations, row.mutationStart)
            /\ Cardinality(logs.commits) <= 1
        BY <3>1 DEF Covers
      <3> HIDE DEF logs, row
      <3>5. Cardinality(logs.requests) <= MaxRequests + row.requests
        BY <3>2, <3>3, <3>4, LimiterNumbers, WindowedIsBounded
      <3>6. Cardinality(logs.mutations) <= MaxMutations + row.mutations
        BY <3>2, <3>3, <3>4, LimiterNumbers, WindowedIsBounded
      <3>7. Cardinality(logs.requests) \in Nat /\ Cardinality(logs.mutations) \in Nat
        BY <3>3, LimiterNumbers, LogParts
      <3> QED
        BY <3>2, <3>4, <3>5, <3>6, <3>7, LimiterNumbers DEF logs
    <2>3. CASE c \notin DOMAIN limiter.peers
      <3>1. logs = NoGrants
        BY <2>1, <2>3 DEF PeerIsCovered
      <3>2. /\ Cardinality(logs.requests) = 0 /\ Cardinality(logs.mutations) = 0
            /\ Cardinality(logs.commits) = 0
        BY <3>1, FS_EmptySet DEF NoGrants
      <3> QED
        BY <3>2, LimiterNumbers
    <2> QED
      BY <2>2, <2>3
  <1> QED
    BY <1>1, LimiterInvariance, PTL

LEMMA LimiterIsTyped == LimiterInv => LimiterTypeOK
  BY DEF LimiterInv, LimiterTypeOK, Bounded, Known, Ticks

(* The table of peers never outgrows its places: a peer comes in for one that goes.      *)
THEOREM LimiterTyped == LimiterSpec => []LimiterTypeOK
  BY LimiterIsTyped, LimiterInvariance, PTL

-----------------------------------------------------------------------------
(* The table of connections.  What a step does to it is always the same: it gives up     *)
(* some places and leaves the others to their connections.                               *)

Phases == Reading \cup {"free", "write", "closing", "rejected"}

Places ==
    [port : Sockets \cup {None}, phase : Phases, idle : 0 .. IdleTimeout,
     total : 0 .. TotalTimeout, got : 0 .. MaxChunks, left : 0 .. AnswerChunks]

PlaceIsTyped(c) == c \in Places /\ (c.phase = "free" <=> c.port = None)

(* No connection has two places. *)
PlacesDiffer ==
    \A i, j \in Slots : table[i].port = table[j].port /\ table[i].port # None => i = j

(* What is open has a place, and nothing else has. *)
PlacesAreOpen == \A s \in Sockets : socket[s] = "open" <=> \E i \in Slots : table[i].port = s

(* What is still read, or not yet accepted, was not handed on. *)
NoneHandledYet ==
    /\ \A s \in Sockets : socket[s] \in {"absent", "queued"} => handled[s] = 0
    /\ \A i \in Slots : table[i].phase \in Reading => handled[table[i].port] = 0

HttpShape ==
    /\ listener \in {"down", "up", "stuck"}
    /\ serverClosed \in BOOLEAN
    /\ turn \in Actors
    /\ socketErrors \in 0 .. MaxSocketErrors

HttpInv ==
    /\ HttpShape
    /\ table \in [Slots -> Places]
    /\ \A i \in Slots : PlaceIsTyped(table[i])
    /\ socket \in [Sockets -> {"absent", "queued", "open", "closed"}]
    /\ handled \in [Sockets -> 0 .. 1]
    /\ PlacesDiffer
    /\ PlacesAreOpen
    /\ NoneHandledYet

-----------------------------------------------------------------------------
LEMMA HttpNumbers ==
    /\ IdleTimeout \in Nat \ {0} /\ TotalTimeout \in Nat \ {0} /\ IdleTimeout <= TotalTimeout
    /\ MaxChunks \in Nat \ {0} /\ AnswerChunks \in Nat \ {0}
    /\ MaxSocketErrors \in Nat /\ None \notin Sockets
    /\ Cardinality(Slots) \in Nat \ {0} /\ Slots = 1 .. Cardinality(Slots)
  BY HttpAssumption

LEMMA ActorsAreCounted ==
    \E n \in Nat \ {0} : Slots = 1 .. n /\ Actors = 0 .. n /\ Cardinality(Actors) = n + 1
  <1>1. PICK n \in Nat \ {0} : Slots = 1 .. n
    BY HttpNumbers
  <1>2. Actors = 0 .. n
    BY <1>1 DEF Actors
  <1>3. Cardinality(0 .. n) = n + 1
    BY <1>1, FS_Interval
  <1> QED
    BY <1>1, <1>2, <1>3

LEMMA Remainder ==
    ASSUME NEW x \in Int, NEW n \in Nat \ {0}
    PROVE  x % n \in 0 .. n - 1
  BY SMT

LEMMA AfterIsActor ==
    ASSUME NEW actor \in Actors
    PROVE  After(actor) \in Actors
  <1>1. PICK n \in Nat \ {0} : Slots = 1 .. n /\ Actors = 0 .. n /\ Cardinality(Actors) = n + 1
    BY ActorsAreCounted
  <1>2. PICK x \in Int : x = actor + 1
    BY <1>1
  <1>3. x % (n + 1) \in 0 .. n
    <2>1. PICK k \in Nat \ {0} : k = n + 1
      BY <1>1
    <2>2. x % k \in 0 .. k - 1
      BY Remainder
    <2> QED
      BY <1>1, <2>1, <2>2
  <1> QED
    BY <1>1, <1>2, <1>3 DEF After

LEMMA LeastExists ==
    ASSUME NEW S \in SUBSET Nat, S # {}
    PROVE  \E x \in S : \A y \in S : x <= y
  <1> DEFINE R == OpToRel(<, Nat)
  <1>1. IsWellFoundedOn(R, Nat)
    BY NatLessThanWellFounded
  <1>2. R = {ss \in Nat \X Nat : ss[1] < ss[2]}
    BY DEF OpToRel
  <1> HIDE DEF R
  <1>3. PICK x \in S : \A y \in S : ~ (<<y, x>> \in R)
    BY <1>1, WFMin
  <1>4. \A y \in S : ~ (y < x) /\ y \in Nat /\ x \in Nat
    BY <1>2, <1>3
  <1>5. \A y \in S : x <= y
    BY <1>4
  <1> QED
    BY <1>5

(* A free place is found when there is one. *)
LEMMA FreeIsFound ==
    ASSUME NEW t, Free(t) # {}
    PROVE  Min(Free(t)) \in Slots /\ t[Min(Free(t))].phase = "free"
  <1>1. Free(t) \in SUBSET Nat
    BY HttpNumbers DEF Free
  <1>2. \E x \in Free(t) : \A y \in Free(t) : x <= y
    BY <1>1, LeastExists
  <1>3. Min(Free(t)) \in Free(t)
    BY <1>2 DEF Min
  <1> QED
    BY <1>3 DEF Free

(* The actor that is chosen has something to do. *)
LEMMA ChosenIsEligible ==
    ASSUME turn \in Actors, NEW t, NEW b \in Actors, Eligible(t, b)
    PROVE  Chosen(t) \in Actors /\ Eligible(t, Chosen(t))
  <1>1. PICK n \in Nat \ {0} : Slots = 1 .. n /\ Actors = 0 .. n /\ Cardinality(Actors) = n + 1
    BY ActorsAreCounted
  <1> DEFINE distance(a) == (a - turn) % Cardinality(Actors)
             ready == {a \in Actors : Eligible(t, a)}
             S == {distance(a) : a \in ready}
  <1>2. ASSUME NEW a \in Actors PROVE distance(a) \in Nat
    <2>1. PICK x \in Int : x = a - turn
      BY <1>1
    <2>2. PICK k \in Nat \ {0} : k = n + 1
      BY <1>1
    <2>3. x % k \in 0 .. k - 1
      BY Remainder
    <2> QED
      BY <1>1, <2>1, <2>2, <2>3
  <1>3. S \in SUBSET Nat /\ S # {}
    BY <1>2
  <1>4. Chosen(t) = CHOOSE a \in ready : \A c \in ready : distance(a) <= distance(c)
    BY DEF Chosen
  <1> HIDE DEF distance
  <1>5. PICK m \in S : \A y \in S : m <= y
    <2> HIDE DEF S
    <2> QED
      BY <1>3, LeastExists
  <1>6. \E a \in ready : \A c \in ready : distance(a) <= distance(c)
    BY <1>5
  <1>7. Chosen(t) \in ready
    <2> HIDE DEF ready
    <2> QED
      BY <1>4, <1>6
  <1> QED
    BY <1>7

-----------------------------------------------------------------------------
(* What a step makes of the table: some places are given up, the others keep their     *)
(* connections, and nothing is read again that was read.                                *)
Closes(t, gone) ==
    /\ t \in [Slots -> Places]
    /\ \A i \in Slots : PlaceIsTyped(t[i])
    /\ \A i \in gone : t[i].port = None
    /\ \A i \in Slots \ gone : t[i].port = table[i].port
    /\ \A i \in Slots : t[i].phase \in Reading => table[i].phase \in Reading

(* A request is counted when its place stops reading. *)
HandledInPlace(t, h) ==
    /\ h \in [Sockets -> 0 .. 1]
    /\ \A s \in Sockets : h[s] # handled[s] =>
          \E i \in Slots : /\ table[i].port = s /\ table[i].phase \in Reading
                           /\ t[i].phase \notin Reading

LEMMA PlaceParts ==
    ASSUME NEW c, PlaceIsTyped(c)
    PROVE  /\ c.port \in Sockets \cup {None} /\ c.phase \in Phases
           /\ (c.phase = "free" <=> c.port = None)
           /\ c.phase # "free" => c.port \in Sockets
  BY DEF PlaceIsTyped, Places

LEMMA TableMoves ==
    ASSUME HttpInv, HttpShape', NEW gone \in SUBSET Slots, NEW t, NEW h,
           table' = t, handled' = h, Closes(t, gone), PeersSee(gone, {}),
           HandledInPlace(t, h)
    PROVE  HttpInv'
  <1>1. PICK so : so = socket'
    OBVIOUS
  <1>2. so = [s \in Sockets |-> IF \E i \in gone : table[i].port = s THEN "closed" ELSE socket[s]]
    BY <1>1 DEF PeersSee
  <1>3. /\ socket \in [Sockets -> {"absent", "queued", "open", "closed"}]
        /\ PlacesDiffer /\ PlacesAreOpen /\ NoneHandledYet
        /\ \A i \in Slots : PlaceIsTyped(table[i])
    BY DEF HttpInv
  <1>4. so \in [Sockets -> {"absent", "queued", "open", "closed"}]
    BY <1>2, <1>3
  <1>5. None \notin Sockets
    BY HttpNumbers
  <1>6. \A i \in Slots : t[i].port = table[i].port \/ t[i].port = None
    BY DEF Closes
  <1>7. \A i, j \in Slots : t[i].port = t[j].port /\ t[i].port # None => i = j
    BY <1>3, <1>6 DEF PlacesDiffer
  <1>8. ASSUME NEW s \in Sockets PROVE so[s] = "open" <=> \E i \in Slots : t[i].port = s
    <2>1. ASSUME NEW i \in Slots, t[i].port = s PROVE so[s] = "open"
      <3>1. i \notin gone /\ table[i].port = s
        BY <1>5, <2>1 DEF Closes
      <3>2. \A j \in gone : table[j].port # s
        BY <1>3, <1>5, <3>1 DEF PlacesDiffer
      <3> QED
        BY <1>2, <1>3, <3>1, <3>2 DEF PlacesAreOpen
    <2>2. ASSUME so[s] = "open" PROVE \E i \in Slots : t[i].port = s
      <3>1. socket[s] = "open" /\ ~\E i \in gone : table[i].port = s
        BY <1>2, <2>2
      <3>2. PICK i \in Slots : table[i].port = s
        BY <1>3, <3>1 DEF PlacesAreOpen
      <3> QED
        BY <3>1, <3>2 DEF Closes
    <2> QED
      BY <2>1, <2>2
  <1>9. ASSUME NEW s \in Sockets, so[s] \in {"absent", "queued"} PROVE h[s] = 0
    <2>1. socket[s] \in {"absent", "queued"}
      BY <1>2, <1>9
    <2>2. \A i \in Slots : table[i].port # s
      BY <1>3, <2>1 DEF PlacesAreOpen
    <2> QED
      BY <1>3, <2>1, <2>2 DEF HandledInPlace, NoneHandledYet
  <1>10. ASSUME NEW i \in Slots, t[i].phase \in Reading PROVE h[t[i].port] = 0
    <2>1. table[i].phase \in Reading /\ t[i].phase # "free"
      BY <1>10 DEF Closes, Reading
    <2>2. t[i].port = table[i].port /\ t[i].port \in Sockets
      BY <1>6, <2>1, <1>5, PlaceParts DEF Closes
    <2>3. handled[t[i].port] = 0
      BY <1>3, <2>1, <2>2 DEF NoneHandledYet
    <2>4. \A j \in Slots : table[j].port = t[i].port => j = i
      BY <1>3, <1>5, <2>2 DEF PlacesDiffer
    <2> QED
      BY <1>10, <2>2, <2>3, <2>4 DEF HandledInPlace
  <1>11. PlacesDiffer' /\ PlacesAreOpen' /\ NoneHandledYet'
    BY <1>1, <1>7, <1>8, <1>9, <1>10 DEF PlacesDiffer, PlacesAreOpen, NoneHandledYet
  <1>12. t \in [Slots -> Places] /\ (\A i \in Slots : PlaceIsTyped(t[i])) /\ h \in [Sockets -> 0 .. 1]
    BY DEF Closes, HandledInPlace
  <1> QED
    BY <1>1, <1>4, <1>11, <1>12 DEF HttpInv

LEMMA NothingHandled ==
    ASSUME HttpInv, NEW t
    PROVE  HandledInPlace(t, handled)
  BY DEF HttpInv, HandledInPlace

(* A connection is accepted into a place that is free. *)
LEMMA PlaceIsTaken ==
    ASSUME HttpInv, HttpShape', NEW gone \in SUBSET Slots, NEW t, Closes(t, gone),
           NEW i \in Slots, t[i].phase = "free", NEW s \in Sockets, socket[s] = "queued",
           NEW c, PlaceIsTyped(c), c.port = s, table' = [t EXCEPT ![i] = c],
           PeersSee(gone, {s}), handled' = handled
    PROVE  HttpInv'
  <1>1. PICK so, u : so = socket' /\ u = table'
    OBVIOUS
  <1>2. so = [p \in Sockets |-> IF \E j \in gone : table[j].port = p THEN "closed"
                                ELSE IF p = s THEN "open" ELSE socket[p]]
    BY <1>1 DEF PeersSee
  <1>3. /\ socket \in [Sockets -> {"absent", "queued", "open", "closed"}]
        /\ PlacesDiffer /\ PlacesAreOpen /\ NoneHandledYet
        /\ \A j \in Slots : PlaceIsTyped(table[j])
    BY DEF HttpInv
  <1>4. so \in [Sockets -> {"absent", "queued", "open", "closed"}]
    BY <1>2, <1>3
  <1>5. None \notin Sockets
    BY HttpNumbers
  <1>6. \A j \in Slots : table[j].port # s
    BY <1>3 DEF PlacesAreOpen
  <1>7. t[i].port = None
    BY PlaceParts DEF Closes
  <1>8. u = [t EXCEPT ![i] = c] /\ t \in [Slots -> Places]
    BY <1>1 DEF Closes
  <1>9. /\ u[i] = c /\ \A j \in Slots : j # i => u[j] = t[j]
    BY <1>8
  <1>10. \A j \in Slots : t[j].port = None \/ t[j].port = table[j].port
    BY DEF Closes
  <1>11. u \in [Slots -> Places] /\ \A j \in Slots : PlaceIsTyped(u[j])
    <2>1. \A j \in Slots : PlaceIsTyped(u[j])
      BY <1>9 DEF Closes
    <2>2. c \in Places
      BY DEF PlaceIsTyped
    <2> QED
      BY <1>8, <2>1, <2>2
  <1>12. \A j, k \in Slots : u[j].port = u[k].port /\ u[j].port # None => j = k
    <2> SUFFICES ASSUME NEW j \in Slots, NEW k \in Slots, u[j].port = u[k].port,
                        u[j].port # None
                 PROVE  j = k
      OBVIOUS
    <2>1. CASE j = i
      BY <1>6, <1>9, <1>10, <2>1
    <2>2. CASE k = i
      BY <1>6, <1>9, <1>10, <2>2
    <2>3. CASE j # i /\ k # i
      BY <1>3, <1>9, <1>10, <2>3 DEF PlacesDiffer
    <2> QED
      BY <2>1, <2>2, <2>3
  <1>13. ASSUME NEW p \in Sockets PROVE so[p] = "open" <=> \E j \in Slots : u[j].port = p
    <2>1. CASE p = s
      <3>1. so[p] = "open"
        BY <1>2, <1>6, <2>1
      <3> QED
        BY <1>9, <2>1, <3>1
    <2>2. CASE p # s
      <3>1. so[p] = IF \E j \in gone : table[j].port = p THEN "closed" ELSE socket[p]
        BY <1>2, <2>2
      <3>2. ASSUME NEW j \in Slots, u[j].port = p PROVE so[p] = "open"
        <4>1. j # i /\ t[j].port = p
          BY <1>9, <2>2, <3>2
        <4>2. j \notin gone /\ table[j].port = p
          BY <1>5, <4>1 DEF Closes
        <4>3. \A k \in gone : table[k].port # p
          BY <1>3, <1>5, <4>2 DEF PlacesDiffer
        <4> QED
          BY <1>3, <3>1, <4>2, <4>3 DEF PlacesAreOpen
      <3>3. ASSUME so[p] = "open" PROVE \E j \in Slots : u[j].port = p
        <4>1. socket[p] = "open" /\ ~\E j \in gone : table[j].port = p
          BY <3>1, <3>3
        <4>2. PICK j \in Slots : table[j].port = p
          BY <1>3, <4>1 DEF PlacesAreOpen
        <4>3. t[j].port = p
          BY <4>1, <4>2 DEF Closes
        <4>4. j # i
          BY <1>5, <1>7, <4>3
        <4> QED
          BY <1>9, <4>3, <4>4
      <3> QED
        BY <3>2, <3>3
    <2> QED
      BY <2>1, <2>2
  <1>14. ASSUME NEW p \in Sockets, so[p] \in {"absent", "queued"} PROVE handled[p] = 0
    BY <1>2, <1>3, <1>14 DEF NoneHandledYet
  <1>15. ASSUME NEW j \in Slots, u[j].phase \in Reading PROVE handled[u[j].port] = 0
    <2>1. CASE j = i
      BY <1>3, <1>9, <2>1 DEF NoneHandledYet
    <2>2. CASE j # i
      <3>1. table[j].phase \in Reading /\ t[j].phase # "free" /\ u[j] = t[j]
        BY <1>9, <1>15, <2>2 DEF Closes, Reading
      <3>2. t[j].port # None
        BY <3>1, PlaceParts DEF Closes
      <3> QED
        BY <1>3, <1>10, <3>1, <3>2 DEF NoneHandledYet
    <2> QED
      BY <2>1, <2>2
  <1>16. PlacesDiffer' /\ PlacesAreOpen' /\ NoneHandledYet'
    BY <1>1, <1>12, <1>13, <1>14, <1>15 DEF PlacesDiffer, PlacesAreOpen, NoneHandledYet
  <1>17. handled' \in [Sockets -> 0 .. 1]
    BY DEF HttpInv
  <1> QED
    BY <1>1, <1>4, <1>11, <1>16, <1>17 DEF HttpInv

(* A connection is accepted and closed at once. *)
LEMMA PeerIsRejected ==
    ASSUME HttpInv, HttpShape', NEW gone \in SUBSET Slots, NEW t, Closes(t, gone),
           table' = t, NEW s \in Sockets, socket[s] = "queued",
           socket' = [p \in Sockets |->
                        IF p = s \/ \E j \in gone : table[j].port = p
                        THEN "closed" ELSE socket[p]],
           handled' = handled
    PROVE  HttpInv'
  <1>1. PICK so : so = socket'
    OBVIOUS
  <1>2. so = [p \in Sockets |-> IF p = s \/ \E j \in gone : table[j].port = p
                                THEN "closed" ELSE socket[p]]
    BY <1>1
  <1>3. /\ socket \in [Sockets -> {"absent", "queued", "open", "closed"}]
        /\ PlacesDiffer /\ PlacesAreOpen /\ NoneHandledYet
        /\ \A j \in Slots : PlaceIsTyped(table[j])
    BY DEF HttpInv
  <1>4. so \in [Sockets -> {"absent", "queued", "open", "closed"}]
    BY <1>2, <1>3
  <1>5. None \notin Sockets
    BY HttpNumbers
  <1>6. \A j \in Slots : table[j].port # s
    BY <1>3 DEF PlacesAreOpen
  <1>7. \A i \in Slots : t[i].port = table[i].port \/ t[i].port = None
    BY DEF Closes
  <1>8. \A i, j \in Slots : t[i].port = t[j].port /\ t[i].port # None => i = j
    BY <1>3, <1>7 DEF PlacesDiffer
  <1>9. ASSUME NEW p \in Sockets PROVE so[p] = "open" <=> \E i \in Slots : t[i].port = p
    <2>1. ASSUME NEW i \in Slots, t[i].port = p PROVE so[p] = "open"
      <3>1. i \notin gone /\ table[i].port = p
        BY <1>5, <2>1 DEF Closes
      <3>2. p # s /\ \A j \in gone : table[j].port # p
        BY <1>3, <1>5, <1>6, <3>1 DEF PlacesDiffer
      <3> QED
        BY <1>2, <1>3, <3>1, <3>2 DEF PlacesAreOpen
    <2>2. ASSUME so[p] = "open" PROVE \E i \in Slots : t[i].port = p
      <3>1. socket[p] = "open" /\ ~\E i \in gone : table[i].port = p
        BY <1>2, <2>2
      <3>2. PICK i \in Slots : table[i].port = p
        BY <1>3, <3>1 DEF PlacesAreOpen
      <3> QED
        BY <3>1, <3>2 DEF Closes
    <2> QED
      BY <2>1, <2>2
  <1>10. ASSUME NEW p \in Sockets, so[p] \in {"absent", "queued"} PROVE handled[p] = 0
    BY <1>2, <1>3, <1>10 DEF NoneHandledYet
  <1>11. ASSUME NEW i \in Slots, t[i].phase \in Reading PROVE handled[t[i].port] = 0
    <2>1. table[i].phase \in Reading /\ t[i].phase # "free"
      BY <1>11 DEF Closes, Reading
    <2>2. t[i].port # None
      BY <2>1, PlaceParts DEF Closes
    <2> QED
      BY <1>3, <1>7, <2>1, <2>2 DEF NoneHandledYet
  <1>12. PlacesDiffer' /\ PlacesAreOpen' /\ NoneHandledYet'
    BY <1>1, <1>8, <1>9, <1>10, <1>11 DEF PlacesDiffer, PlacesAreOpen, NoneHandledYet
  <1>13. t \in [Slots -> Places] /\ (\A i \in Slots : PlaceIsTyped(t[i]))
         /\ handled' \in [Sockets -> 0 .. 1]
    BY DEF Closes, HttpInv
  <1> QED
    BY <1>1, <1>4, <1>12, <1>13 DEF HttpInv

-----------------------------------------------------------------------------
(* What becomes of one place *)

LEMMA FreeSlotIsFree == PlaceIsTyped(FreeSlot) /\ FreeSlot.port = None /\ FreeSlot.phase = "free"
  BY HttpNumbers DEF PlaceIsTyped, Places, Phases, Reading, FreeSlot

LEMMA EnteringStays ==
    ASSUME NEW c, PlaceIsTyped(c), c.phase # "free", NEW phase \in Phases \ {"free"}
    PROVE  LET d == Entering(c, phase)
           IN  PlaceIsTyped(d) /\ d.port = c.port /\ d.phase = phase
  <1> DEFINE d == Entering(c, phase)
  <1>1. c \in Places /\ c.port # None
    BY DEF PlaceIsTyped
  <1>2. IdleTimeout \in 0 .. IdleTimeout /\ TotalTimeout \in 0 .. TotalTimeout /\ phase \in Phases
        /\ phase # "free"
    BY HttpNumbers
  <1>3. d \in Places /\ d.port = c.port /\ d.phase = phase
    BY <1>1, <1>2 DEF Places, Entering
  <1> HIDE DEF d
  <1>4. PlaceIsTyped(d)
    BY <1>1, <1>2, <1>3 DEF PlaceIsTyped
  <1> QED
    BY <1>3, <1>4 DEF d

LEMMA AnsweringStays ==
    ASSUME NEW c, PlaceIsTyped(c), c.phase # "free", NEW chunks \in 0 .. AnswerChunks
    PROVE  LET d == Answering(c, chunks)
           IN  PlaceIsTyped(d) /\ d.port = c.port /\ d.phase = "write"
  <1> DEFINE w == Entering(c, "write")
             d == Answering(c, chunks)
  <1>1. PlaceIsTyped(w) /\ w.port = c.port /\ w.phase = "write"
    BY EnteringStays DEF Phases
  <1>2. d = [w EXCEPT !.got = 0, !.left = chunks]
    BY DEF Answering
  <1> HIDE DEF w, d
  <1>3. w \in Places /\ w.port # None /\ 0 \in 0 .. MaxChunks
    BY <1>1, HttpNumbers DEF PlaceIsTyped
  <1>4. d \in Places /\ d.port = c.port /\ d.phase = "write"
    BY <1>1, <1>2, <1>3 DEF Places
  <1>5. PlaceIsTyped(d)
    BY <1>1, <1>3, <1>4 DEF PlaceIsTyped
  <1> QED
    BY <1>4, <1>5 DEF d

LEMMA ClosingStays ==
    ASSUME NEW c, PlaceIsTyped(c), c.phase # "free"
    PROVE  LET d == Closing(c)
           IN  PlaceIsTyped(d) /\ d.port = c.port /\ d.phase = "closing"
  <1> DEFINE d == Closing(c)
  <1>1. c.port \in Sockets /\ c.port # None
    BY PlaceParts, HttpNumbers
  <1>2. d = [FreeSlot EXCEPT !.port = c.port, !.phase = "closing"] /\ FreeSlot \in Places
    BY FreeSlotIsFree DEF Closing, PlaceIsTyped
  <1> HIDE DEF d
  <1>3. d \in Places /\ d.port = c.port /\ d.phase = "closing"
    BY <1>1, <1>2 DEF Places, Phases
  <1>4. PlaceIsTyped(d)
    BY <1>1, <1>3 DEF PlaceIsTyped
  <1> QED
    BY <1>3, <1>4 DEF d

(* A place is only given up when its connection is closed. *)
LEMMA AfterCloseStays ==
    ASSUME NEW c, PlaceIsTyped(c), c.phase # "free", NEW ok \in BOOLEAN
    PROVE  LET d == AfterClose(c, ok)
           IN  /\ PlaceIsTyped(d) /\ d.phase \notin Reading
               /\ IF ok THEN d.port = None ELSE d.port = c.port
  <1>1. CASE ok
    BY <1>1, FreeSlotIsFree DEF AfterClose, Reading
  <1>2. CASE ~ok /\ c.phase = "rejected"
    BY <1>2 DEF AfterClose, Reading
  <1>3. CASE ~ok /\ c.phase # "rejected"
    BY <1>3, ClosingStays DEF AfterClose, Reading
  <1> QED
    BY <1>1, <1>2, <1>3

LEMMA ExpiredStays ==
    ASSUME NEW c, PlaceIsTyped(c), NEW ok \in BOOLEAN
    PROVE  LET d == Expired(c, ok)
           IN  /\ PlaceIsTyped(d)
               /\ d.phase \in Reading => c.phase \in Reading
               /\ IF TimedOut(c) /\ ok THEN d.port = None ELSE d.port = c.port
  <1>1. CASE TimedOut(c)
    <2>1. c.phase # "free"
      BY <1>1 DEF TimedOut
    <2>2. Expired(c, ok) = AfterClose(c, ok)
      BY <1>1 DEF Expired, TimedOut, LateRequest, Reading
    <2> QED
      BY <1>1, <2>1, <2>2, AfterCloseStays
  <1>2. CASE ~TimedOut(c) /\ LateRequest(c)
    <2>1. c.phase # "free" /\ c.phase \in Reading
      BY <1>2 DEF LateRequest, Reading
    <2>2. Expired(c, ok) = Answering(c, 1)
      BY <1>2 DEF Expired
    <2> QED
      BY <1>2, <2>1, <2>2, AnsweringStays, HttpNumbers
  <1>3. CASE ~TimedOut(c) /\ ~LateRequest(c)
    <2>1. Expired(c, ok) = c
      BY <1>3 DEF Expired
    <2> QED
      BY <1>3, <2>1
  <1> QED
    BY <1>1, <1>2, <1>3

(* The overdue are closed before anything else. *)
LEMMA ExpiredCloses ==
    ASSUME HttpInv, NEW fails \in SUBSET Slots, NEW t,
           t = [i \in Slots |-> Expired(table[i], i \notin fails)]
    PROVE  Closes(t, Closed(fails)) /\ Closed(fails) \in SUBSET Slots
  <1>1. ASSUME NEW i \in Slots
        PROVE  /\ PlaceIsTyped(t[i])
               /\ t[i].phase \in Reading => table[i].phase \in Reading
               /\ IF TimedOut(table[i]) /\ i \notin fails THEN t[i].port = None
                  ELSE t[i].port = table[i].port
    <2>1. PlaceIsTyped(table[i]) /\ t[i] = Expired(table[i], i \notin fails)
      BY DEF HttpInv
    <2>2. PICK ok \in BOOLEAN : ok <=> i \notin fails
      OBVIOUS
    <2>3. t[i] = Expired(table[i], ok)
      <3>1. CASE i \notin fails
        BY <2>1, <2>2, <3>1
      <3>2. CASE i \in fails
        BY <2>1, <2>2, <3>2
      <3> QED
        BY <3>1, <3>2
    <2> QED
      BY <2>1, <2>2, <2>3, ExpiredStays
  <1>2. \A i \in Slots : t[i] \in Places
    BY <1>1 DEF PlaceIsTyped
  <1> QED
    BY <1>1, <1>2 DEF Closes, Closed

LEMMA PlaceReplaced ==
    ASSUME NEW t, NEW gone \in SUBSET Slots, Closes(t, gone), NEW i \in Slots, NEW d,
           PlaceIsTyped(d), d.port = t[i].port, d.phase \in Reading => t[i].phase \in Reading
    PROVE  Closes([t EXCEPT ![i] = d], gone)
  <1>1. d \in Places
    BY DEF PlaceIsTyped
  <1> QED
    BY <1>1 DEF Closes

LEMMA PlaceFreed ==
    ASSUME NEW t, NEW gone \in SUBSET Slots, Closes(t, gone), NEW i \in Slots, NEW d,
           PlaceIsTyped(d), d.port = None
    PROVE  Closes([t EXCEPT ![i] = d], gone \cup {i})
  <1>1. d \in Places /\ d.phase \notin Reading
    BY PlaceParts DEF PlaceIsTyped, Reading
  <1> QED
    BY <1>1 DEF Closes

LEMMA PlaceGivenUp ==
    ASSUME NEW t, NEW gone \in SUBSET Slots, Closes(t, gone), NEW i \in Slots,
           t[i].phase # "free", NEW fails \in SUBSET Slots, NEW c, PlaceIsTyped(c),
           c.port = t[i].port, c.phase # "free"
    PROVE  Closes([t EXCEPT ![i] = AfterClose(c, i \notin fails)], gone \cup ({i} \ fails))
  <1>1. CASE i \in fails
    <2>1. (i \notin fails) = FALSE /\ gone \cup ({i} \ fails) = gone
      BY <1>1
    <2>2. PICK d : d = AfterClose(c, FALSE)
      OBVIOUS
    <2>3. PlaceIsTyped(d) /\ d.phase \notin Reading /\ d.port = t[i].port
      BY <2>2, AfterCloseStays
    <2>4. Closes([t EXCEPT ![i] = d], gone)
      BY <2>3, PlaceReplaced
    <2> QED
      BY <2>1, <2>2, <2>4
  <1>2. CASE i \notin fails
    <2>1. (i \notin fails) = TRUE /\ gone \cup ({i} \ fails) = gone \cup {i}
      BY <1>2
    <2>2. PICK d : d = AfterClose(c, TRUE)
      OBVIOUS
    <2>3. PlaceIsTyped(d) /\ d.port = None
      BY <2>2, AfterCloseStays
    <2>4. Closes([t EXCEPT ![i] = d], gone \cup {i})
      BY <2>3, PlaceFreed
    <2> QED
      BY <2>1, <2>2, <2>4
  <1> QED
    BY <1>1, <1>2

(* Everything is closed, whatever could not be closed stays. *)
AllGivenUp(t, fails) ==
    [i \in Slots |-> IF t[i].phase = "free" THEN FreeSlot ELSE AfterClose(t[i], i \notin fails)]

LEMMA AllClose ==
    ASSUME NEW t, NEW gone \in SUBSET Slots, Closes(t, gone), NEW fails \in SUBSET Slots,
           \A i \in fails \cap gone : FALSE
    PROVE  /\ Closes(AllGivenUp(t, fails), Slots \ fails)
           /\ \A i \in Slots : AllGivenUp(t, fails)[i].phase \notin Reading
  <1> DEFINE u == AllGivenUp(t, fails)
  <1>1. ASSUME NEW i \in Slots
        PROVE  /\ PlaceIsTyped(u[i]) /\ u[i].phase \notin Reading
               /\ IF i \in fails THEN u[i].port = table[i].port ELSE u[i].port = None
    <2>1. PlaceIsTyped(t[i]) /\ (i \in fails => t[i].port = table[i].port)
      BY DEF Closes
    <2>2. u[i] = IF t[i].phase = "free" THEN FreeSlot ELSE AfterClose(t[i], i \notin fails)
      BY DEF AllGivenUp
    <2>3. CASE t[i].phase = "free"
      BY <2>1, <2>2, <2>3, PlaceParts, FreeSlotIsFree DEF Reading
    <2>4. CASE t[i].phase # "free" /\ i \in fails
      <3>1. u[i] = AfterClose(t[i], FALSE)
        BY <2>2, <2>4
      <3> QED
        BY <2>1, <2>4, <3>1, AfterCloseStays
    <2>5. CASE t[i].phase # "free" /\ i \notin fails
      <3>1. u[i] = AfterClose(t[i], TRUE)
        BY <2>2, <2>5
      <3> QED
        BY <2>1, <2>5, <3>1, AfterCloseStays
    <2> QED
      BY <2>3, <2>4, <2>5
  <1>2. u = [i \in Slots |-> u[i]]
    BY DEF AllGivenUp
  <1>3. \A i \in Slots : u[i] \in Places
    BY <1>1 DEF PlaceIsTyped
  <1> HIDE DEF u
  <1>4. u \in [Slots -> Places]
    BY <1>2, <1>3
  <1>5. Closes(u, Slots \ fails)
    BY <1>1, <1>4 DEF Closes
  <1> QED
    BY <1>1, <1>5 DEF u

-----------------------------------------------------------------------------
(* Steps of the server *)

(* The table after the overdue were closed, as far as that succeeded. *)
AfterTimeouts(fails, t) ==
    /\ fails \in SUBSET Slots
    /\ t = [i \in Slots |-> Expired(table[i], i \notin fails)]
    /\ UNCHANGED <<listener, serverClosed>>

ErrorsKept == socketErrors' \in 0 .. MaxSocketErrors

LEMMA ErrorsAreBounded ==
    ASSUME HttpInv, NEW n \in Nat, Errors(n)
    PROVE  ErrorsKept
  BY HttpNumbers DEF HttpInv, HttpShape, Errors, ErrorsKept

LEMMA ShapeKept ==
    ASSUME HttpInv, UNCHANGED <<listener, serverClosed>>, turn' \in Actors, ErrorsKept
    PROVE  HttpShape'
  BY DEF HttpInv, HttpShape, ErrorsKept, Actors

LEMMA UntouchedSafe ==
    ASSUME HttpInv, NEW fails, NEW t, AfterTimeouts(fails, t), NEW next \in Actors,
           Untouched(t, fails, next), ErrorsKept
    PROVE  HttpInv'
  <1>1. PICK gone : gone = Closed(fails) /\ gone \in SUBSET Slots /\ Closes(t, gone)
    BY ExpiredCloses DEF AfterTimeouts
  <1>2. HttpShape'
    BY ShapeKept DEF AfterTimeouts, Untouched
  <1>3. table' = t /\ PeersSee(gone, {})
    BY <1>1 DEF Untouched
  <1>4. PICK h : h = handled /\ handled' = h
    BY DEF Untouched
  <1>5. HandledInPlace(t, h)
    BY <1>4, NothingHandled
  <1> QED
    BY <1>1, <1>2, <1>3, <1>4, <1>5, TableMoves

(* One place goes on, its request handed on or not. *)
LEMMA StaysSafe ==
    ASSUME HttpInv, NEW fails, NEW t, AfterTimeouts(fails, t), NEW i \in Slots, NEW d,
           PlaceIsTyped(d), d.port = t[i].port, d.phase \in Reading => t[i].phase \in Reading,
           table' = [t EXCEPT ![i] = d], turn' \in Actors, PeersSee(Closed(fails), {}),
           HandledInPlace([t EXCEPT ![i] = d], handled'), ErrorsKept
    PROVE  HttpInv'
  <1>1. PICK gone : gone = Closed(fails) /\ gone \in SUBSET Slots /\ Closes(t, gone)
    BY ExpiredCloses DEF AfterTimeouts
  <1>2. HttpShape'
    BY ShapeKept DEF AfterTimeouts
  <1>3. PICK u : u = [t EXCEPT ![i] = d]
    OBVIOUS
  <1>4. Closes(u, gone)
    BY <1>1, <1>3, PlaceReplaced
  <1>5. PICK h : h = handled'
    OBVIOUS
  <1> QED
    BY <1>1, <1>2, <1>3, <1>4, <1>5, TableMoves

(* One place is given up, its request handed on or not. *)
LEMMA GivenUpSafe ==
    ASSUME HttpInv, NEW fails, NEW t, AfterTimeouts(fails, t), NEW i \in Slots,
           t[i].phase # "free", NEW c, PlaceIsTyped(c), c.port = t[i].port, c.phase # "free",
           table' = [t EXCEPT ![i] = AfterClose(c, i \notin fails)],
           turn' \in Actors, PeersSee(Closed(fails) \cup ({i} \ fails), {}),
           HandledInPlace([t EXCEPT ![i] = AfterClose(c, i \notin fails)], handled'), ErrorsKept
    PROVE  HttpInv'
  <1>1. PICK gone : gone = Closed(fails) /\ gone \in SUBSET Slots /\ Closes(t, gone)
    BY ExpiredCloses DEF AfterTimeouts
  <1>2. HttpShape'
    BY ShapeKept DEF AfterTimeouts
  <1>3. PICK u, all : u = [t EXCEPT ![i] = AfterClose(c, i \notin fails)]
                      /\ all = gone \cup ({i} \ fails)
    OBVIOUS
  <1>4. Closes(u, all) /\ all \in SUBSET Slots
    BY <1>1, <1>3, PlaceGivenUp DEF AfterTimeouts
  <1>5. PICK h : h = handled'
    OBVIOUS
  <1> QED
    BY <1>1, <1>2, <1>3, <1>4, <1>5, TableMoves

LEMMA GaveUpSafe ==
    ASSUME HttpInv, NEW fails, NEW t, AfterTimeouts(fails, t), NEW i \in Slots,
           t[i].phase # "free", GaveUp(t, fails, i), ErrorsKept
    PROVE  HttpInv'
  <1>1. PICK c : c = t[i]
    OBVIOUS
  <1>2. PlaceIsTyped(c) /\ t \in [Slots -> Places]
    BY <1>1, ExpiredCloses DEF AfterTimeouts, Closes
  <1>3. table' = [t EXCEPT ![i] = AfterClose(c, i \notin fails)]
    BY <1>1, <1>2 DEF GaveUp
  <1>4. PeersSee(Closed(fails) \cup ({i} \ fails), {}) /\ handled' = handled
    BY DEF GaveUp
  <1>5. turn' \in Actors
    BY AfterIsActor DEF GaveUp, Actors
  <1>6. HandledInPlace([t EXCEPT ![i] = AfterClose(c, i \notin fails)], handled)
    BY NothingHandled
  <1>7. HandledInPlace([t EXCEPT ![i] = AfterClose(c, i \notin fails)], handled')
    BY <1>4, <1>6
  <1> QED
    BY <1>1, <1>2, <1>3, <1>4, <1>5, <1>7, GivenUpSafe

LEMMA PanicSafe ==
    ASSUME HttpInv, NEW fails, NEW t, AfterTimeouts(fails, t), NEW next \in Actors,
           Panic(t, fails, next), HandledInPlace(AllGivenUp(t, fails), handled'), ErrorsKept
    PROVE  HttpInv'
  <1>1. PICK gone : gone = Closed(fails) /\ gone \in SUBSET Slots /\ Closes(t, gone)
    BY ExpiredCloses DEF AfterTimeouts
  <1>2. HttpShape'
    BY ShapeKept DEF AfterTimeouts, Panic
  <1>3. PICK u, all : u = AllGivenUp(t, fails) /\ all = Slots \ fails
    OBVIOUS
  <1>4. Closes(u, all) /\ all \in SUBSET Slots
    <2>1. \A i \in fails \cap gone : FALSE
      BY <1>1 DEF Closed
    <2> QED
      BY <1>1, <1>3, <2>1, AllClose DEF AfterTimeouts
  <1>5. PICK h : h = handled'
    OBVIOUS
  <1>6. table' = u /\ PeersSee(all, {})
    BY <1>3 DEF Panic, AllGivenUp
  <1> QED
    BY <1>1, <1>2, <1>3, <1>4, <1>5, <1>6, TableMoves

(* A place that is read after the overdue were closed was read before, and what it     *)
(* reads was not handed on.                                                            *)
LEMMA ReadPlaces ==
    ASSUME HttpInv, NEW fails, NEW t, AfterTimeouts(fails, t), NEW i \in Slots,
           t[i].phase \in Reading
    PROVE  /\ PlaceIsTyped(t[i]) /\ t[i].phase # "free"
           /\ t[i].port \in Sockets /\ table[i].port = t[i].port
           /\ table[i].phase \in Reading /\ handled[t[i].port] = 0
  <1>1. PICK gone : gone = Closed(fails) /\ gone \in SUBSET Slots /\ Closes(t, gone)
    BY ExpiredCloses DEF AfterTimeouts
  <1>2. PlaceIsTyped(t[i]) /\ t[i].phase # "free" /\ t[i].port \in Sockets
    BY <1>1, PlaceParts DEF Closes, Reading
  <1>3. table[i].port = t[i].port /\ table[i].phase \in Reading
    BY <1>1, <1>2, HttpNumbers DEF Closes
  <1>4. handled[t[i].port] = 0
    BY <1>3 DEF HttpInv, NoneHandledYet
  <1> QED
    BY <1>2, <1>3, <1>4

LEMMA RequestHandled ==
    ASSUME HttpInv, NEW fails, NEW t, AfterTimeouts(fails, t), NEW i \in Slots,
           t[i].phase \in Reading, NEW u, u[i].phase \notin Reading,
           handled' = [handled EXCEPT ![t[i].port] = Min({2, @ + 1})]
    PROVE  HandledInPlace(u, handled')
  <1>1. PICK p \in Sockets : p = t[i].port
    BY ReadPlaces
  <1>2. handled[p] = 0 /\ table[i].port = p /\ table[i].phase \in Reading
    BY <1>1, ReadPlaces
  <1>3. Min({2, 1}) = 1
    BY DEF Min
  <1>4. handled \in [Sockets -> 0 .. 1]
    BY DEF HttpInv
  <1>5. handled' = [handled EXCEPT ![p] = 1]
    <2>1. handled' = [handled EXCEPT ![p] = Min({2, handled[p] + 1})]
      BY <1>1, <1>4
    <2>2. handled[p] + 1 = 1
      BY <1>2
    <2> QED
      BY <1>3, <2>1, <2>2
  <1> QED
    BY <1>2, <1>4, <1>5 DEF HandledInPlace

LEMMA ReceiveSafe ==
    ASSUME HttpInv, NEW fails, NEW t, AfterTimeouts(fails, t), NEW i \in Slots,
           t[i].phase \in Reading, NEW costs \in {0, 1}, Receive(t, fails, i, costs)
    PROVE  HttpInv'
  <1> DEFINE grown == [t[i] EXCEPT !.got = @ + 1]
             stays(d, next) ==
                /\ table' = [t EXCEPT ![i] = d]
                /\ turn' = next
                /\ PeersSee(Closed(fails), {})
  <1>1. PICK c : c = t[i]
    OBVIOUS
  <1>2. /\ PlaceIsTyped(c) /\ c.phase # "free" /\ c.phase \in Reading /\ c.port = t[i].port
        /\ c \in Places /\ t \in [Slots -> Places]
    BY <1>1, ReadPlaces, ExpiredCloses DEF PlaceIsTyped, AfterTimeouts, Closes
  <1>3. i \in Actors /\ After(i) \in Actors
    BY AfterIsActor DEF Actors
  <1>4. ErrorsKept
    <2>1. Errors(costs) \/ Errors(costs + 1)
      BY DEF Receive
    <2>2. costs \in Nat /\ costs + 1 \in Nat
      OBVIOUS
    <2> QED
      BY <2>1, <2>2, ErrorsAreBounded
  <1>5. c.got < MaxChunks =>
            /\ PlaceIsTyped(grown) /\ grown.port = c.port /\ grown.phase = c.phase
    <2> SUFFICES ASSUME c.got < MaxChunks
                 PROVE  PlaceIsTyped(grown) /\ grown.port = c.port /\ grown.phase = c.phase
      OBVIOUS
    <2>1. c.got + 1 \in 0 .. MaxChunks
      BY <1>2, HttpNumbers DEF Places
    <2>2. grown = [c EXCEPT !.got = c.got + 1]
      BY <1>1
    <2> HIDE DEF grown
    <2>3. grown \in Places /\ grown.port = c.port /\ grown.phase = c.phase
      BY <1>2, <2>1, <2>2 DEF Places
    <2> QED
      BY <1>2, <2>3 DEF PlaceIsTyped
  <1> HIDE DEF grown
  <1>6. \A u : HandledInPlace(u, handled)
    BY NothingHandled
  (* What a place that stays may become without a request. *)
  <1>7. ASSUME NEW d, NEW next \in Actors, PlaceIsTyped(d), d.port = c.port, stays(d, next),
               handled' = handled
        PROVE  HttpInv'
    <2>1. HandledInPlace([t EXCEPT ![i] = d], handled')
      BY <1>6, <1>7
    <2> QED
      BY <1>1, <1>2, <1>4, <1>7, <2>1, StaysSafe
  (* What it may become when its request was handed on. *)
  <1>8. ASSUME NEW d, NEW next \in Actors, PlaceIsTyped(d), d.port = c.port, stays(d, next),
               d.phase \notin Reading,
               handled' = [handled EXCEPT ![c.port] = Min({2, @ + 1})]
        PROVE  HttpInv'
    <2>1. PICK u : u = [t EXCEPT ![i] = d]
      OBVIOUS
    <2>2. u[i].phase \notin Reading
      BY <1>2, <1>8, <2>1
    <2>3. HandledInPlace(u, handled')
      BY <1>1, <1>2, <1>8, <2>2, RequestHandled
    <2>4. HandledInPlace([t EXCEPT ![i] = d], handled')
      BY <2>1, <2>3
    <2> QED
      BY <1>1, <1>2, <1>4, <1>8, <2>4, StaysSafe
  <1>9. CASE Untouched(t, fails, After(i))
    BY <1>3, <1>4, <1>9, UntouchedSafe
  <1>10. CASE GaveUp(t, fails, i)
    BY <1>1, <1>2, <1>4, <1>10, GaveUpSafe
  <1>11. CASE Panic(t, fails, After(i)) /\ UNCHANGED handled
    <2>1. HandledInPlace(AllGivenUp(t, fails), handled')
      BY <1>6, <1>11
    <2> QED
      BY <1>3, <1>4, <1>11, <2>1, PanicSafe
  <1>12. CASE stays(Answering(c, 1), i) /\ UNCHANGED handled
    <2>1. PICK d : d = Answering(c, 1)
      OBVIOUS
    <2>2. PlaceIsTyped(d) /\ d.port = c.port /\ stays(d, i)
      BY <1>2, <1>12, <2>1, AnsweringStays, HttpNumbers
    <2> QED
      BY <1>3, <1>7, <1>12, <2>2
  <1>13. CASE /\ c.got < MaxChunks /\ c.phase \in {"first", "headers"}
              /\ \/ stays(IF c.phase = "first" THEN Entering(grown, "headers")
                          ELSE [grown EXCEPT !.idle = IdleTimeout], After(i))
                 \/ stays(Entering(grown, "body"), After(i))
              /\ UNCHANGED handled
    <2>1. PlaceIsTyped(grown) /\ grown.port = c.port /\ grown.phase = c.phase
          /\ grown.phase # "free"
      BY <1>2, <1>5, <1>13
    <2>2. /\ PlaceIsTyped(Entering(grown, "headers")) /\ Entering(grown, "headers").port = c.port
          /\ PlaceIsTyped(Entering(grown, "body")) /\ Entering(grown, "body").port = c.port
      BY <2>1, EnteringStays DEF Phases, Reading
    <2>3. PICK e : e = [grown EXCEPT !.idle = IdleTimeout]
      OBVIOUS
    <2>4. PlaceIsTyped(e) /\ e.port = c.port
      <3>1. IdleTimeout \in 0 .. IdleTimeout
        BY HttpNumbers
      <3>2. grown \in Places
        BY <2>1 DEF PlaceIsTyped
      <3>3. e \in Places /\ e.port = grown.port /\ e.phase = grown.phase
        BY <2>3, <3>1, <3>2 DEF Places
      <3> QED
        BY <2>1, <3>3 DEF PlaceIsTyped
    <2>5. CASE stays(IF c.phase = "first" THEN Entering(grown, "headers") ELSE e, After(i))
      <3>1. CASE c.phase = "first"
        BY <1>3, <1>7, <1>13, <2>2, <2>5, <3>1
      <3>2. CASE c.phase # "first"
        BY <1>3, <1>7, <1>13, <2>4, <2>5, <3>2
      <3> QED
        BY <3>1, <3>2
    <2>6. CASE stays(Entering(grown, "body"), After(i))
      BY <1>3, <1>7, <1>13, <2>2, <2>6
    <2> QED
      BY <1>13, <2>3, <2>5, <2>6
  <1>14. CASE /\ c.got < MaxChunks /\ c.phase = "body"
              /\ stays([grown EXCEPT !.idle = IdleTimeout], After(i))
              /\ UNCHANGED handled
    <2>1. PICK e : e = [grown EXCEPT !.idle = IdleTimeout]
      OBVIOUS
    <2>2. PlaceIsTyped(e) /\ e.port = c.port
      <3>1. IdleTimeout \in 0 .. IdleTimeout
        BY HttpNumbers
      <3>2. grown \in Places /\ PlaceIsTyped(grown) /\ grown.port = c.port
        BY <1>5, <1>14 DEF PlaceIsTyped
      <3>3. e \in Places /\ e.port = grown.port /\ e.phase = grown.phase
        BY <2>1, <3>1, <3>2 DEF Places
      <3> QED
        BY <3>2, <3>3 DEF PlaceIsTyped
    <2>3. stays(e, After(i))
      BY <1>14, <2>1
    <2> QED
      BY <1>3, <1>7, <1>14, <2>2, <2>3
  <1>15. CASE c.got < MaxChunks /\ stays(Answering(grown, 1), i) /\ UNCHANGED handled
    <2>1. PlaceIsTyped(grown) /\ grown.port = c.port /\ grown.phase # "free"
      BY <1>2, <1>5, <1>15
    <2>2. PlaceIsTyped(Answering(grown, 1)) /\ Answering(grown, 1).port = c.port
      BY <2>1, AnsweringStays, HttpNumbers
    <2> QED
      BY <1>3, <1>7, <1>15, <2>2
  <1>16. CASE /\ c.got < MaxChunks
              /\ handled' = [handled EXCEPT ![c.port] = Min({2, @ + 1})]
              /\ \/ stays(Answered(grown, AnswerChunks), i)
                 \/ stays(Answered(grown, 1), i)
                 \/ /\ table' = [t EXCEPT ![i] = AfterClose(grown, i \notin fails)]
                    /\ turn' = After(i)
                    /\ PeersSee(Closed(fails) \cup ({i} \ fails), {})
                 \/ Panic(t, fails, After(i))
    <2>1. PlaceIsTyped(grown) /\ grown.port = c.port /\ grown.phase # "free"
      BY <1>2, <1>5, <1>16
    <2>2. ASSUME NEW n \in {1, AnswerChunks}
          PROVE  /\ PlaceIsTyped(Answered(grown, n)) /\ Answered(grown, n).port = c.port
                 /\ Answered(grown, n).phase \notin Reading
      <3>1. n \in 0 .. AnswerChunks
        BY HttpNumbers
      <3> QED
        BY <2>1, <3>1, AnsweringStays DEF Answered, Reading
    <2>3. CASE stays(Answered(grown, AnswerChunks), i)
      <3>1. PICK d : d = Answered(grown, AnswerChunks)
        OBVIOUS
      <3>2. PlaceIsTyped(d) /\ d.port = c.port /\ d.phase \notin Reading /\ stays(d, i)
        BY <2>2, <2>3, <3>1
      <3> QED
        BY <1>3, <1>8, <1>16, <3>2
    <2>4. CASE stays(Answered(grown, 1), i)
      <3>1. PICK d : d = Answered(grown, 1)
        OBVIOUS
      <3>2. PlaceIsTyped(d) /\ d.port = c.port /\ d.phase \notin Reading /\ stays(d, i)
        BY <2>2, <2>4, <3>1
      <3> QED
        BY <1>3, <1>8, <1>16, <3>2
    <2>5. CASE /\ table' = [t EXCEPT ![i] = AfterClose(grown, i \notin fails)]
               /\ turn' = After(i)
               /\ PeersSee(Closed(fails) \cup ({i} \ fails), {})
      <3>1. PICK ok \in BOOLEAN : ok <=> i \notin fails
        OBVIOUS
      <3>2. PICK d : d = AfterClose(grown, i \notin fails)
        OBVIOUS
      <3>3. d.phase \notin Reading
        <4>1. CASE i \in fails
          <5>1. d = AfterClose(grown, FALSE)
            BY <3>2, <4>1
          <5> QED
            BY <2>1, <5>1, AfterCloseStays
        <4>2. CASE i \notin fails
          <5>1. d = AfterClose(grown, TRUE)
            BY <3>2, <4>2
          <5> QED
            BY <2>1, <5>1, AfterCloseStays
        <4> QED
          BY <4>1, <4>2
      <3>4. PICK u : u = [t EXCEPT ![i] = d]
        OBVIOUS
      <3>5. u[i].phase \notin Reading
        BY <1>2, <3>3, <3>4
      <3>6. HandledInPlace(u, handled')
        BY <1>1, <1>2, <1>16, <3>5, RequestHandled
      <3>7. HandledInPlace([t EXCEPT ![i] = AfterClose(grown, i \notin fails)], handled')
        BY <3>2, <3>4, <3>6
      <3>8. turn' \in Actors /\ t[i].phase # "free" /\ grown.port = t[i].port
        BY <1>1, <1>2, <1>3, <2>1, <2>5
      <3> QED
        BY <1>4, <2>1, <2>5, <3>7, <3>8, GivenUpSafe
    <2>6. CASE Panic(t, fails, After(i))
      <3>1. PICK u : u = AllGivenUp(t, fails)
        OBVIOUS
      <3>2. u[i].phase \notin Reading
        <4>1. PICK gone : gone = Closed(fails) /\ gone \in SUBSET Slots /\ Closes(t, gone)
          BY ExpiredCloses DEF AfterTimeouts
        <4>2. \A j \in fails \cap gone : FALSE
          BY <4>1 DEF Closed
        <4> QED
          BY <3>1, <4>1, <4>2, AllClose DEF AfterTimeouts
      <3>3. HandledInPlace(u, handled')
        BY <1>1, <1>2, <1>16, <3>2, RequestHandled
      <3> QED
        BY <1>3, <1>4, <2>6, <3>1, <3>3, PanicSafe
    <2> QED
      BY <1>16, <2>3, <2>4, <2>5, <2>6
  <1>17. \/ Untouched(t, fails, After(i))
         \/ GaveUp(t, fails, i)
         \/ Panic(t, fails, After(i)) /\ UNCHANGED handled
         \/ stays(Answering(c, 1), i) /\ UNCHANGED handled
         \/ /\ c.got < MaxChunks
            /\ \/ /\ c.phase \in {"first", "headers"}
                  /\ \/ stays(IF c.phase = "first" THEN Entering(grown, "headers")
                              ELSE [grown EXCEPT !.idle = IdleTimeout], After(i))
                     \/ stays(Entering(grown, "body"), After(i))
                  /\ UNCHANGED handled
               \/ /\ c.phase = "body"
                  /\ stays([grown EXCEPT !.idle = IdleTimeout], After(i))
                  /\ UNCHANGED handled
               \/ stays(Answering(grown, 1), i) /\ UNCHANGED handled
               \/ /\ handled' = [handled EXCEPT ![c.port] = Min({2, @ + 1})]
                  /\ \/ stays(Answered(grown, AnswerChunks), i)
                     \/ stays(Answered(grown, 1), i)
                     \/ /\ table' = [t EXCEPT ![i] = AfterClose(grown, i \notin fails)]
                        /\ turn' = After(i)
                        /\ PeersSee(Closed(fails) \cup ({i} \ fails), {})
                     \/ Panic(t, fails, After(i))
    <2> USE DEF grown
    <2>1. grown = [c EXCEPT !.got = @ + 1] /\ t[i] = c
      BY <1>1
    <2> HIDE DEF grown
    <2> QED
      BY ONLY <1>1, <2>1, Receive(t, fails, i, costs), Zenon DEF Receive, grown
  <1> HIDE DEF stays
  <1> QED
    BY <1>9, <1>10, <1>11, <1>12, <1>13, <1>14, <1>15, <1>16, <1>17

LEMMA SendSafe ==
    ASSUME HttpInv, NEW fails, NEW t, AfterTimeouts(fails, t), NEW i \in Slots,
           t[i].phase = "write", NEW costs \in {0, 1}, Send(t, fails, i, costs)
    PROVE  HttpInv'
  <1>1. PICK c : c = t[i]
    OBVIOUS
  <1>2. PlaceIsTyped(c) /\ c \in Places /\ t \in [Slots -> Places]
    BY <1>1, ExpiredCloses DEF AfterTimeouts, Closes, PlaceIsTyped
  <1>3. i \in Actors /\ After(i) \in Actors
    BY AfterIsActor DEF Actors
  <1>4. ErrorsKept
    <2>1. Errors(costs) \/ Errors(costs + 1)
      BY DEF Send
    <2>2. costs \in Nat /\ costs + 1 \in Nat
      OBVIOUS
    <2> QED
      BY <2>1, <2>2, ErrorsAreBounded
  <1>5. \A u : HandledInPlace(u, handled)
    BY NothingHandled
  <1>6. CASE Untouched(t, fails, After(i))
    BY <1>3, <1>4, <1>6, UntouchedSafe
  <1>7. CASE /\ t[i].left > 1
             /\ table' = [t EXCEPT ![i].left = @ - 1, ![i].idle = IdleTimeout]
             /\ turn' = i
             /\ PeersSee(Closed(fails), {})
             /\ UNCHANGED handled
    <2>1. PICK d : d = [c EXCEPT !.left = c.left - 1, !.idle = IdleTimeout]
      OBVIOUS
    <2>2. c.left - 1 \in 0 .. AnswerChunks /\ IdleTimeout \in 0 .. IdleTimeout
      BY <1>1, <1>2, <1>7, HttpNumbers DEF Places
    <2>3. d \in Places /\ d.port = c.port /\ d.phase = c.phase
      BY <1>2, <2>1, <2>2 DEF Places
    <2>4. PlaceIsTyped(d)
      BY <1>2, <2>3 DEF PlaceIsTyped
    <2>5. table' = [t EXCEPT ![i] = d]
      BY <1>1, <1>2, <1>7, <2>1
    <2>6. HandledInPlace([t EXCEPT ![i] = d], handled')
      BY <1>5, <1>7
    <2>7. turn' \in Actors /\ PeersSee(Closed(fails), {})
      BY <1>3, <1>7
    <2>8. d.port = t[i].port /\ (d.phase \in Reading => t[i].phase \in Reading)
      BY <1>1, <2>3
    <2> QED
      BY <1>4, <2>4, <2>5, <2>6, <2>7, <2>8, StaysSafe
  <1>8. CASE GaveUp(t, fails, i)
    BY <1>4, <1>8, GaveUpSafe
  <1>9. CASE Panic(t, fails, After(i)) /\ UNCHANGED handled
    <2>1. HandledInPlace(AllGivenUp(t, fails), handled')
      BY <1>5, <1>9
    <2> QED
      BY <1>3, <1>4, <1>9, <2>1, PanicSafe
  <1> QED
    BY <1>6, <1>7, <1>8, <1>9 DEF Send

LEMMA AcceptSafe ==
    ASSUME HttpInv, NEW fails, NEW t, AfterTimeouts(fails, t), Free(t) # {},
           NEW costs \in {0, 1}, Accept(t, fails, costs)
    PROVE  HttpInv'
  <1>1. PICK gone : gone = Closed(fails) /\ gone \in SUBSET Slots /\ Closes(t, gone)
    BY ExpiredCloses DEF AfterTimeouts
  <1>2. PICK i \in Slots : i = Min(Free(t)) /\ t[i].phase = "free"
    BY FreeIsFound
  <1>3. After(0) \in Actors
    BY AfterIsActor DEF Actors
  <1>4. ErrorsKept
    <2>1. Errors(costs) \/ Errors(costs + 1)
      BY DEF Accept
    <2>2. costs \in Nat /\ costs + 1 \in Nat
      OBVIOUS
    <2> QED
      BY <2>1, <2>2, ErrorsAreBounded
  <1>5. turn' = After(0) => HttpShape'
    BY <1>3, <1>4, ShapeKept DEF AfterTimeouts
  <1>6. CASE Untouched(t, fails, After(0))
    BY <1>3, <1>4, <1>6, UntouchedSafe
  <1>7. ASSUME NEW s \in Sockets, socket[s] = "queued", turn' = After(0), UNCHANGED handled,
               table' = [t EXCEPT ![i] = [FreeSlot EXCEPT !.port = s, !.phase = "first",
                                             !.idle = IdleTimeout, !.total = IdleTimeout]],
               PeersSee(Closed(fails), {s})
        PROVE  HttpInv'
    <2>1. PICK c : c = [FreeSlot EXCEPT !.port = s, !.phase = "first",
                                        !.idle = IdleTimeout, !.total = IdleTimeout]
      OBVIOUS
    <2>2. FreeSlot \in Places /\ IdleTimeout \in 0 .. IdleTimeout /\ IdleTimeout \in 0 .. TotalTimeout
      BY FreeSlotIsFree, HttpNumbers DEF PlaceIsTyped
    <2>3. c \in Places /\ c.port = s /\ c.phase = "first"
      BY <2>1, <2>2 DEF Places, Phases, Reading
    <2>4. PlaceIsTyped(c)
      BY <2>3, HttpNumbers DEF PlaceIsTyped
    <2>5. table' = [t EXCEPT ![i] = c] /\ PeersSee(gone, {s})
      BY <1>1, <1>7, <2>1
    <2> QED
      <3>1. HttpShape' /\ handled' = handled
        BY <1>5, <1>7
      <3>2. gone \in SUBSET Slots /\ Closes(t, gone) /\ t[i].phase = "free" /\ c.port = s
            /\ socket[s] = "queued"
        BY <1>1, <1>2, <1>7, <2>3
      <3> QED
        BY ONLY HttpInv, <2>4, <2>5, <3>1, <3>2, i \in Slots, s \in Sockets, PlaceIsTaken
  <1>8. ASSUME NEW s \in Sockets, socket[s] = "queued", turn' = After(0), UNCHANGED handled,
               table' = [t EXCEPT ![i] =
                           AfterClose([FreeSlot EXCEPT !.port = s, !.phase = "rejected"],
                                      i \notin fails)],
               IF i \in fails THEN PeersSee(Closed(fails), {s})
               ELSE socket' = [p \in Sockets |->
                                 IF p = s \/ \E j \in Closed(fails) : table[j].port = p
                                 THEN "closed" ELSE socket[p]]
        PROVE  HttpInv'
    <2>1. PICK c : c = [FreeSlot EXCEPT !.port = s, !.phase = "rejected"]
      OBVIOUS
    <2>2. FreeSlot \in Places
      BY FreeSlotIsFree DEF PlaceIsTyped
    <2>3. c \in Places /\ c.port = s /\ c.phase = "rejected"
      BY <2>1, <2>2 DEF Places, Phases
    <2>4. PlaceIsTyped(c)
      BY <2>3, HttpNumbers DEF PlaceIsTyped
    <2>5. CASE i \in fails
      <3>1. AfterClose(c, i \notin fails) = c
        BY <2>3, <2>5 DEF AfterClose
      <3>2. table' = [t EXCEPT ![i] = c] /\ PeersSee(gone, {s})
        BY <1>1, <1>8, <2>1, <2>5, <3>1
      <3> QED
        <4>1. HttpShape' /\ handled' = handled
          BY <1>5, <1>8
        <4>2. gone \in SUBSET Slots /\ Closes(t, gone) /\ t[i].phase = "free" /\ c.port = s
              /\ socket[s] = "queued"
          BY <1>1, <1>2, <1>8, <2>3
        <4> QED
          BY ONLY HttpInv, <2>4, <3>2, <4>1, <4>2, i \in Slots, s \in Sockets, PlaceIsTaken
    <2>6. CASE i \notin fails
      <3>1. AfterClose(c, i \notin fails) = FreeSlot
        BY <2>6 DEF AfterClose
      <3>2. PICK u : u = [t EXCEPT ![i] = FreeSlot]
        OBVIOUS
      <3>3. t[i].port = FreeSlot.port
        <4>1. PlaceIsTyped(t[i])
          BY <1>1 DEF Closes
        <4> QED
          BY <1>2, <4>1, PlaceParts, FreeSlotIsFree
      <3>4. Closes(u, gone)
        BY <1>1, <3>2, <3>3, FreeSlotIsFree, PlaceReplaced DEF Reading
      <3>5. table' = u
        BY <1>8, <2>1, <3>1, <3>2
      <3>6. socket' = [p \in Sockets |->
                         IF p = s \/ \E j \in gone : table[j].port = p
                         THEN "closed" ELSE socket[p]]
        BY <1>1, <1>8, <2>6
      <3> QED
        BY <1>1, <1>5, <1>8, <3>4, <3>5, <3>6, PeerIsRejected
    <2> QED
      BY <2>5, <2>6
  <1> QED
    BY <1>2, <1>6, <1>7, <1>8 DEF Accept

LEMMA StepKeepsHttp ==
    ASSUME HttpInv, HttpStep
    PROVE  HttpInv'
  <1>1. PICK fails \in SUBSET Slots :
            Perform([i \in Slots |-> Expired(table[i], i \notin fails)], fails,
                    IF fails = {} THEN 0 ELSE 1)
    BY DEF HttpStep
  <1>2. PICK t : t = [i \in Slots |-> Expired(table[i], i \notin fails)]
    OBVIOUS
  <1>3. PICK costs \in {0, 1} : costs = IF fails = {} THEN 0 ELSE 1
    OBVIOUS
  <1>4. Perform(t, fails, costs) /\ AfterTimeouts(fails, t)
    BY <1>1, <1>2, <1>3 DEF HttpStep, AfterTimeouts
  <1>5. turn \in Actors
    BY DEF HttpInv, HttpShape
  <1>6. CASE \A a \in Actors : ~Eligible(t, a)
    <2>1. Untouched(t, fails, turn) /\ Errors(costs)
      BY <1>4, <1>6 DEF Perform
    <2> QED
      BY <1>4, <1>5, <2>1, ErrorsAreBounded, UntouchedSafe
  <1>7. CASE ~ \A a \in Actors : ~Eligible(t, a)
    <2>1. PICK actor \in Actors : actor = Chosen(t) /\ Eligible(t, actor)
      BY <1>5, <1>7, ChosenIsEligible
    <2>2. CASE actor = 0
      <3>1. Accept(t, fails, costs) /\ Free(t) # {}
        BY <1>4, <1>7, <2>1, <2>2 DEF Perform, Eligible
      <3> QED
        BY <1>4, <3>1, AcceptSafe
    <2>3. CASE actor # 0
      <3>1. actor \in Slots /\ t[actor].phase \notin {"free", "rejected"}
        BY <2>1, <2>3 DEF Actors, Eligible
      <3>2. CASE t[actor].phase = "closing"
        <4>1. GaveUp(t, fails, actor) /\ Errors(costs)
          BY <1>4, <1>7, <2>1, <2>3, <3>2 DEF Perform
        <4> QED
          BY <1>4, <3>1, <4>1, ErrorsAreBounded, GaveUpSafe
      <3>3. CASE t[actor].phase = "write"
        <4>1. Send(t, fails, actor, costs)
          BY <1>4, <1>7, <2>1, <2>3, <3>3 DEF Perform
        <4> QED
          BY <1>4, <3>1, <3>3, <4>1, SendSafe
      <3>4. CASE t[actor].phase \notin {"closing", "write"}
        <4>1. Receive(t, fails, actor, costs)
          BY <1>4, <1>7, <2>1, <2>3, <3>4 DEF Perform
        <4>2. t[actor].phase \in Reading
          <5>1. PlaceIsTyped(t[actor])
            BY <1>4, <3>1, ExpiredCloses DEF AfterTimeouts, Closes
          <5> QED
            BY <3>1, <3>4, <5>1, PlaceParts DEF Phases
        <4> QED
          BY <1>4, <3>1, <4>1, <4>2, ReceiveSafe
      <3> QED
        BY <3>2, <3>3, <3>4
    <2> QED
      BY <2>2, <2>3
  <1> QED
    BY <1>6, <1>7

-----------------------------------------------------------------------------
(* The other actions *)

LEMMA StartKeepsHttp ==
    ASSUME HttpInv, HttpStart
    PROVE  HttpInv'
  <1>1. HttpShape'
    <2>1. CASE Errors(1)
      <3>1. ErrorsKept
        BY <2>1, ErrorsAreBounded
      <3>2. listener' \in {"down", "up", "stuck"} /\ turn' \in Actors
            /\ serverClosed' = serverClosed
        BY DEF HttpStart, HttpInv, HttpShape, Actors
      <3> QED
        BY <3>1, <3>2 DEF HttpInv, HttpShape, ErrorsKept, Actors
    <2>2. CASE ~Errors(1)
      BY <2>2 DEF HttpStart, HttpInv, HttpShape, Actors
    <2> QED
      BY <2>1, <2>2
  <1> QED
    BY <1>1 DEF HttpStart, HttpInv, PlacesDiffer, PlacesAreOpen, NoneHandledYet

LEMMA NothingGone ==
    ASSUME HttpInv
    PROVE  Closes(table, {})
  BY DEF HttpInv, Closes

LEMMA DeinitKeepsHttp ==
    ASSUME HttpInv, HttpDeinit
    PROVE  HttpInv'
  <1>1. PICK fails \in SUBSET Slots, down \in BOOLEAN :
            /\ listener' = IF down \/ listener = "down" THEN "down" ELSE "stuck"
            /\ ShutSlots(fails)
            /\ Errors(IF fails = {} /\ down THEN 0 ELSE 1)
    BY DEF HttpDeinit
  <1>2. PICK n \in Nat : Errors(n)
    <2>1. PICK n : n = IF fails = {} /\ down THEN 0 ELSE 1
      OBVIOUS
    <2>2. n \in Nat
      BY <2>1
    <2> QED
      BY <1>1, <2>1, <2>2
  <1>3. HttpShape'
    <2>1. ErrorsKept
      BY <1>2, ErrorsAreBounded
    <2>2. listener' \in {"down", "up", "stuck"}
      BY <1>1
    <2> QED
      BY <2>1, <2>2 DEF HttpDeinit, HttpInv, HttpShape, ErrorsKept, Actors
  <1>4. PICK u, all : u = AllGivenUp(table, fails) /\ all = Slots \ fails
    OBVIOUS
  <1>5. Closes(u, all) /\ all \in SUBSET Slots
    <2>1. PICK t, none : t = table /\ none = {}
      OBVIOUS
    <2>2. Closes(t, none) /\ none \in SUBSET Slots /\ \A i \in fails \cap none : FALSE
      BY <2>1, NothingGone
    <2> QED
      BY <1>4, <2>1, <2>2, AllClose
  <1>6. table' = u /\ PeersSee(all, {})
    BY <1>1, <1>4 DEF ShutSlots, AllGivenUp
  <1>7. PICK h : h = handled /\ handled' = h
    BY DEF HttpDeinit
  <1>8. HandledInPlace(u, h)
    BY <1>7, NothingHandled
  <1> QED
    BY <1>3, <1>5, <1>6, <1>7, <1>8, TableMoves

LEMMA ConnectKeepsHttp ==
    ASSUME HttpInv, Connect
    PROVE  HttpInv'
  <1>1. PICK s \in Sockets :
            /\ socket[s] = "absent"
            /\ socket' = [socket EXCEPT ![s] = "queued"]
            /\ UNCHANGED <<listener, table, turn, serverClosed, handled, socketErrors>>
    BY DEF Connect
  <1>2. socket \in [Sockets -> {"absent", "queued", "open", "closed"}]
    BY DEF HttpInv
  <1>3. socket' \in [Sockets -> {"absent", "queued", "open", "closed"}]
    BY <1>1, <1>2
  <1>4. \A p \in Sockets : (socket'[p] = "open" <=> socket[p] = "open")
    BY <1>1, <1>2
  <1>5. PlacesAreOpen'
    BY <1>1, <1>4 DEF HttpInv, PlacesAreOpen
  <1>6. NoneHandledYet'
    <2>1. \A p \in Sockets : socket'[p] \in {"absent", "queued"} => socket[p] \in {"absent", "queued"}
      BY <1>1, <1>2
    <2> QED
      BY <1>1, <2>1 DEF HttpInv, NoneHandledYet
  <1> QED
    BY <1>1, <1>3, <1>5, <1>6 DEF HttpInv, HttpShape, PlacesDiffer, Actors

LEMMA TickKeepsHttp ==
    ASSUME HttpInv, HttpTick
    PROVE  HttpInv'
  <1> DEFINE later(c) == [c EXCEPT !.idle = IF @ > 0 THEN @ - 1 ELSE 0,
                                   !.total = IF @ > 0 THEN @ - 1 ELSE 0]
  <1>1. PICK t : t = table' /\ t = [i \in Slots |-> later(table[i])]
    BY DEF HttpTick
  <1>2. ASSUME NEW i \in Slots
        PROVE  /\ PlaceIsTyped(t[i]) /\ t[i].port = table[i].port /\ t[i].phase = table[i].phase
    <2>1. PICK c : c = table[i]
      OBVIOUS
    <2>2. PlaceIsTyped(c) /\ c \in Places
      BY <2>1 DEF HttpInv, PlaceIsTyped
    <2>3. PICK x, y : /\ x = IF c.idle > 0 THEN c.idle - 1 ELSE 0
                      /\ y = IF c.total > 0 THEN c.total - 1 ELSE 0
      OBVIOUS
    <2>4. x \in 0 .. IdleTimeout /\ y \in 0 .. TotalTimeout
      <3>1. c.idle \in 0 .. IdleTimeout /\ c.total \in 0 .. TotalTimeout
        BY <2>2 DEF Places
      <3> QED
        BY <2>3, <3>1, HttpNumbers
    <2>5. t[i] = [c EXCEPT !.idle = x, !.total = y]
      BY <1>1, <2>1, <2>3
    <2>6. t[i] \in Places /\ t[i].port = c.port /\ t[i].phase = c.phase
      BY <2>2, <2>4, <2>5 DEF Places
    <2> QED
      BY <2>1, <2>2, <2>6 DEF PlaceIsTyped
  <1>3. Closes(t, {})
    <2>1. t \in [Slots -> Places]
      BY <1>1, <1>2 DEF PlaceIsTyped
    <2> QED
      BY <1>2, <2>1 DEF Closes
  <1>4. HttpShape' /\ socket' = socket /\ handled' = handled
    BY DEF HttpTick, HttpInv, HttpShape, Actors
  <1>5. PeersSee({}, {})
    BY <1>4 DEF PeersSee, HttpInv
  <1>6. PICK h : h = handled /\ handled' = h
    BY <1>4
  <1>7. HandledInPlace(t, h)
    BY <1>6, NothingHandled
  <1>8. table' = t
    BY <1>1
  <1>9. PICK none : none = {}
    OBVIOUS
  <1>10. Closes(t, none) /\ PeersSee(none, {}) /\ none \in SUBSET Slots
    BY <1>3, <1>5, <1>9
  <1> QED
    BY <1>4, <1>6, <1>7, <1>8, <1>10, TableMoves

LEMMA HttpInitSafe == HttpInit => HttpInv
  <1> SUFFICES ASSUME HttpInit PROVE HttpInv
    OBVIOUS
  <1>1. \A i \in Slots : table[i] = FreeSlot
    BY DEF HttpInit
  <1>2. table \in [Slots -> Places] /\ \A i \in Slots : PlaceIsTyped(table[i])
    BY FreeSlotIsFree DEF HttpInit, PlaceIsTyped
  <1>3. \A i \in Slots : table[i].port = None /\ table[i].phase \notin Reading
    BY <1>1, FreeSlotIsFree DEF Reading
  <1>4. PlacesDiffer /\ PlacesAreOpen /\ NoneHandledYet
    BY <1>3, HttpNumbers DEF HttpInit, PlacesDiffer, PlacesAreOpen, NoneHandledYet
  <1>5. HttpShape
    <2>1. 0 \in 0 .. MaxSocketErrors
      BY HttpNumbers
    <2> QED
      BY <2>1 DEF HttpInit, HttpShape, Actors
  <1>6. /\ socket \in [Sockets -> {"absent", "queued", "open", "closed"}]
        /\ handled \in [Sockets -> 0 .. 1]
    BY DEF HttpInit
  <1> QED
    BY <1>2, <1>4, <1>5, <1>6 DEF HttpInv

LEMMA HttpSteps == HttpInv /\ [HttpNext]_httpVars => HttpInv'
  <1> SUFFICES ASSUME HttpInv, [HttpNext]_httpVars PROVE HttpInv'
    OBVIOUS
  <1>1. CASE HttpNext
    BY <1>1, StartKeepsHttp, StepKeepsHttp, DeinitKeepsHttp, ConnectKeepsHttp, TickKeepsHttp
    DEF HttpNext
  <1>2. CASE UNCHANGED httpVars
    BY <1>2 DEF httpVars, HttpInv, HttpShape, PlacesDiffer, PlacesAreOpen, NoneHandledYet, Actors
  <1> QED
    BY <1>1, <1>2

(* Every place has its own connection and every open connection its place: HttpInv is    *)
(* inductive.                                                                            *)
THEOREM HttpInvariance == HttpSpec => []HttpInv
  BY HttpInitSafe, HttpSteps, PTL DEF HttpSpec

(* Whatever fails, times out or is refused, an open connection is held by exactly one     *)
(* place and a closed one by none, and no request is handed to the application twice.     *)
THEOREM NoConnectionIsLost == HttpSpec => []ConnectionsAreOwned
  <1>1. HttpInv => ConnectionsAreOwned
    <2> SUFFICES ASSUME HttpInv PROVE OpenIsOwned /\ HandledOnce
      BY DEF ConnectionsAreOwned
    <2>1. ASSUME NEW s \in Sockets
          PROVE  Cardinality(Owners(s)) = IF socket[s] = "open" THEN 1 ELSE 0
      <3>1. CASE socket[s] = "open"
        <4>1. PICK i \in Slots : table[i].port = s
          BY <3>1 DEF HttpInv, PlacesAreOpen
        <4>2. Owners(s) = {i}
          BY <4>1, HttpNumbers DEF HttpInv, PlacesDiffer, Owners
        <4> QED
          BY <3>1, <4>2, FS_Singleton
      <3>2. CASE socket[s] # "open"
        <4>1. Owners(s) = {}
          BY <3>2 DEF HttpInv, PlacesAreOpen, Owners
        <4> QED
          BY <3>2, <4>1, FS_EmptySet
      <3> QED
        BY <3>1, <3>2
    <2>2. HandledOnce
      BY DEF HttpInv, HandledOnce
    <2> QED
      BY <2>1, <2>2 DEF OpenIsOwned
  <1> QED
    BY <1>1, HttpInvariance, PTL

LEMMA HttpIsTyped == HttpInv => HttpTypeOK
  <1> SUFFICES ASSUME HttpInv PROVE HttpTypeOK
    OBVIOUS
  <1>1. handled \in [Sockets -> 0 .. 2]
    BY DEF HttpInv
  <1> QED
    BY <1>1 DEF HttpInv, HttpShape, HttpTypeOK, Places, Phases, Actors

(* The server's state stays within its types: the deadlines and the counts of a place     *)
(* within their bounds.                                                                  *)
THEOREM HttpTyped == HttpSpec => []HttpTypeOK
  BY HttpIsTyped, HttpInvariance, PTL
-----------------------------------------------------------------------------
(* Commands from the pages.  Within one boot the revision and the count of changes grow   *)
(* together: who knows the one as of a boot knows the other.                             *)

Devices ==
    [on : BOOLEAN, with : Wishes \cup {"timer", "adjusted", None}, rev : Nat,
     changes : 0 .. MaxChanges, gen : 0 .. MaxGeneration, runs : Nat, unsure : BOOLEAN,
     armed : BOOLEAN, manualFaulted : BOOLEAN, restFaulted : BOOLEAN, boot : Nat]

(* Timers are armed only while the stored configuration is the one that runs. *)
DeviceIsSound(d) ==
    /\ d \in Devices
    /\ d.on <=> d.with # None
    /\ d.rev <= d.changes
    /\ d.runs <= d.gen
    /\ d.armed => ~d.unsure /\ d.runs = d.gen
    /\ d.unsure => d.gen < MaxGeneration

Messages ==
    [page : Pages, op : {"start", "update", "stop", "save"}, with : Wishes \cup {None},
     csrf : Nat, etag : Nat, rev : Nat, seen : Nat, boot : Nat, sent : Nat]

PageStates ==
    [csrf : Nat, etag : Nat, rev : Nat, boot : Nat, changes : Nat,
     waits : Messages \cup {None}]

(* What somebody has seen of device d in some boot. *)
Seen(d, rev, changes, boot) ==
    /\ boot <= d.boot
    /\ boot = d.boot => d.changes - changes = d.rev - rev

(* A token is of the boot that gave it out, and its request left no earlier. *)
MessageIsSound(d, m) ==
    /\ m.op = "start" <=> m.with # None
    /\ m.csrf <= m.sent /\ m.sent <= d.boot
    /\ m.op \in {"start", "update"} => Seen(d, m.rev, m.seen, m.boot)

PageKnows(d, q) ==
    /\ q \in PageStates
    /\ q.csrf <= d.boot
    /\ Seen(d, q.rev, q.changes, q.boot)

WebInv ==
    /\ DeviceIsSound(device)
    /\ page \in [Pages -> PageStates]
    /\ \A p \in Pages : PageKnows(device, page[p])
    /\ mail \subseteq Messages /\ IsFiniteSet(mail) /\ Cardinality(mail) <= MaxMail
    /\ \A m \in mail : MessageIsSound(device, m)
    /\ answer \in {None, "done", "denied", "stale", "conflict", "failed"}

-----------------------------------------------------------------------------
LEMMA WebNumbers ==
    /\ MaxChanges \in Nat \ {0} /\ MaxGeneration \in Nat \ {0} /\ MaxBoot \in Nat \ {0}
    /\ MaxMail \in Nat \ {0}
    /\ "timer" \notin Wishes /\ "adjusted" \notin Wishes /\ None \notin Wishes
    /\ None \notin {"timer", "adjusted", "done", "denied", "stale", "conflict", "failed"}
  BY WebAssumption

LEMMA DeviceParts ==
    ASSUME NEW d, DeviceIsSound(d)
    PROVE  /\ d \in Devices /\ d.on \in BOOLEAN /\ d.with \in Wishes \cup {"timer", "adjusted", None}
           /\ d.rev \in Nat /\ d.changes \in 0 .. MaxChanges
           /\ d.gen \in 0 .. MaxGeneration /\ d.runs \in Nat
           /\ d.unsure \in BOOLEAN /\ d.armed \in BOOLEAN
           /\ d.manualFaulted \in BOOLEAN /\ d.restFaulted \in BOOLEAN /\ d.boot \in Nat
  BY DEF DeviceIsSound, Devices

(* What a command or a timer makes of the device within a boot. *)
Moved(d, e) ==
    /\ DeviceIsSound(e)
    /\ e.boot = d.boot
    /\ e.changes - d.changes = e.rev - d.rev

(* A device requested ON or OFF, with room for it. *)
LEMMA RequestingMoves ==
    ASSUME NEW d, DeviceIsSound(d), d.changes + 1 <= MaxChanges,
           NEW wish \in Wishes \cup {"timer", "adjusted"}
    PROVE  LET e == Requesting(d, wish)
           IN  /\ Moved(d, e) /\ e.on /\ e.with = wish /\ e.changes = d.changes + 1
               /\ e.manualFaulted = d.manualFaulted /\ e.restFaulted = d.restFaulted
  <1> DEFINE e == Requesting(d, wish)
  <1>1. d.changes + 1 \in 0 .. MaxChanges /\ d.rev + 1 \in Nat /\ wish # None
    BY DeviceParts, WebNumbers
  <1>0. PICK r \in Nat, c \in 0 .. MaxChanges : r = d.rev + 1 /\ c = d.changes + 1
    BY <1>1
  <1>2. e = [d EXCEPT !.on = TRUE, !.with = wish, !.rev = r, !.changes = c]
    BY <1>0 DEF Requesting
  <1> HIDE DEF e
  <1>a. d \in Devices /\ wish \in Wishes \cup {"timer", "adjusted", None}
    BY DEF DeviceIsSound
  <1>b. /\ e \in Devices /\ e.on = TRUE /\ e.with = wish
        /\ e.rev = r /\ e.changes = c /\ e.gen = d.gen /\ e.runs = d.runs
        /\ e.unsure = d.unsure /\ e.armed = d.armed /\ e.boot = d.boot
        /\ e.manualFaulted = d.manualFaulted /\ e.restFaulted = d.restFaulted
    BY <1>2, <1>a DEF Devices
  <1>3. /\ e \in Devices /\ e.on = TRUE /\ e.with = wish
        /\ e.rev = d.rev + 1 /\ e.changes = d.changes + 1 /\ e.gen = d.gen /\ e.runs = d.runs
        /\ e.unsure = d.unsure /\ e.armed = d.armed /\ e.boot = d.boot
        /\ e.manualFaulted = d.manualFaulted /\ e.restFaulted = d.restFaulted
    BY <1>0, <1>b
  <1>4. e.rev <= e.changes /\ e.changes - d.changes = e.rev - d.rev
    BY <1>3, DeviceParts, WebNumbers DEF DeviceIsSound
  <1>5. e.armed => ~e.unsure /\ e.runs = e.gen
    BY <1>3 DEF DeviceIsSound
  <1>6. e.runs <= e.gen
    BY <1>3 DEF DeviceIsSound
  <1>7. e.on <=> e.with # None
    BY <1>1, <1>3
  <1> QED
    BY <1>3, <1>4, <1>5, <1>6, <1>7 DEF DeviceIsSound, Moved, e

LEMMA RequestedOffMoves ==
    ASSUME NEW d, DeviceIsSound(d), d.changes + 1 <= MaxChanges
    PROVE  LET e == RequestedOff(d)
           IN  /\ Moved(d, e) /\ ~e.on /\ e.with = None /\ e.changes = d.changes + 1
               /\ e.manualFaulted = d.manualFaulted /\ e.restFaulted = d.restFaulted
  <1> DEFINE e == RequestedOff(d)
  <1>1. d.changes + 1 \in 0 .. MaxChanges /\ d.rev + 1 \in Nat
    BY DeviceParts, WebNumbers
  <1>0. PICK r \in Nat, c \in 0 .. MaxChanges : r = d.rev + 1 /\ c = d.changes + 1
    BY <1>1
  <1>2. e = [d EXCEPT !.on = FALSE, !.with = None, !.rev = r, !.changes = c]
    BY <1>0 DEF RequestedOff
  <1> HIDE DEF e
  <1>a. d \in Devices /\ None \in Wishes \cup {"timer", "adjusted", None}
    BY DEF DeviceIsSound
  <1>b. /\ e \in Devices /\ e.on = FALSE /\ e.with = None
        /\ e.rev = r /\ e.changes = c /\ e.gen = d.gen /\ e.runs = d.runs
        /\ e.unsure = d.unsure /\ e.armed = d.armed /\ e.boot = d.boot
        /\ e.manualFaulted = d.manualFaulted /\ e.restFaulted = d.restFaulted
    BY <1>2, <1>a DEF Devices
  <1>3. /\ e \in Devices /\ e.on = FALSE /\ e.with = None
        /\ e.rev = d.rev + 1 /\ e.changes = d.changes + 1 /\ e.gen = d.gen /\ e.runs = d.runs
        /\ e.unsure = d.unsure /\ e.armed = d.armed /\ e.boot = d.boot
        /\ e.manualFaulted = d.manualFaulted /\ e.restFaulted = d.restFaulted
    BY <1>0, <1>b
  <1>4. e.rev <= e.changes /\ e.changes - d.changes = e.rev - d.rev
    BY <1>3, DeviceParts, WebNumbers DEF DeviceIsSound
  <1>5. e.armed => ~e.unsure /\ e.runs = e.gen
    BY <1>3 DEF DeviceIsSound
  <1>6. e.runs <= e.gen
    BY <1>3 DEF DeviceIsSound
  <1>7. e.on <=> e.with # None
    BY <1>3
  <1> QED
    BY <1>3, <1>4, <1>5, <1>6, <1>7 DEF DeviceIsSound, Moved, e

LEMMA MovedTwice ==
    ASSUME NEW d, NEW e, NEW f, DeviceIsSound(d), Moved(d, e), Moved(e, f)
    PROVE  Moved(d, f)
  <1>1. /\ d.rev \in Nat /\ e.rev \in Nat /\ f.rev \in Nat
        /\ d.changes \in Nat /\ e.changes \in Nat /\ f.changes \in Nat
    BY DeviceParts, WebNumbers DEF Moved
  <1>2. e.changes - d.changes = e.rev - d.rev /\ f.changes - e.changes = f.rev - e.rev
    BY DEF Moved
  <1>3. f.changes - d.changes = f.rev - d.rev
    BY <1>1, <1>2
  <1> QED
    BY <1>3 DEF Moved

LEMMA UnmovedMoves ==
    ASSUME NEW d, DeviceIsSound(d)
    PROVE  Moved(d, d)
  BY DeviceParts DEF Moved

(* What the device was asked for stays as it is. *)
SameRequest(d, e) ==
    /\ e.on = d.on /\ e.with = d.with /\ e.rev = d.rev /\ e.changes = d.changes
    /\ e.boot = d.boot
    /\ e.manualFaulted = d.manualFaulted /\ e.restFaulted = d.restFaulted

LEMMA SameRequestMoves ==
    ASSUME NEW d, NEW e, DeviceIsSound(d), DeviceIsSound(e), SameRequest(d, e)
    PROVE  Moved(d, e)
  <1>1. d.rev \in Nat /\ d.changes \in Nat
    BY DeviceParts, WebNumbers
  <1> QED
    BY <1>1 DEF SameRequest, Moved

LEMMA DisarmedMoves ==
    ASSUME NEW d, DeviceIsSound(d)
    PROVE  LET e == Disarmed(d)
           IN  /\ DeviceIsSound(e) /\ SameRequest(d, e) /\ ~e.armed
               /\ e.gen = d.gen /\ e.runs = d.runs /\ e.unsure = d.unsure
  <1> DEFINE e == Disarmed(d)
  <1>1. d \in Devices
    BY DEF DeviceIsSound
  <1>2. e = [d EXCEPT !.armed = FALSE]
    BY DEF Disarmed
  <1> HIDE DEF e
  <1>3. /\ e \in Devices /\ e.on = d.on /\ e.with = d.with
        /\ e.rev = d.rev /\ e.changes = d.changes /\ e.gen = d.gen /\ e.runs = d.runs
        /\ e.unsure = d.unsure /\ e.armed = FALSE /\ e.boot = d.boot
        /\ e.manualFaulted = d.manualFaulted /\ e.restFaulted = d.restFaulted
    BY <1>1, <1>2 DEF Devices
  <1>4. DeviceIsSound(e)
    BY <1>3 DEF DeviceIsSound
  <1> QED
    BY <1>3, <1>4 DEF SameRequest, e

LEMMA SavedMoves ==
    ASSUME NEW d, DeviceIsSound(d), ~d.armed, ~d.unsure, d.gen < MaxGeneration
    PROVE  LET e == Saved(d)
           IN  DeviceIsSound(e) /\ SameRequest(d, e)
  <1> DEFINE e == Saved(d)
  <1>1. d \in Devices
    BY DEF DeviceIsSound
  <1>0. PICK g \in 0 .. MaxGeneration : g = d.gen + 1
    BY DeviceParts, WebNumbers
  <1>2. e = [d EXCEPT !.gen = g]
    BY <1>0 DEF Saved
  <1> HIDE DEF e
  <1>3. /\ e \in Devices /\ e.on = d.on /\ e.with = d.with
        /\ e.rev = d.rev /\ e.changes = d.changes /\ e.gen = g /\ e.runs = d.runs
        /\ e.unsure = d.unsure /\ e.armed = d.armed /\ e.boot = d.boot
        /\ e.manualFaulted = d.manualFaulted /\ e.restFaulted = d.restFaulted
    BY <1>1, <1>2 DEF Devices
  <1>4. e.runs <= e.gen
    BY <1>0, <1>3, DeviceParts, WebNumbers DEF DeviceIsSound
  <1>5. DeviceIsSound(e)
    BY <1>3, <1>4 DEF DeviceIsSound
  <1> QED
    BY <1>3, <1>5 DEF SameRequest, e

LEMMA UnsureMoves ==
    ASSUME NEW d, DeviceIsSound(d), ~d.armed, d.gen < MaxGeneration
    PROVE  LET e == [d EXCEPT !.unsure = TRUE]
           IN  DeviceIsSound(e) /\ SameRequest(d, e)
  <1> DEFINE e == [d EXCEPT !.unsure = TRUE]
  <1>1. d \in Devices
    BY DEF DeviceIsSound
  <1>2. e = [d EXCEPT !.unsure = TRUE]
    OBVIOUS
  <1> HIDE DEF e
  <1>3. /\ e \in Devices /\ e.on = d.on /\ e.with = d.with
        /\ e.rev = d.rev /\ e.changes = d.changes /\ e.gen = d.gen /\ e.runs = d.runs
        /\ e.unsure = TRUE /\ e.armed = d.armed /\ e.boot = d.boot
        /\ e.manualFaulted = d.manualFaulted /\ e.restFaulted = d.restFaulted
    BY <1>1, <1>2 DEF Devices
  <1>5. DeviceIsSound(e)
    BY <1>3 DEF DeviceIsSound
  <1> QED
    BY <1>3, <1>5 DEF SameRequest, e

(* A boot follows the documents it reads. *)
LEMMA RebootMoves ==
    ASSUME NEW read \in Devices, read.changes + 1 <= MaxChanges
    PROVE  LET e == [read EXCEPT !.on = FALSE, !.with = None, !.rev = 0, !.changes = @ + 1,
                                 !.runs = read.gen, !.unsure = FALSE, !.armed = TRUE,
                                 !.manualFaulted = FALSE, !.restFaulted = FALSE,
                                 !.boot = @ + 1]
           IN  DeviceIsSound(e) /\ e.boot = read.boot + 1 /\ e.with = None
  <1> DEFINE e == [read EXCEPT !.on = FALSE, !.with = None, !.rev = 0, !.changes = @ + 1,
                               !.runs = read.gen, !.unsure = FALSE, !.armed = TRUE,
                               !.manualFaulted = FALSE, !.restFaulted = FALSE,
                               !.boot = @ + 1]
  <1>1. /\ read.changes \in 0 .. MaxChanges /\ read.boot \in Nat
        /\ read.gen \in 0 .. MaxGeneration
    BY DEF Devices
  <1>2. PICK c \in 0 .. MaxChanges, b \in Nat, g \in 0 .. MaxGeneration :
                c = read.changes + 1 /\ b = read.boot + 1 /\ g = read.gen
    BY <1>1, WebNumbers
  <1>4. e = [read EXCEPT !.on = FALSE, !.with = None, !.rev = 0, !.changes = c,
                         !.runs = g, !.unsure = FALSE, !.armed = TRUE,
                         !.manualFaulted = FALSE, !.restFaulted = FALSE, !.boot = b]
    BY <1>2 DEF Devices
  <1>5. g \in Nat /\ 0 \in Nat /\ None \in Wishes \cup {"timer", "adjusted", None}
    BY WebNumbers
  <1> HIDE DEF e
  <1>6. /\ e \in Devices /\ e.on = FALSE /\ e.with = None
        /\ e.rev = 0 /\ e.changes = c /\ e.gen = read.gen /\ e.runs = g
        /\ e.unsure = FALSE /\ e.armed = TRUE /\ e.boot = b
    BY <1>4, <1>5 DEF Devices
  <1>7. e.rev <= e.changes /\ e.runs <= e.gen /\ e.runs = e.gen
    BY <1>2, <1>5, <1>6
  <1>8. DeviceIsSound(e)
    BY <1>6, <1>7 DEF DeviceIsSound
  <1> QED
    BY <1>2, <1>6, <1>8 DEF e

(* A latch changes nothing else. *)
LEMMA RestLatchMoves ==
    ASSUME NEW d, DeviceIsSound(d)
    PROVE  LET e == [d EXCEPT !.restFaulted = TRUE]
           IN  /\ Moved(d, e) /\ e.on = d.on /\ e.with = d.with /\ e.changes = d.changes
               /\ e.manualFaulted = d.manualFaulted /\ e.restFaulted
  <1> DEFINE e == [d EXCEPT !.restFaulted = TRUE]
  <1>0. d \in Devices
    BY DEF DeviceIsSound
  <1>1. /\ e \in Devices /\ e.on = d.on /\ e.with = d.with
        /\ e.rev = d.rev /\ e.changes = d.changes /\ e.gen = d.gen /\ e.runs = d.runs
        /\ e.unsure = d.unsure /\ e.armed = d.armed /\ e.boot = d.boot
        /\ e.restFaulted = TRUE /\ e.manualFaulted = d.manualFaulted
    BY <1>0 DEF Devices
  <1> HIDE DEF e
  <1>2. e.changes - d.changes = e.rev - d.rev
    BY <1>1, DeviceParts
  <1>3. DeviceIsSound(e)
    BY <1>1 DEF DeviceIsSound
  <1> QED
    BY <1>1, <1>2, <1>3 DEF Moved, e

LEMMA ManualLatchMoves ==
    ASSUME NEW d, DeviceIsSound(d)
    PROVE  LET e == [d EXCEPT !.manualFaulted = TRUE]
           IN  /\ Moved(d, e) /\ e.on = d.on /\ e.with = d.with /\ e.changes = d.changes
               /\ e.restFaulted = d.restFaulted /\ e.manualFaulted
  <1> DEFINE e == [d EXCEPT !.manualFaulted = TRUE]
  <1>0. d \in Devices
    BY DEF DeviceIsSound
  <1>1. /\ e \in Devices /\ e.on = d.on /\ e.with = d.with
        /\ e.rev = d.rev /\ e.changes = d.changes /\ e.gen = d.gen /\ e.runs = d.runs
        /\ e.unsure = d.unsure /\ e.armed = d.armed /\ e.boot = d.boot
        /\ e.manualFaulted = TRUE /\ e.restFaulted = d.restFaulted
    BY <1>0 DEF Devices
  <1> HIDE DEF e
  <1>2. e.changes - d.changes = e.rev - d.rev
    BY <1>1, DeviceParts
  <1>3. DeviceIsSound(e)
    BY <1>1 DEF DeviceIsSound
  <1> QED
    BY <1>1, <1>2, <1>3 DEF Moved, e

(* A start taken back is OFF, or both latches say that it could not be. *)
TakenBack(d, e) ==
    /\ Moved(d, e)
    /\ e.with \in {d.with, None}
    /\ ~e.on \/ (e.restFaulted /\ e.manualFaulted)

LEMMA RestRollsBack ==
    ASSUME NEW d, DeviceIsSound(d), d.changes + 1 <= MaxChanges, NEW e \in RestRolledBack(d)
    PROVE  TakenBack(d, e)
  <1> DEFINE latched == [d EXCEPT !.restFaulted = TRUE]
             off == RequestedOff(latched)
             stuck == [latched EXCEPT !.manualFaulted = TRUE]
  <1>1. /\ Moved(d, latched) /\ latched.with = d.with /\ latched.changes = d.changes
        /\ latched.restFaulted
    BY RestLatchMoves
  <1>2. e = off \/ e = stuck
    BY DEF RestRolledBack
  <1> HIDE DEF latched
  <1>3. DeviceIsSound(latched)
    BY <1>1 DEF Moved
  <1>4. Moved(latched, off) /\ ~off.on /\ off.with = None
    BY <1>1, <1>3, RequestedOffMoves
  <1>5. /\ Moved(latched, stuck) /\ stuck.with = latched.with
        /\ stuck.restFaulted = latched.restFaulted /\ stuck.manualFaulted
    BY <1>3, ManualLatchMoves
  <1> HIDE DEF off, stuck
  <1>6. Moved(d, off) /\ Moved(d, stuck)
    BY <1>1, <1>4, <1>5, MovedTwice
  <1> QED
    BY <1>1, <1>2, <1>4, <1>5, <1>6 DEF TakenBack

LEMMA GatewayRollsBack ==
    ASSUME NEW d, DeviceIsSound(d), d.changes + 1 <= MaxChanges,
           NEW e \in GatewayRolledBack(d)
    PROVE  TakenBack(d, e)
  <1> DEFINE latched == [d EXCEPT !.manualFaulted = TRUE]
             off == RequestedOff(latched)
  <1>1. Moved(d, latched) /\ latched.with = d.with /\ latched.changes = d.changes
    BY ManualLatchMoves
  <1>2. e = off \/ e \in RestRolledBack(latched)
    BY DEF GatewayRolledBack
  <1> HIDE DEF latched
  <1>3. DeviceIsSound(latched)
    BY <1>1 DEF Moved
  <1>4. Moved(latched, off) /\ ~off.on /\ off.with = None
    BY <1>1, <1>3, RequestedOffMoves
  <1> HIDE DEF off
  <1>5. CASE e = off
    <2>1. Moved(d, off)
      BY <1>1, <1>4, MovedTwice
    <2> QED
      BY <1>4, <1>5, <2>1 DEF TakenBack
  <1>6. CASE e \in RestRolledBack(latched)
    <2>1. TakenBack(latched, e)
      BY <1>1, <1>3, <1>6, RestRollsBack
    <2>2. Moved(d, e)
      BY <1>1, <2>1, MovedTwice DEF TakenBack
    <2> QED
      BY <1>1, <2>1, <2>2 DEF TakenBack
  <1> QED
    BY <1>2, <1>5, <1>6

-----------------------------------------------------------------------------
Statuses == {"done", "denied", "stale", "conflict", "failed"}

(* What the handling of a request does, and how true its answer is. *)
HandledWell(m) ==
    /\ Moved(device, device')
    /\ answer' \in Statuses
    /\ device'.with \in {device.with, None, "adjusted"} \cup Wishes
    /\ m.op \in {"start", "update"} /\ device'.changes # device.changes => device.rev = m.rev
    /\ m.op = "start" /\ answer' = "done" => device'.on /\ device'.with = m.with
    /\ m.op = "start" /\ answer' = "failed" /\ ~device.on =>
          ~device'.on \/ (device'.restFaulted /\ device'.manualFaulted)
    /\ m.op = "stop" => ~device'.on \/ device'.manualFaulted

LEMMA RefusedHandlesWell ==
    ASSUME NEW m, DeviceIsSound(device), NEW status \in Statuses, Refused(status),
           m.op # "stop", m.op = "start" => status # "done"
    PROVE  HandledWell(m)
  <1>1. device' = device /\ answer' = status
    BY DEF Refused, Ends
  <1>2. Moved(device, device')
    BY <1>1, UnmovedMoves
  <1> QED
    BY <1>1, <1>2 DEF HandledWell

LEMMA StartHandlesWell ==
    ASSUME NEW m \in Messages, DeviceIsSound(device), MessageIsSound(device, m), Start(m)
    PROVE  HandledWell(m)
  <1>1. m.op = "start" /\ m.with \in Wishes
    BY DEF Start, MessageIsSound, Messages
  <1>2. CASE \E status \in {"failed", "conflict"} : Refused(status)
    <2>1. PICK status \in {"failed", "conflict"} : Refused(status)
      BY <1>2
    <2>2. status \in Statuses /\ m.op # "stop" /\ (m.op = "start" => status # "done")
      BY <1>1 DEF Statuses
    <2> QED
      BY <2>1, <2>2, RefusedHandlesWell
  <1>3. CASE Repeats(m) /\ Refused("done")
    <2>1. device' = device /\ answer' = "done"
      BY <1>3 DEF Refused, Ends
    <2>2. Moved(device, device')
      BY <2>1, UnmovedMoves
    <2>3. device.on /\ device.with = m.with
      BY <1>3 DEF Repeats
    <2> QED
      BY <1>1, <2>1, <2>2, <2>3 DEF HandledWell, Statuses
  <1>4. CASE Expected(m) /\ Room(2) /\ ~(\E status \in {"failed", "conflict"} : Refused(status))
             /\ \/ Ends(Requesting(device, m.with), "done")
                \/ \E d \in GatewayRolledBack(Requesting(device, m.with))
                            \cup RestRolledBack(Requesting(device, m.with)) : Ends(d, "failed")
    <2> DEFINE requested == Requesting(device, m.with)
    <2>1. /\ device.changes \in Nat /\ device.changes + 1 <= MaxChanges
          /\ device.changes + 2 <= MaxChanges
      BY <1>4, DeviceParts, WebNumbers DEF Room
    <2>2. /\ Moved(device, requested) /\ requested.on /\ requested.with = m.with
          /\ requested.changes = device.changes + 1
      BY <1>1, <2>1, RequestingMoves
    <2>3. DeviceIsSound(requested)
      BY <2>2 DEF Moved
    <2>a. /\ \/ Ends(requested, "done")
             \/ \E d \in GatewayRolledBack(requested) \cup RestRolledBack(requested) :
                   Ends(d, "failed")
          /\ Expected(m)
      BY <1>4
    <2> HIDE DEF requested
    <2>4. CASE Ends(requested, "done")
      BY <1>1, <2>2, <2>4, <2>a DEF Ends, Expected, HandledWell, Statuses
    <2>5. CASE \E d \in GatewayRolledBack(requested) \cup RestRolledBack(requested) :
                  Ends(d, "failed")
      <3>1. PICK d \in GatewayRolledBack(requested) \cup RestRolledBack(requested) :
                    Ends(d, "failed")
        BY <2>5
      <3>2. device' = d /\ answer' = "failed"
        BY <3>1 DEF Ends
      <3>3. requested.changes + 1 <= MaxChanges
        BY <2>1, <2>2
      <3>4. TakenBack(requested, d)
        BY <2>3, <3>1, <3>3, GatewayRollsBack, RestRollsBack
      <3>5. Moved(device, d)
        BY <2>2, <3>4, MovedTwice DEF TakenBack
      <3> QED
        BY <1>1, <2>2, <2>a, <3>2, <3>4, <3>5 DEF Expected, TakenBack, HandledWell, Statuses
    <2> QED
      BY <2>4, <2>5, <2>a
  <1> QED
    BY <1>2, <1>3, <1>4 DEF Start

LEMMA StopHandlesWell ==
    ASSUME NEW m, DeviceIsSound(device), Stop(m)
    PROVE  HandledWell(m)
  <1>1. m.op = "stop"
    BY DEF Stop
  <1>2. CASE ~device.on /\ Refused("done")
    <2>1. device' = device /\ answer' = "done"
      BY <1>2 DEF Refused, Ends
    <2>2. Moved(device, device')
      BY <2>1, UnmovedMoves
    <2> QED
      BY <1>1, <1>2, <2>1, <2>2 DEF HandledWell, Statuses
  <1>3. CASE Room(1) /\ \E status \in {"done", "failed"} : Ends(RequestedOff(device), status)
    <2>1. device.changes + 1 <= MaxChanges
      BY <1>3 DEF Room
    <2>2. Moved(device, RequestedOff(device)) /\ ~RequestedOff(device).on
          /\ RequestedOff(device).with = None
      BY <2>1, RequestedOffMoves
    <2>3. device' = RequestedOff(device) /\ answer' \in {"done", "failed"}
      BY <1>3 DEF Ends
    <2> QED
      BY <1>1, <2>2, <2>3 DEF HandledWell, Statuses
  <1>4. CASE Ends([device EXCEPT !.manualFaulted = TRUE], "failed")
    <2> DEFINE e == [device EXCEPT !.manualFaulted = TRUE]
    <2>1. Moved(device, e) /\ e.with = device.with /\ e.manualFaulted
      BY ManualLatchMoves
    <2>2. device' = e /\ answer' = "failed"
      BY <1>4 DEF Ends
    <2> HIDE DEF e
    <2> QED
      BY <1>1, <2>1, <2>2 DEF HandledWell, Statuses
  <1> QED
    BY <1>2, <1>3, <1>4 DEF Stop

LEMMA UpdateHandlesWell ==
    ASSUME NEW m, DeviceIsSound(device), Update(m)
    PROVE  HandledWell(m)
  <1>1. m.op = "update"
    BY DEF Update
  <1>2. CASE \E status \in {"done", "failed", "conflict"} : Refused(status)
    <2>1. PICK status \in {"done", "failed", "conflict"} : Refused(status)
      BY <1>2
    <2>2. status \in Statuses /\ m.op # "stop" /\ (m.op = "start" => status # "done")
      BY <1>1 DEF Statuses
    <2> QED
      BY <2>1, <2>2, RefusedHandlesWell
  <1>3. CASE /\ SessionExpected(m) /\ Room(1)
             /\ \E status \in {"done", "failed"} : Ends(Requesting(device, "adjusted"), status)
    <2>1. device.changes + 1 <= MaxChanges
      BY <1>3 DEF Room
    <2> DEFINE e == Requesting(device, "adjusted")
    <2>2. Moved(device, e) /\ e.with = "adjusted"
      BY <2>1, RequestingMoves
    <2>3. device' = e /\ answer' \in {"done", "failed"}
      BY <1>3 DEF Ends
    <2> HIDE DEF e
    <2> QED
      BY <1>1, <1>3, <2>2, <2>3 DEF SessionExpected, HandledWell, Statuses
  <1> QED
    BY <1>2, <1>3 DEF Update

LEMMA SaveHandlesWell ==
    ASSUME NEW m, DeviceIsSound(device), Save(m)
    PROVE  HandledWell(m)
  <1>1. m.op = "save"
    BY DEF Save
  <1>2. CASE \E status \in {"done", "conflict"} : Refused(status)
    <2>1. PICK status \in {"done", "conflict"} : Refused(status)
      BY <1>2
    <2>2. status \in Statuses /\ m.op # "stop" /\ (m.op = "start" => status # "done")
      BY <1>1 DEF Statuses
    <2> QED
      BY <2>1, <2>2, RefusedHandlesWell
  <1> DEFINE disarmed == Disarmed(device)
  <1>3. /\ DeviceIsSound(disarmed) /\ SameRequest(device, disarmed) /\ ~disarmed.armed
        /\ disarmed.gen = device.gen /\ disarmed.unsure = device.unsure
    BY DisarmedMoves
  <1>4. SUFFICES ASSUME NEW e, NEW status \in {"done", "failed"},
                        DeviceIsSound(e), SameRequest(device, e), Ends(e, status)
                 PROVE  HandledWell(m)
    <2>1. CASE Ends(disarmed, "failed")
      BY <1>3, <1>4, <2>1
    <2>2. CASE ~device.unsure /\ device.gen < MaxGeneration
               /\ \E status \in {"done", "failed"} : Ends(Saved(disarmed), status)
      <3>1. DeviceIsSound(Saved(disarmed)) /\ SameRequest(disarmed, Saved(disarmed))
        BY <1>3, <2>2, SavedMoves
      <3>2. SameRequest(device, Saved(disarmed))
        BY <1>3, <3>1 DEF SameRequest
      <3> QED
        BY <1>4, <2>2, <3>1, <3>2
    <2>3. CASE device.gen < MaxGeneration /\ Ends([disarmed EXCEPT !.unsure = TRUE], "failed")
      <3> DEFINE e == [disarmed EXCEPT !.unsure = TRUE]
      <3>1. DeviceIsSound(e) /\ SameRequest(disarmed, e)
        BY <1>3, <2>3, UnsureMoves
      <3>3. Ends(e, "failed")
        BY <2>3
      <3> HIDE DEF e
      <3>2. SameRequest(device, e)
        BY <1>3, <3>1 DEF SameRequest
      <3> QED
        BY <1>4, <3>1, <3>2, <3>3
    <2> QED
      BY <1>2, <2>1, <2>2, <2>3 DEF Save
  <1>5. device' = e /\ answer' \in {"done", "failed"}
    BY <1>4 DEF Ends
  <1>6. Moved(device, device')
    BY <1>4, <1>5, SameRequestMoves
  <1> QED
    BY <1>1, <1>4, <1>5, <1>6 DEF SameRequest, HandledWell, Statuses

(* A request that is handled: refused at the door, or by its command. *)
LEMMA HandleHandles ==
    ASSUME NEW m \in Messages, DeviceIsSound(device), MessageIsSound(device, m), Handle(m)
    PROVE  /\ Moved(device, device') /\ answer' \in Statuses
           /\ device'.with \in {device.with, None, "adjusted"} \cup Wishes
           /\ m.op \in {"start", "update"} /\ device'.changes # device.changes =>
                 device.rev = m.rev
           /\ device' # device => m.csrf = device.boot
           /\ m.op = "start" /\ answer' = "done" => device'.on /\ device'.with = m.with
           /\ m.op = "start" /\ answer' = "failed" /\ ~device.on =>
                 ~device'.on \/ (device'.restFaulted /\ device'.manualFaulted)
           /\ m.op = "stop" /\ m.csrf = device.boot => ~device'.on \/ device'.manualFaulted
  <1>1. CASE m.csrf # device.boot /\ Refused("denied")
    <2>1. device' = device /\ answer' = "denied"
      BY <1>1 DEF Refused, Ends
    <2>2. Moved(device, device')
      BY <2>1, UnmovedMoves
    <2> QED
      BY <1>1, <2>1, <2>2 DEF Statuses
  <1>2. CASE \E status \in {"failed", "stale"} : Refused(status) /\ m.op # "stop"
    <2>1. device' = device /\ answer' \in {"failed", "stale"} /\ m.op # "stop"
      BY <1>2 DEF Refused, Ends
    <2>2. Moved(device, device')
      BY <2>1, UnmovedMoves
    <2> QED
      BY <2>1, <2>2 DEF Statuses
  <1>3. CASE Admitted(m) /\ (Start(m) \/ Stop(m) \/ Update(m) \/ Save(m))
    <2>1. HandledWell(m)
      BY <1>3, StartHandlesWell, StopHandlesWell, UpdateHandlesWell, SaveHandlesWell
    <2>2. m.csrf = device.boot
      BY <1>3 DEF Admitted
    <2> QED
      BY <2>1, <2>2 DEF HandledWell
  <1>4. \/ m.csrf # device.boot /\ Refused("denied")
        \/ \E status \in {"failed", "stale"} : Refused(status) /\ m.op # "stop"
        \/ Admitted(m) /\ (Start(m) \/ Stop(m) \/ Update(m) \/ Save(m))
    BY DEF Handle, Admitted, Current
  <1> QED
    BY <1>1, <1>2, <1>3, <1>4

-----------------------------------------------------------------------------
(* What was seen stays true: within the boot both counts grow by as much, and a later      *)
(* boot has nothing to do with it.                                                       *)
Follows(d, e) == DeviceIsSound(e) /\ (Moved(d, e) \/ d.boot < e.boot)

LEMMA SeenStays ==
    ASSUME NEW d, NEW e, DeviceIsSound(d), Follows(d, e),
           NEW rev \in Nat, NEW changes \in Nat, NEW boot \in Nat, Seen(d, rev, changes, boot)
    PROVE  Seen(e, rev, changes, boot)
  <1>1. /\ d.boot \in Nat /\ e.boot \in Nat /\ d.rev \in Nat /\ e.rev \in Nat
        /\ d.changes \in Nat /\ e.changes \in Nat
    BY DeviceParts, WebNumbers DEF Follows
  <1>2. CASE Moved(d, e)
    <2>1. e.boot = d.boot /\ e.changes - d.changes = e.rev - d.rev
      BY <1>2 DEF Moved
    <2> QED
      BY <1>1, <2>1 DEF Seen
  <1>3. CASE d.boot < e.boot
    <2>1. boot <= e.boot /\ boot # e.boot
      BY <1>1, <1>3 DEF Seen
    <2> QED
      BY <2>1 DEF Seen
  <1> QED
    BY <1>2, <1>3 DEF Follows

(* WebInv, one page and one message at a time. *)
LEMMA WebParts ==
    WebInv <=> /\ DeviceIsSound(device)
               /\ DOMAIN page = Pages /\ page = [p \in Pages |-> page[p]]
               /\ \A p \in Pages : PageKnows(device, page[p])
               /\ IsFiniteSet(mail) /\ Cardinality(mail) <= MaxMail
               /\ \A m \in mail : m \in Messages /\ MessageIsSound(device, m)
               /\ answer \in {None} \cup Statuses
  BY DEF WebInv, PageKnows, Statuses

LEMMA KnowledgeStays ==
    ASSUME NEW d, NEW e, DeviceIsSound(d), Follows(d, e)
    PROVE  /\ \A q : PageKnows(d, q) => PageKnows(e, q)
           /\ \A m \in Messages : MessageIsSound(d, m) => MessageIsSound(e, m)
  <1>0. d.boot \in Nat /\ e.boot \in Nat /\ d.boot <= e.boot
    BY DeviceParts DEF Follows, Moved
  <1>1. ASSUME NEW q, PageKnows(d, q)
        PROVE  PageKnows(e, q)
    <2>1. q.rev \in Nat /\ q.changes \in Nat /\ q.boot \in Nat
      BY <1>1 DEF PageKnows, PageStates
    <2>2. Seen(e, q.rev, q.changes, q.boot)
      BY <1>1, <2>1, SeenStays DEF PageKnows
    <2>3. q.csrf \in Nat /\ q.csrf <= e.boot
      BY <1>0, <1>1 DEF PageKnows, PageStates
    <2> QED
      BY <1>1, <2>2, <2>3 DEF PageKnows
  <1>2. ASSUME NEW m \in Messages, MessageIsSound(d, m)
        PROVE  MessageIsSound(e, m)
    <2>1. m.rev \in Nat /\ m.seen \in Nat /\ m.boot \in Nat
      BY <1>2 DEF Messages
    <2>2. m.op \in {"start", "update"} => Seen(e, m.rev, m.seen, m.boot)
      BY <1>2, <2>1, SeenStays DEF MessageIsSound
    <2>3. m.sent \in Nat /\ m.sent <= e.boot
      BY <1>0, <1>2 DEF MessageIsSound, Messages
    <2> QED
      BY <1>2, <2>2, <2>3 DEF MessageIsSound
  <1> QED
    BY <1>1, <1>2

LEMMA SeesKnows ==
    ASSUME NEW d, DeviceIsSound(d), NEW q, PageKnows(d, q)
    PROVE  PageKnows(d, Sees(q, d))
  <1>1. d.rev \in Nat /\ d.changes \in Nat /\ d.boot \in Nat /\ q \in PageStates
    BY DeviceParts, WebNumbers DEF PageKnows
  <1>2. /\ Sees(q, d) \in PageStates /\ Sees(q, d).csrf = q.csrf /\ Sees(q, d).rev = d.rev
        /\ Sees(q, d).changes = d.changes /\ Sees(q, d).boot = d.boot
    BY <1>1 DEF Sees, PageStates
  <1>3. Seen(d, d.rev, d.changes, d.boot)
    BY <1>1 DEF Seen
  <1> QED
    BY <1>2, <1>3 DEF PageKnows

LEMMA ReadsKnows ==
    ASSUME NEW d, DeviceIsSound(d), NEW q, PageKnows(d, q)
    PROVE  PageKnows(d, Reads(q, d))
  <1>1. d.gen \in Nat /\ q \in PageStates
    BY DeviceParts, WebNumbers DEF PageKnows
  <1>2. /\ Reads(q, d) \in PageStates /\ Reads(q, d).csrf = q.csrf /\ Reads(q, d).rev = q.rev
        /\ Reads(q, d).changes = q.changes /\ Reads(q, d).boot = q.boot
    BY <1>1 DEF Reads, PageStates
  <1> QED
    BY <1>2 DEF PageKnows

LEMMA ToldKnows ==
    ASSUME NEW d, DeviceIsSound(d), NEW q, PageKnows(d, q), NEW m, NEW status
    PROVE  PageKnows(d, Told(q, m, status, d))
  <1> DEFINE csrf == IF status \in {"denied", "failed"} THEN 0 ELSE q.csrf
             etag == IF Tagged(m, status) THEN d.gen ELSE q.etag
             told == [q EXCEPT !.waits = None, !.csrf = csrf, !.etag = etag]
  <1>1. d.gen \in Nat /\ q \in PageStates
    BY DeviceParts, WebNumbers DEF PageKnows
  <1>2. csrf \in Nat /\ etag \in Nat /\ csrf <= d.boot
    BY <1>1, DeviceParts DEF PageKnows, PageStates
  <1>3. Told(q, m, status, d) =
           IF status # "done" THEN told
           ELSE Sees(IF m.op = "save" THEN Reads(told, d) ELSE told, d)
    BY <1>1 DEF Told, PageStates
  <1> HIDE DEF csrf, etag
  <1>4. /\ told \in PageStates /\ told.csrf = csrf /\ told.rev = q.rev
        /\ told.changes = q.changes /\ told.boot = q.boot
    BY <1>1, <1>2 DEF PageStates
  <1> HIDE DEF told
  <1>5. PageKnows(d, told)
    BY <1>2, <1>4 DEF PageKnows
  <1>6. PageKnows(d, Reads(told, d))
    BY <1>5, ReadsKnows
  <1>7. PageKnows(d, Sees(told, d)) /\ PageKnows(d, Sees(Reads(told, d), d))
    BY <1>5, <1>6, SeesKnows DEF PageKnows
  <1> QED
    BY <1>3, <1>5, <1>7

(* A page with another state for one browser. *)
LEMMA PageChanges ==
    ASSUME NEW d, NEW old, old = [r \in Pages |-> old[r]],
           \A r \in Pages : PageKnows(d, old[r]),
           NEW p \in Pages, NEW q, PageKnows(d, q)
    PROVE  LET new == [old EXCEPT ![p] = q]
           IN  /\ DOMAIN new = Pages /\ new = [r \in Pages |-> new[r]]
               /\ \A r \in Pages : PageKnows(d, new[r])
  <1> DEFINE new == [old EXCEPT ![p] = q]
  <1>1. DOMAIN new = Pages /\ \A r \in Pages : new[r] = IF r = p THEN q ELSE old[r]
    OBVIOUS
  <1>2. new = [r \in Pages |-> new[r]]
    BY <1>1
  <1> HIDE DEF new
  <1> QED
    BY <1>1, <1>2 DEF new

-----------------------------------------------------------------------------
LEMMA WebStarts ==
    ASSUME WebInit
    PROVE  WebInv
  <1>1. /\ None \in Wishes \cup {"timer", "adjusted", None}
        /\ 0 \in 0 .. MaxChanges /\ 1 \in 0 .. MaxGeneration /\ 0 <= MaxMail
    BY WebNumbers
  <1>2. device = [on |-> FALSE, with |-> None, rev |-> 0, changes |-> 0,
                  gen |-> 1, runs |-> 1, unsure |-> FALSE, armed |-> TRUE,
                  manualFaulted |-> FALSE, restFaulted |-> FALSE, boot |-> 1]
    BY DEF WebInit
  <1>3. /\ device \in Devices /\ device.on = FALSE /\ device.with = None
        /\ device.rev = 0 /\ device.changes = 0 /\ device.gen = 1 /\ device.runs = 1
        /\ device.unsure = FALSE /\ device.boot = 1
    BY <1>1, <1>2 DEF Devices
  <1>4. DeviceIsSound(device)
    BY <1>3 DEF DeviceIsSound
  <1> DEFINE first == [csrf |-> 0, etag |-> 1, rev |-> 0, boot |-> 1, changes |-> 0, waits |-> None]
  <1>5. /\ first \in PageStates /\ first.csrf = 0 /\ first.rev = 0 /\ first.changes = 0 /\ first.boot = 1
    BY DEF PageStates
  <1>6. page = [p \in Pages |-> first]
    BY DEF WebInit
  <1> HIDE DEF first
  <1>7. PageKnows(device, first)
    BY <1>3, <1>5 DEF PageKnows, Seen
  <1>8. /\ DOMAIN page = Pages /\ page = [p \in Pages |-> page[p]]
        /\ \A p \in Pages : PageKnows(device, page[p])
    BY <1>6, <1>7
  <1>9. mail = {} /\ IsFiniteSet(mail) /\ Cardinality(mail) <= MaxMail
    BY <1>1, FS_EmptySet DEF WebInit
  <1> QED
    BY <1>4, <1>8, <1>9, WebParts DEF WebInit

(* The pages and the mail are as they were, the device follows. *)
LEMMA DeviceAlone ==
    ASSUME WebInv, Follows(device, device'), UNCHANGED <<page, mail>>,
           answer' \in {None} \cup Statuses
    PROVE  WebInv'
  <1>1. /\ DeviceIsSound(device) /\ DeviceIsSound(device')
        /\ DOMAIN page = Pages /\ page = [p \in Pages |-> page[p]]
        /\ \A p \in Pages : PageKnows(device, page[p])
        /\ IsFiniteSet(mail) /\ Cardinality(mail) <= MaxMail
        /\ \A m \in mail : m \in Messages /\ MessageIsSound(device, m)
    BY WebParts DEF Follows
  <1>2. /\ \A p \in Pages : PageKnows(device', page'[p])
        /\ \A m \in mail' : m \in Messages /\ MessageIsSound(device', m)
    BY <1>1, KnowledgeStays
  <1> QED
    BY <1>1, <1>2 DEF WebInv, PageKnows, Statuses

LEMMA TimerStartKeeps ==
    ASSUME WebInv, TimerStarts
    PROVE  WebInv'
  <1>1. DeviceIsSound(device) /\ device.changes + 1 <= MaxChanges
    BY WebParts DEF TimerStarts, Room
  <1>2. device' = Requesting(device, "timer") /\ UNCHANGED <<page, mail>> /\ answer' = None
    BY DEF TimerStarts
  <1>3. Moved(device, device')
    BY <1>1, <1>2, RequestingMoves
  <1> QED
    BY <1>2, <1>3, DeviceAlone DEF Follows, Moved

LEMMA RequestEndKeeps ==
    ASSUME WebInv, RequestEnds
    PROVE  WebInv' /\ device'.with = None
  <1>1. DeviceIsSound(device) /\ device.changes + 1 <= MaxChanges
    BY WebParts DEF RequestEnds, Room
  <1>2. device' = RequestedOff(device) /\ UNCHANGED <<page, mail>> /\ answer' = None
    BY DEF RequestEnds
  <1>3. Moved(device, device') /\ device'.with = None
    BY <1>1, <1>2, RequestedOffMoves
  <1> QED
    BY <1>2, <1>3, DeviceAlone DEF Follows, Moved

LEMMA RebootKeeps ==
    ASSUME WebInv, Reboot
    PROVE  WebInv' /\ device'.with = None
  <1>1. /\ DeviceIsSound(device) /\ device \in Devices
        /\ device.changes + 1 <= MaxChanges /\ device.boot \in Nat
    BY WebParts, DeviceParts DEF Reboot, Room
  <1>2. PICK read \in IF device.unsure THEN {device, Saved(device)} ELSE {device} :
            device' = [read EXCEPT !.on = FALSE, !.with = None, !.rev = 0, !.changes = @ + 1,
                                   !.runs = read.gen, !.unsure = FALSE, !.armed = TRUE,
                                   !.manualFaulted = FALSE, !.restFaulted = FALSE,
                                   !.boot = @ + 1]
    BY DEF Reboot
  <1>3. read \in Devices /\ read.changes = device.changes /\ read.boot = device.boot
    <2>1. CASE read = device
      BY <1>1, <2>1
    <2>2. CASE device.unsure /\ read = Saved(device)
      <3>1. device.gen < MaxGeneration
        BY <1>1, <2>2 DEF DeviceIsSound
      <3>2. PICK g \in 0 .. MaxGeneration : g = device.gen + 1
        BY <1>1, <3>1, DeviceParts, WebNumbers
      <3>3. read = [device EXCEPT !.gen = g]
        BY <2>2, <3>2 DEF Saved
      <3> QED
        BY <1>1, <3>3 DEF Devices
    <2> QED
      BY <1>2, <2>1, <2>2
  <1>4. DeviceIsSound(device') /\ device'.boot = device.boot + 1 /\ device'.with = None
    BY <1>1, <1>2, <1>3, RebootMoves
  <1>5. Follows(device, device')
    BY <1>1, <1>4 DEF Follows
  <1> QED
    BY <1>4, <1>5, DeviceAlone DEF Reboot

(* A page learns something, the device and the mail stay. *)
LEMMA PageAlone ==
    ASSUME WebInv, NEW p \in Pages, NEW q, PageKnows(device, q),
           page' = [page EXCEPT ![p] = q], UNCHANGED <<device, mail>>, answer' = None
    PROVE  WebInv'
  <1>1. /\ DeviceIsSound(device)
        /\ DOMAIN page = Pages /\ page = [r \in Pages |-> page[r]]
        /\ \A r \in Pages : PageKnows(device, page[r])
        /\ IsFiniteSet(mail) /\ Cardinality(mail) <= MaxMail
        /\ \A m \in mail : m \in Messages /\ MessageIsSound(device, m)
    BY WebParts
  <1>2. /\ DOMAIN page' = Pages /\ page' = [r \in Pages |-> page'[r]]
        /\ \A r \in Pages : PageKnows(device, page'[r])
    BY <1>1, PageChanges
  <1> QED
    BY <1>1, <1>2 DEF WebInv, PageKnows, Statuses

LEMMA LooksKeep ==
    ASSUME WebInv, NEW p \in Pages, Poll(p) \/ Load(p) \/ GiveUp(p)
    PROVE  WebInv' /\ UNCHANGED device
  <1>1. DeviceIsSound(device) /\ PageKnows(device, page[p]) /\ page[p] \in PageStates
    BY WebParts DEF PageKnows
  <1>2. CASE Poll(p)
    <2>1. PageKnows(device, Sees(page[p], device))
      BY <1>1, SeesKnows
    <2> QED
      BY <1>2, <2>1, PageAlone DEF Poll
  <1>3. CASE Load(p)
    <2>1. PageKnows(device, Reads(page[p], device))
      BY <1>1, ReadsKnows
    <2> QED
      BY <1>3, <2>1, PageAlone DEF Load
  <1>4. CASE GiveUp(p)
    <2> DEFINE q == [page[p] EXCEPT !.waits = None]
    <2>1. /\ q \in PageStates /\ q.csrf = page[p].csrf
          /\ q.rev = page[p].rev /\ q.changes = page[p].changes /\ q.boot = page[p].boot
      BY <1>1 DEF PageStates
    <2>2. page' = [page EXCEPT ![p] = q]
      BY <1>4 DEF GiveUp
    <2>3. UNCHANGED <<device, mail>> /\ answer' = None
      BY <1>4 DEF GiveUp
    <2> HIDE DEF q
    <2>4. PageKnows(device, q)
      BY <1>1, <2>1 DEF PageKnows
    <2> QED
      BY <2>2, <2>3, <2>4, PageAlone
  <1> QED
    BY <1>2, <1>3, <1>4

LEMMA SubmitKeeps ==
    ASSUME WebInv, NEW p \in Pages, Submit(p)
    PROVE  WebInv' /\ UNCHANGED device
  <1>1. /\ DeviceIsSound(device) /\ page[p] \in PageStates
        /\ DOMAIN page = Pages /\ page = [r \in Pages |-> page[r]]
        /\ \A r \in Pages : PageKnows(device, page[r])
        /\ IsFiniteSet(mail) /\ Cardinality(mail) < MaxMail
        /\ \A m \in mail : m \in Messages /\ MessageIsSound(device, m)
    BY WebParts DEF PageKnows, Submit
  <1>2. PICK op \in {"start", "update", "stop", "save"}, wish \in Wishes \cup {None} :
            /\ (op = "start") <=> (wish # None)
            /\ mail' = mail \cup {Command(p, op, wish)}
            /\ page' = [page EXCEPT ![p].waits = Command(p, op, wish),
                                    ![p].csrf = Command(p, op, wish).csrf]
    BY DEF Submit
  <1>3. UNCHANGED device /\ answer' = None
    BY DEF Submit
  <1> DEFINE looks == op \in {"start", "update"}
             csrf == IF page[p].csrf = 0 THEN device.boot ELSE page[p].csrf
             etag == IF op = "stop" THEN 0 ELSE page[p].etag
             rev == IF looks THEN page[p].rev ELSE 0
             seen == IF looks THEN page[p].changes ELSE 0
             boot == IF looks THEN page[p].boot ELSE 0
             m == Command(p, op, wish)
  <1>4. /\ csrf \in Nat /\ etag \in Nat /\ rev \in Nat /\ seen \in Nat /\ boot \in Nat
        /\ device.boot \in Nat /\ csrf <= device.boot
        /\ looks => rev = page[p].rev /\ seen = page[p].changes /\ boot = page[p].boot
    BY <1>1, DeviceParts DEF PageKnows, PageStates
  <1>5. m = [page |-> p, op |-> op, with |-> wish, csrf |-> csrf, etag |-> etag,
             rev |-> rev, seen |-> seen, boot |-> boot, sent |-> device.boot]
    BY DEF Command
  <1>a. mail' = mail \cup {m} /\ page' = [page EXCEPT ![p].waits = m, ![p].csrf = m.csrf]
    BY <1>2
  <1>b. looks <=> op \in {"start", "update"}
    OBVIOUS
  <1> HIDE DEF m, csrf, etag, rev, seen, boot, looks
  <1>6. /\ m \in Messages /\ m.op = op /\ m.with = wish /\ m.csrf = csrf
        /\ m.rev = rev /\ m.seen = seen /\ m.boot = boot /\ m.sent = device.boot
    BY <1>4, <1>5 DEF Messages
  <1>7. MessageIsSound(device, m)
    <2>1. looks => Seen(device, rev, seen, boot)
      BY <1>1, <1>4 DEF PageKnows
    <2> QED
      BY <1>2, <1>4, <1>6, <1>b, <2>1 DEF MessageIsSound
  <1> DEFINE q == [[page[p] EXCEPT !.waits = m] EXCEPT !.csrf = m.csrf]
  <1>8. /\ q \in PageStates /\ q.csrf = csrf
        /\ q.rev = page[p].rev /\ q.changes = page[p].changes /\ q.boot = page[p].boot
    BY <1>1, <1>4, <1>6 DEF PageStates
  <1>9. page' = [page EXCEPT ![p] = q]
    BY <1>1, <1>a
  <1> HIDE DEF q
  <1>10. PageKnows(device, q)
    BY <1>1, <1>4, <1>8 DEF PageKnows
  <1>c. page = [r \in Pages |-> page[r]] /\ \A r \in Pages : PageKnows(device, page[r])
    BY <1>1
  <1>11. /\ DOMAIN page' = Pages /\ page' = [r \in Pages |-> page'[r]]
         /\ \A r \in Pages : PageKnows(device, page'[r])
    BY ONLY <1>9, <1>10, <1>c, p \in Pages, PageChanges
  <1>12. IsFiniteSet(mail') /\ Cardinality(mail') <= MaxMail
    <2>1. Cardinality(mail) \in Nat
      BY <1>1, FS_CardinalityType
    <2>2. /\ IsFiniteSet(mail \cup {m})
          /\ \/ Cardinality(mail \cup {m}) = Cardinality(mail)
             \/ Cardinality(mail \cup {m}) = Cardinality(mail) + 1
      BY <1>1, FS_AddElement
    <2>3. Cardinality(mail \cup {m}) <= MaxMail
      BY <1>1, <2>1, <2>2, WebNumbers
    <2> QED
      BY <1>a, <2>2, <2>3
  <1>13. \A n \in mail' : n \in Messages /\ MessageIsSound(device, n)
    BY <1>1, <1>6, <1>7, <1>a
  <1> QED
    BY <1>1, <1>3, <1>11, <1>12, <1>13 DEF WebInv, PageKnows, Statuses

LEMMA LessMail ==
    ASSUME IsFiniteSet(mail), Cardinality(mail) <= MaxMail, NEW m
    PROVE  IsFiniteSet(mail \ {m}) /\ Cardinality(mail \ {m}) <= MaxMail
  <1>1. /\ IsFiniteSet(mail \ {m}) /\ Cardinality(mail) \in Nat
        /\ Cardinality(mail \ {m}) \in Nat /\ Cardinality(mail \ {m}) <= Cardinality(mail)
    BY FS_Subset, FS_CardinalityType, mail \ {m} \in SUBSET mail
  <1> QED
    BY <1>1, WebNumbers

LEMMA LoseKeeps ==
    ASSUME WebInv, NEW m \in mail, Lose(m)
    PROVE  WebInv' /\ UNCHANGED device /\ answer' = None
  <1>1. /\ DeviceIsSound(device)
        /\ DOMAIN page = Pages /\ page = [r \in Pages |-> page[r]]
        /\ \A r \in Pages : PageKnows(device, page[r])
        /\ IsFiniteSet(mail) /\ Cardinality(mail) <= MaxMail
        /\ \A n \in mail : n \in Messages /\ MessageIsSound(device, n)
    BY WebParts
  <1>2. mail' = mail \ {m} /\ UNCHANGED <<device, page>> /\ answer' = None
    BY DEF Lose
  <1>3. IsFiniteSet(mail') /\ Cardinality(mail') <= MaxMail
    BY <1>1, <1>2, LessMail
  <1> QED
    BY <1>1, <1>2, <1>3 DEF WebInv, PageKnows, Statuses

LEMMA DeliverKeeps ==
    ASSUME WebInv, NEW m \in mail, Deliver(m)
    PROVE  WebInv'
  <1>1. /\ DeviceIsSound(device)
        /\ DOMAIN page = Pages /\ page = [r \in Pages |-> page[r]]
        /\ \A r \in Pages : PageKnows(device, page[r])
        /\ IsFiniteSet(mail) /\ Cardinality(mail) <= MaxMail
        /\ \A n \in mail : n \in Messages /\ MessageIsSound(device, n)
    BY WebParts
  <1>2. Moved(device, device') /\ answer' \in Statuses
    BY <1>1, HandleHandles DEF Deliver
  <1>3. DeviceIsSound(device') /\ Follows(device, device')
    BY <1>2 DEF Moved, Follows
  <1>4. /\ \A r \in Pages : PageKnows(device', page[r])
        /\ \A n \in mail : n \in Messages /\ MessageIsSound(device', n)
    BY <1>1, <1>3, KnowledgeStays
  <1>5. mail' = mail \ {m} /\ IsFiniteSet(mail') /\ Cardinality(mail') <= MaxMail
    BY <1>1, LessMail DEF Deliver
  <1>6. /\ DOMAIN page' = Pages /\ page' = [r \in Pages |-> page'[r]]
        /\ \A r \in Pages : PageKnows(device', page'[r])
    <2>1. CASE UNCHANGED page
      BY <1>1, <1>4, <2>1
    <2>2. CASE page' = [page EXCEPT ![m.page] = Told(page[m.page], m, answer', device')]
      <3>1. m.page \in Pages
        BY <1>1 DEF Messages
      <3>2. PageKnows(device', Told(page[m.page], m, answer', device'))
        BY <1>3, <1>4, <3>1, ToldKnows
      <3>3. PICK q : q = Told(page[m.page], m, answer', device')
        OBVIOUS
      <3>4. /\ page' = [page EXCEPT ![m.page] = q] /\ PageKnows(device', q)
            /\ page = [r \in Pages |-> page[r]] /\ \A r \in Pages : PageKnows(device', page[r])
        BY <1>1, <1>4, <2>2, <3>2, <3>3
      <3> QED
        BY ONLY <3>1, <3>4, PageChanges
    <2> QED
      BY <2>1, <2>2 DEF Deliver
  <1> QED
    BY <1>2, <1>3, <1>4, <1>5, <1>6 DEF WebInv, PageKnows, Statuses

LEMMA WebStays ==
    ASSUME WebInv, UNCHANGED webVars
    PROVE  WebInv'
  <1>1. WebInv <=> WebInv'
    BY DEF webVars, WebInv
  <1> QED
    BY <1>1

LEMMA WebSteps ==
    ASSUME WebInv, [WebNext]_webVars
    PROVE  WebInv'
  BY LooksKeep, SubmitKeeps, DeliverKeeps, LoseKeeps, TimerStartKeeps, RequestEndKeeps,
     RebootKeeps, WebStays DEF WebNext

(* Pages and requests know of the device what was so in the boot they looked at it. *)
THEOREM WebInvariance == WebSpec => []WebInv
  <1>1. WebInit => WebInv
    BY WebStarts
  <1>2. WebInv /\ [WebNext]_webVars => WebInv'
    BY WebSteps
  <1> QED
    BY <1>1, <1>2, PTL DEF WebSpec

LEMMA WebIsTyped == WebInv => WebTypeOK
  <1> SUFFICES ASSUME WebInv
               PROVE  WebTypeOK
    OBVIOUS
  <1>1. DeviceIsSound(device) /\ device.changes <= MaxChanges /\ device.gen <= MaxGeneration
        /\ device.with \in Wishes \cup {"timer", "adjusted", None}
    BY WebParts, DeviceParts, WebNumbers
  <1>2. device.on <=> device.with # None
    BY <1>1 DEF DeviceIsSound
  <1> QED
    BY <1>1, <1>2 DEF WebTypeOK, WebInv, DeviceIsSound

(* The heat is requested if and only if something is requested with it, no revision is        *)
(* beyond the changes made, and what runs is never newer than what is stored.                *)
THEOREM WebTyped == WebSpec => []WebTypeOK
  BY WebIsTyped, WebInvariance, PTL

(* What a step that takes a request from the mail does. *)
LEMMA HandledIsHandled ==
    ASSUME WebInv, [WebNext]_webVars, NEW m \in Handled
    PROVE  \/ answer' = None /\ UNCHANGED device
           \/ m \in Messages /\ MessageIsSound(device, m) /\ Handle(m)
  <1>1. m \in mail /\ m \notin mail'
    BY DEF Handled
  <1>2. PICK n \in mail : Deliver(n) \/ Lose(n)
    <2>1. ASSUME UNCHANGED mail
          PROVE  FALSE
      BY <1>1, <2>1
    <2>2. ASSUME NEW p \in Pages, Submit(p)
          PROVE  FALSE
      BY <1>1, <2>2 DEF Submit
    <2> QED
      BY <2>1, <2>2 DEF WebNext, webVars, Poll, Load, GiveUp, TimerStarts, RequestEnds, Reboot
  <1>3. CASE Lose(n)
    BY <1>3, LoseKeeps
  <1>4. CASE Deliver(n)
    <2>1. n = m
      BY <1>1, <1>4 DEF Deliver
    <2> QED
      BY <1>4, <2>1, WebParts DEF Deliver
  <1> QED
    BY <1>2, <1>3, <1>4

StaysCurrent ==
    /\ \A m \in Handled :
          /\ device' # device => m.sent = device.boot
          /\ /\ m.op \in {"start", "update"} /\ device'.changes # device.changes
             /\ m.boot = device.boot
             => m.seen = device.changes
    /\ device'.with = "timer" /\ device.with # "timer" => Authority

LEMMA StepsStayCurrent ==
    ASSUME WebInv, [WebNext]_webVars
    PROVE  StaysCurrent
  <1>1. DeviceIsSound(device)
    BY WebParts
  <1>2. ASSUME NEW m \in Handled, m.op \in {"start", "update"},
               device'.changes # device.changes, m.boot = device.boot
        PROVE  m.seen = device.changes
    <2>1. m \in Messages /\ MessageIsSound(device, m) /\ Handle(m)
      BY <1>2, HandledIsHandled
    <2>2. device.rev = m.rev
      BY <1>1, <1>2, <2>1, HandleHandles
    <2>3. /\ m.seen \in Nat /\ m.rev \in Nat /\ device.rev \in Nat /\ device.changes \in Nat
      BY <1>1, <2>1, DeviceParts, WebNumbers DEF Messages
    <2>4. device.changes - m.seen = device.rev - m.rev
      BY <1>2, <2>1 DEF MessageIsSound, Seen
    <2> QED
      BY <2>2, <2>3, <2>4
  <1>4. ASSUME NEW m \in Handled, device' # device
        PROVE  m.sent = device.boot
    <2>1. m \in Messages /\ MessageIsSound(device, m) /\ Handle(m)
      BY <1>4, HandledIsHandled
    <2>2. m.csrf = device.boot
      BY <1>1, <1>4, <2>1, HandleHandles
    <2>3. m.sent \in Nat /\ m.csrf <= m.sent /\ m.sent <= device.boot /\ device.boot \in Nat
      BY <1>1, <2>1, DeviceParts DEF MessageIsSound, Messages
    <2> QED
      BY <2>2, <2>3
  <1>3. ASSUME device'.with = "timer", device.with # "timer"
        PROVE  Authority
    <2>1. "timer" \notin Wishes \cup {None, "adjusted"}
      BY WebNumbers
    <2>2. TimerStarts
      <3>1. ASSUME NEW m \in mail, Deliver(m)
            PROVE  FALSE
        <4>1. m \in Messages /\ MessageIsSound(device, m) /\ Handle(m)
          BY <3>1, WebParts DEF Deliver
        <4>2. device'.with \in {device.with, None, "adjusted"} \cup Wishes
          BY <1>1, <4>1, HandleHandles
        <4> QED
          BY <1>3, <2>1, <4>2
      <3>2. device' # device
        BY <1>3
      <3> QED
        BY <1>3, <2>1, <3>1, <3>2, LooksKeep, SubmitKeeps, LoseKeeps, RequestEndKeeps, RebootKeeps
           DEF WebNext, webVars
    <2> QED
      BY <1>1, <2>2 DEF TimerStarts, DeviceIsSound, Authority
  <1> QED
    BY <1>2, <1>3, <1>4 DEF StaysCurrent

(* A request changes nothing in a boot later than the one it was sent in.  In the boot of   *)
(* its look, a start or an adjustment takes effect only if nothing has been requested       *)
(* since.  And a timer starts the heater only from the stored configuration that runs.       *)
THEOREM NothingStartsOnTheOld == WebSpec => StartsAreCurrent
  <1>1. WebInv /\ [WebNext]_webVars => StaysCurrent
    BY StepsStayCurrent
  <1>2. StaysCurrent =>
          /\ \A m \in Handled :
                /\ device' # device => m.sent = device.boot
                /\ /\ m.op \in {"start", "update"} /\ device'.changes # device.changes
                   /\ m.boot = device.boot
                   => m.seen = device.changes
          /\ device'.with = "timer" /\ device.with # "timer" => Authority
    BY DEF StaysCurrent
  <1> QED
    BY <1>1, <1>2, WebInvariance, PTL
    DEF WebSpec, StartsAreCurrent, CommandsAreCurrent, TimersRunTheirDocument

AnswersTruly ==
    \A m \in Handled :
       /\ m.op = "start" /\ answer' = "done" => device'.on /\ device'.with = m.with
       /\ m.op = "start" /\ answer' = "failed" /\ ~device.on =>
             ~device'.on \/ (device'.restFaulted /\ device'.manualFaulted)
       /\ m.op = "stop" /\ m.csrf = device.boot /\ answer' # None =>
             ~device'.on \/ device'.manualFaulted

LEMMA StepsAnswerTruly ==
    ASSUME WebInv, [WebNext]_webVars
    PROVE  AnswersTruly
  <1>1. SUFFICES
          ASSUME NEW m \in Handled
          PROVE  /\ m.op = "start" /\ answer' = "done" => device'.on /\ device'.with = m.with
                 /\ m.op = "start" /\ answer' = "failed" /\ ~device.on =>
                       ~device'.on \/ (device'.restFaulted /\ device'.manualFaulted)
                 /\ m.op = "stop" /\ m.csrf = device.boot /\ answer' # None =>
                       ~device'.on \/ device'.manualFaulted
    BY DEF AnswersTruly
  <1>2. CASE answer' = None
    BY <1>2, WebNumbers
  <1>3. CASE m \in Messages /\ MessageIsSound(device, m) /\ Handle(m)
    <2>1. DeviceIsSound(device)
      BY WebParts
    <2> QED
      BY <1>3, <2>1, HandleHandles
  <1> QED
    BY <1>2, <1>3, HandledIsHandled

(* A page is told of its command what has become of it. *)
THEOREM PagesAreToldTheTruth == WebSpec => AnswersAreTrue
  <1>1. WebInv /\ [WebNext]_webVars => AnswersTruly
    BY StepsAnswerTruly
  <1>2. AnswersTruly =>
          \A m \in Handled :
             /\ m.op = "start" /\ answer' = "done" => device'.on /\ device'.with = m.with
             /\ m.op = "start" /\ answer' = "failed" /\ ~device.on =>
                   ~device'.on \/ (device'.restFaulted /\ device'.manualFaulted)
             /\ m.op = "stop" /\ m.csrf = device.boot /\ answer' # None =>
                   ~device'.on \/ device'.manualFaulted
    BY DEF AnswersTruly
  <1> QED
    BY <1>1, <1>2, WebInvariance, PTL DEF WebSpec, AnswersAreTrue
=============================================================================
