----------------------------- MODULE NetworkManager ----------------------------
(* NetworkManager: keeps the access point of the device up and, beside it, tries  *)
(* the known networks in turn.  One step makes at most one call of the radio's     *)
(* driver, which is external: a call may fail, the access point may go down, and   *)
(* a station ends up where it pleases.                                           *)
EXTENDS Naturals, Absence

CONSTANTS
    Profiles,       \* number of known networks
    ApInterval,     \* ap_check_interval_ms
    StationPoll,    \* station_poll_interval_ms
    ConnectTimeout, \* connection_timeout_ms
    ProfileGap,     \* profile_gap_ms
    RoundBackoff,   \* round_backoff_ms
    MaxBackoff,     \* MAX_ROUND_BACKOFF_MS
    MaxExponent,    \* MAX_BACKOFF_EXPONENT
    MaxNetMishaps   \* bound: failed calls and losses of the access point

ASSUME NetworkAssumption ==
    /\ {Profiles, MaxNetMishaps} \subseteq Nat
    /\ {ApInterval, StationPoll, ProfileGap, RoundBackoff, MaxBackoff, MaxExponent}
          \subseteq Nat \ {0}
    /\ ConnectTimeout \in Nat /\ ConnectTimeout >= StationPoll

VARIABLES
    net,        \* the manager; deadlines are the ticks left
    radio,      \* the access point is really up
    passed,     \* how often in a row each side was due and the other was served
    netMishaps

netVars == <<net, radio, passed, netMishaps>>

(* Phases in which both sides are looked after; "ap" only repairs. *)
Supervised == {"running", "station_prepare", "disconnect"}

NetInit ==
    /\ net = [life |-> "running", phase |-> "hostname", action |-> 0, check |-> 0, poll |-> 0,
              since |-> 0, deferred |-> FALSE, resume |-> None, resumeIn |-> 0,
              index |-> 0, exponent |-> 0, link |-> "idle", ap |-> FALSE]
    /\ radio = FALSE
    /\ passed = [ap |-> 0, station |-> 0]
    /\ netMishaps = 0

-------------------------------------------------------------------------------
ActionDue == net.action = 0
CheckDue == net.phase \in Supervised /\ net.check = 0

(* Faulty: the access point always comes first. *)
NeverStationFirst == FALSE

(* A station whose action waited for one check of the access point comes first.    *)
StationFirst == CheckDue /\ ActionDue /\ net.deferred

Runs == net.life = "running"

ApTurn == Runs /\ CheckDue /\ ~StationFirst
StationTurn == Runs /\ net.phase \in Supervised /\ ActionDue /\ (~CheckDue \/ StationFirst)

CallFails == netMishaps < MaxNetMishaps /\ netMishaps' = netMishaps + 1

(* What the station was about to do goes on when the access point is back. *)
Remembered(n) ==
    IF n.phase \in Supervised
    THEN [n EXCEPT !.resume = n.phase, !.resumeIn = n.action]
    ELSE n

ApFailed(n) ==
    [Remembered(n) EXCEPT !.ap = FALSE, !.deferred = FALSE, !.phase = "ap",
                          !.action = ApInterval]

ApLost(n) == [ApFailed(n) EXCEPT !.action = 0, !.check = ApInterval]

(* After a repair: a live link is kept, an interrupted phase resumed. *)
Repaired(n) ==
    LET live == n.link = "got_ip"
        phase == IF live THEN "running"
                 ELSE IF n.resume # None THEN n.resume
                 ELSE IF Profiles > 0 THEN "station_prepare" ELSE "running"
    IN [n EXCEPT !.ap = TRUE, !.check = ApInterval, !.deferred = FALSE,
                 !.phase = phase,
                 !.action = IF n.resume # None THEN n.resumeIn ELSE 0,
                 !.resume = None, !.resumeIn = 0]

-------------------------------------------------------------------------------
(* The access point. *)

Hostname ==
    /\ Runs /\ net.phase = "hostname" /\ ActionDue
    /\ net' = [net EXCEPT !.phase = "ap"]
    /\ UNCHANGED <<radio, passed, netMishaps>>

EnsureAp ==
    /\ Runs /\ net.phase = "ap" /\ ActionDue
    /\ \/ /\ radio' = TRUE /\ net' = Repaired(net)
          /\ UNCHANGED netMishaps
       \/ /\ CallFails /\ net' = ApFailed(net)
          /\ UNCHANGED radio
    /\ passed' = [passed EXCEPT !.ap = 0]

CheckAp ==
    /\ ApTurn
    /\ \/ /\ radio
          /\ net' = [net EXCEPT !.ap = TRUE, !.check = ApInterval,
                                !.deferred = ActionDue /\ Profiles > 0]
          /\ passed' = [ap |-> 0, station |-> IF net'.deferred THEN passed.station + 1
                                              ELSE passed.station]
          /\ UNCHANGED netMishaps
       \/ /\ ~radio /\ net' = ApLost(net)
          /\ passed' = [passed EXCEPT !.ap = 0]
          /\ UNCHANGED netMishaps
       \/ /\ CallFails /\ net' = ApFailed(net)
          /\ passed' = [passed EXCEPT !.ap = 0]
    /\ UNCHANGED radio

-------------------------------------------------------------------------------
(* The station. *)

(* The station is served: the access point has been passed over if it was due.     *)
ForStation ==
    /\ StationTurn
    /\ passed' = [station |-> 0, ap |-> IF CheckDue THEN passed.ap + 1 ELSE passed.ap]
    /\ UNCHANGED radio

Taken == [net EXCEPT !.deferred = @ /\ ~StationFirst]

PrepareStation ==
    /\ ForStation /\ net.phase = "station_prepare"
    /\ \/ /\ net' = [Taken EXCEPT !.phase = "running", !.action = 0]
          /\ UNCHANGED netMishaps
       \/ CallFails /\ net' = [Taken EXCEPT !.action = ProfileGap]

Backoff(exponent) ==
    LET delay == RoundBackoff * 2 ^ (exponent - 1)
    IN IF delay > MaxBackoff THEN MaxBackoff ELSE delay

(* The next network after a gap, the first one after a growing pause. *)
NextProfile(n) ==
    LET grown == IF n.exponent < MaxExponent THEN n.exponent + 1 ELSE n.exponent
    IN IF Profiles = 0 THEN [n EXCEPT !.action = 0]
       ELSE IF n.index + 1 < Profiles
       THEN [n EXCEPT !.index = @ + 1, !.action = ProfileGap]
       ELSE [n EXCEPT !.index = 0, !.exponent = grown, !.action = Backoff(grown)]

DisconnectStation ==
    /\ ForStation /\ net.phase = "disconnect"
    /\ \/ /\ net' = NextProfile([Taken EXCEPT !.link = "idle",
                                    !.phase = IF Profiles > 0 THEN "station_prepare"
                                              ELSE "running"])
          /\ UNCHANGED netMishaps
       \/ CallFails /\ net' = [Taken EXCEPT !.action = ProfileGap]

NoStation ==
    /\ ForStation /\ net.phase = "running" /\ Profiles = 0
    /\ net' = [Taken EXCEPT !.action = net.check]
    /\ UNCHANGED netMishaps

Dropped(n) == [n EXCEPT !.phase = "disconnect", !.action = 0]

(* The link is looked at when its poll is due; what was known of it is gone        *)
(* before the driver is asked.                                                  *)
PollStation ==
    /\ ForStation /\ net.phase = "running" /\ net.link \in {"connecting", "got_ip"}
    /\ LET polled == [Taken EXCEPT !.poll = StationPoll, !.action = StationPoll]
       IN \/ /\ net.poll > 0
             /\ net' = [Taken EXCEPT !.action = net.poll]
             /\ UNCHANGED netMishaps
          \/ /\ net.poll = 0
             /\ \/ net' = [polled EXCEPT !.link = "got_ip", !.exponent = 0]
                \/ net' = IF net.since >= ConnectTimeout
                          THEN Dropped([polled EXCEPT !.link = "connecting"])
                          ELSE [polled EXCEPT !.link = "connecting"]
                \/ net' = Dropped([polled EXCEPT !.link = "failed"])
             /\ UNCHANGED netMishaps
          \/ /\ net.poll = 0 /\ CallFails
             /\ net' = Dropped([Taken EXCEPT !.link = "idle"])

ConnectStation ==
    /\ ForStation /\ net.phase = "running" /\ Profiles > 0
    /\ net.link \notin {"connecting", "got_ip"}
    /\ \/ net' = [Taken EXCEPT !.link = "connecting", !.since = 0, !.poll = StationPoll,
                               !.action = StationPoll]
       \/ net' = Dropped(Taken)
    /\ UNCHANGED netMishaps

-------------------------------------------------------------------------------
(* Memory runs out in a call, or the driver breaks its contract: nothing more is    *)
(* done, and the product never resets it.                                        *)
NetBreaks ==
    /\ Runs /\ (ActionDue \/ CheckDue) /\ CallFails
    /\ net' = [net EXCEPT !.life = "faulted"]
    /\ UNCHANGED <<radio, passed>>

NetClose ==
    /\ net.life # "closed"
    /\ net' = [net EXCEPT !.life = "closed", !.phase = "closed", !.resume = None,
                          !.ap = FALSE, !.link = "idle"]
    /\ radio' = FALSE
    /\ UNCHANGED <<passed, netMishaps>>

RadioDrops ==
    /\ radio /\ CallFails
    /\ radio' = FALSE
    /\ UNCHANGED <<net, passed>>

Less(t) == IF t = 0 THEN 0 ELSE t - 1

NetTick ==
    /\ Runs
    /\ net' = [net EXCEPT !.action = Less(@), !.check = Less(@), !.poll = Less(@),
                          !.resumeIn = Less(@),
                          !.since = IF @ < ConnectTimeout THEN @ + 1 ELSE @]
    /\ net' # net
    /\ UNCHANGED <<radio, passed, netMishaps>>

NetStep ==
    \/ Hostname \/ EnsureAp \/ CheckAp
    \/ PrepareStation \/ DisconnectStation \/ NoStation \/ PollStation \/ ConnectStation

NetNext == NetStep \/ NetBreaks \/ NetClose \/ RadioDrops \/ NetTick

NetSpec == NetInit /\ [][NetNext]_netVars

(* The product's loop steps the manager, and time passes. *)
NetFairness == WF_netVars(NetStep) /\ WF_netVars(NetTick)

LiveNetSpec == NetSpec /\ NetFairness

-------------------------------------------------------------------------------
NetTypeOK ==
    /\ net.phase \in Supervised \cup {"hostname", "ap", "closed"}
    /\ net.resume \in Supervised \cup {None}
    /\ net.link \in {"idle", "connecting", "got_ip", "failed"}
    /\ net.index \in 0 .. Profiles
    /\ net.exponent \in 0 .. MaxExponent
    /\ radio \in BOOLEAN

(* A due check of the access point is passed over for the station once and no       *)
(* more, and the station waits for one good check and no more, however late and      *)
(* however seldom the loop comes round.                                           *)
NeitherStarves == passed.ap <= 1 /\ passed.station <= 1

Tried(i) == net.index = i /\ (net.link = "connecting" \/ net.phase = "disconnect")

(* "fairly rotating bounded STA profiles" beside an access point that is repaired: while  *)
(* the manager works, the access point is up again and again, and while no link is up     *)
(* every known network is tried again and again - whatever interrupts either side.       *)
NetworkGoesOn ==
    /\ []<>(radio \/ ~Runs)
    /\ \A i \in 0 .. Profiles - 1 : []<>(Tried(i) \/ net.link = "got_ip" \/ ~Runs)
===============================================================================
