----------------------------- MODULE DeviceProofs -----------------------------
(* Theorems about the single board: the owner of all services, the clock with its chip,  *)
(* the gate in front of the heater's line, the temperature sensors, and the radio with    *)
(* the manager that decides on it.  They share nothing; each part below is about one of   *)
(* them and stands alone.                                                           *)
EXTENDS ProductRuntime, RtcTimeBridge, TxGate, SensorAdapter, NetworkManager, WiFiPort,
        WellFoundedInduction, TLAPS

-----------------------------------------------------------------------------
(* What holds of the owner of all services, for any addresses: what every part of a   *)
(* round keeps, and hence every round, every failure inside one, and the shutdown.    *)

ProductFields == {"life", "opened", "armed", "restart", "network", "web", "diagnostics",
                  "changed", "uart", "stepped", "pending", "wanted", "seen", "heard", "ip",
                  "listener", "failed"}

Formed(p) == DOMAIN p = ProductFields

(* OFF has been asked for a change, and a change is over timers and commands. *)
AskedFor(p) ==
    /\ p.pending => p.changed /\ ~p.wanted
    /\ p.changed => ~p.armed
    /\ p.life = "starting" => ~p.changed /\ p.listener = None

(* A start that goes on has a stage to go on with. *)
Shaped(p) ==
    /\ p.life \in Lives
    /\ p.opened \in 0 .. 7 /\ (p.life = "starting" => p.opened < 7)
    /\ p.ip \in Addresses \cup {None} /\ p.listener \in Addresses \cup {None}
    /\ p.failed \in Addresses \cup {None}
    /\ p.seen \in {"unknown", "off", "on"} /\ p.uart \in {"closed", "open"}

Sound(p) == Formed(p) /\ AskedFor(p) /\ Shaped(p)

Bound(p) == p.network /\ p.web => p.listener \in {None, p.ip}

(* Between network and web of a round the listener may lag, but then it is heard of.   *)
Following(p) == p.network /\ p.web => p.heard \/ p.listener \in {None, p.ip}

ProductInv == Sound(product) /\ (product.life = "running" => Bound(product))

-------------------------------------------------------------------------------
(* The parts of a round. *)

LEMMA FencedKeeps ==
    ASSUME NEW p, Sound(p), NEW q \in Fenced(p)
    PROVE  /\ Sound(q) /\ q.life = p.life
           /\ q.network = p.network
           /\ q.web = p.web /\ q.listener = p.listener /\ q.ip = p.ip
  BY DEF Fenced, Sound, Formed, ProductFields, AskedFor, Shaped, Lives

LEMMA NetworkedKeeps ==
    ASSUME NEW p, Sound(p), Bound(p), NEW q \in Networked(p)
    PROVE  Sound(q) /\ q.life = p.life /\ Following(q)
<1> DEFINE Heard(ip) == [p EXCEPT !.heard = TRUE, !.ip = ip]
           heard == {Heard(ip) : ip \in Addresses \cup {None}}
           Lost(r) == [r EXCEPT !.network = FALSE]
<1>1. \A ip \in Addresses \cup {None} :
         Sound(Heard(ip)) /\ Heard(ip).life = p.life /\ Following(Heard(ip))
  BY DEF Sound, Formed, ProductFields, AskedFor, Shaped, Lives, Following
<1>2. \A r : Sound(r) => Sound(Lost(r)) /\ Lost(r).life = r.life /\ Following(Lost(r))
  BY DEF Sound, Formed, ProductFields, AskedFor, Shaped, Lives, Following
<1>3. CASE ~p.network
  BY <1>3 DEF Networked, Following
<1>4. CASE p.network
  <2>1. q \in heard \cup {Lost(r) : r \in heard \cup {p}}
    BY <1>4 DEF Networked
  <2>2. CASE q \in heard
    <3>1. PICK ip \in Addresses \cup {None} : q = Heard(ip)
      BY <2>2
    <3> HIDE DEF Heard
    <3> QED BY <3>1, <1>1
  <2>3. CASE q \notin heard
    <3>1. PICK r \in heard \cup {p} : q = Lost(r)
      BY <2>1, <2>3
    <3>2. Sound(r) /\ r.life = p.life
      <4>1. CASE r = p
        BY <4>1
      <4>2. CASE r \in heard
        <5>1. PICK ip \in Addresses \cup {None} : r = Heard(ip)
          BY <4>2
        <5> HIDE DEF Heard
        <5> QED BY <5>1, <1>1
      <4> QED BY <3>1, <4>1, <4>2
    <3> HIDE DEF Lost
    <3> QED BY <3>1, <3>2, <1>2
  <2> QED BY <2>2, <2>3
<1> QED BY <1>3, <1>4

LEMMA SyncedKeeps ==
    ASSUME NEW p, Sound(p), Following(p), p.life = "running", NEW q \in Synced(p)
    PROVE  Sound(q) /\ q.life = "running" /\ Bound(q)
<1>1. CASE ~p.heard
  BY <1>1 DEF Synced, Following, Bound
<1>2. CASE p.heard
  <2> DEFINE free == Detached(p)
  <2>1. /\ Sound(free) /\ free.life = p.life /\ free.ip = p.ip
        /\ free.listener \in {None, p.ip}
    BY DEF Detached, Sound, Formed, ProductFields, AskedFor, Shaped, Lives
  <2>2. \/ q = [free EXCEPT !.failed = None] /\ p.ip = None
        \/ q = free
        \/ q = [free EXCEPT !.listener = p.ip, !.failed = None] /\ p.ip # None
        \/ q = [free EXCEPT !.failed = p.ip] /\ p.ip # None
    BY <1>2 DEF Synced
  <2>3. p.ip \in Addresses \cup {None}
    BY DEF Sound, Shaped
  <2> HIDE DEF free
  <2>4. /\ Sound([free EXCEPT !.failed = None])
        /\ Sound([free EXCEPT !.listener = p.ip, !.failed = None]) \/ p.life # "running"
        /\ Sound([free EXCEPT !.failed = p.ip])
    BY <2>1, <2>3 DEF Sound, Formed, ProductFields, AskedFor, Shaped
  <2>5. Sound(q)
    BY <2>1, <2>2, <2>4
  <2>6. q.life = "running" /\ Bound(q)
    BY <2>1, <2>2 DEF Sound, Formed, ProductFields, Bound
  <2> QED BY <2>5, <2>6
<1> QED BY <1>1, <1>2

LEMMA ServedKeeps ==
    ASSUME NEW p, Sound(p), Bound(p), p.life = "running", NEW q \in Served(p)
    PROVE  Sound(q) /\ q.life = "running" /\ Bound(q)
  BY DEF Served, MayStart, Sound, Formed, ProductFields, AskedFor, Shaped, Lives, Bound

LEMMA WebbedKeeps ==
    ASSUME NEW p, Sound(p), Following(p), p.life = "running", NEW q \in Webbed(p)
    PROVE  Sound(q) /\ q.life = "running" /\ Bound(q)
<1> DEFINE served == UNION {Served(r) : r \in Synced(p)}
           Ended(r) == [r EXCEPT !.web = FALSE]
<1>1. CASE ~p.web
  BY <1>1 DEF Webbed, Bound
<1>2. \A r \in served : Sound(r) /\ r.life = "running" /\ Bound(r)
  <2> SUFFICES ASSUME NEW r \in served
               PROVE  Sound(r) /\ r.life = "running" /\ Bound(r)
    OBVIOUS
  <2>1. PICK s \in Synced(p) : r \in Served(s)
    OBVIOUS
  <2>2. Sound(s) /\ s.life = "running" /\ Bound(s)
    BY SyncedKeeps
  <2> QED BY <2>1, <2>2, ServedKeeps
<1>3. \A r : Sound(r) => Sound(Ended(r)) /\ Ended(r).life = r.life /\ Bound(Ended(r))
  BY DEF Sound, Formed, ProductFields, AskedFor, Shaped, Lives, Bound
<1>4. CASE p.web
  <2>1. q \in served \cup {Ended(r) : r \in {p} \cup served}
    BY <1>4 DEF Webbed
  <2> HIDE DEF served
  <2>2. CASE q \notin served
    <3>1. PICK r \in {p} \cup served : q = Ended(r)
      BY <2>1, <2>2
    <3> HIDE DEF Ended
    <3> QED BY <3>1, <1>2, <1>3
  <2> QED BY <2>2, <1>2
<1> QED BY <1>1, <1>4

LEMMA ScheduledKeeps ==
    ASSUME NEW p, Sound(p), NEW q \in Scheduled(p)
    PROVE  /\ Sound(q) /\ q.life = p.life
           /\ Bound(p) => Bound(q)
  BY DEF Scheduled, Sound, Formed, ProductFields, AskedFor, Shaped, Lives, Bound

LEMMA AskedToStopKeeps ==
    ASSUME NEW p, Sound(p)
    PROVE  /\ Sound(AskedToStop(p)) /\ AskedToStop(p).life = p.life
           /\ Bound(p) => Bound(AskedToStop(p))
  BY DEF AskedToStop, Sound, Formed, ProductFields, AskedFor, Shaped, Lives, Bound

LEMMA HeatedKeeps ==
    ASSUME NEW p, Sound(p), NEW q \in Heated(p)
    PROVE  /\ Sound(q) /\ q.life = p.life
           /\ Bound(p) => Bound(q)
<1>1. PICK s \in {p.seen, Actual, "unknown"}, stays \in BOOLEAN : q = Stepped(p, s, stays)
  BY DEF Heated
<1>2. s \in {"unknown", "off", "on"}
  BY DEF Actual, Sound, Shaped
<1> DEFINE asked == AskedToStop(p)
<1>3. Sound(asked) /\ asked.life = p.life /\ (Bound(p) => Bound(asked))
  BY AskedToStopKeeps
<1> HIDE DEF asked
<1>4. /\ Sound(Stepped(p, s, stays)) /\ Stepped(p, s, stays).life = p.life
      /\ Bound(p) => Bound(Stepped(p, s, stays))
  <2> DEFINE w == asked.wanted /\ stays
             r == [asked EXCEPT !.stepped = TRUE, !.seen = s, !.wanted = w]
  <2>1. Stepped(p, s, stays) = r
    BY DEF Stepped, asked
  <2>2. w => asked.wanted
    OBVIOUS
  <2> HIDE DEF w
  <2>3. DOMAIN asked = ProductFields
    BY <1>3 DEF Sound, Formed
  <2>4. DOMAIN r = ProductFields
    BY <2>3
  <2>5. /\ r.life = asked.life /\ r.pending = asked.pending /\ r.changed = asked.changed
        /\ r.armed = asked.armed /\ r.listener = asked.listener /\ r.ip = asked.ip
        /\ r.opened = asked.opened /\ r.failed = asked.failed /\ r.uart = asked.uart
        /\ r.network = asked.network /\ r.web = asked.web /\ r.seen = s /\ r.wanted = w
    BY <2>3 DEF ProductFields
  <2> HIDE DEF r
  <2>6. Sound(r)
    BY <1>2, <1>3, <2>2, <2>4, <2>5 DEF Sound, Formed, AskedFor, Shaped
  <2> QED BY <1>3, <2>1, <2>5, <2>6 DEF Bound
<1> QED BY <1>1, <1>4

(* What a round has come to before each of its parts. *)
LEMMA BeforeKeeps ==
    ASSUME ProductInv, product.life = "running",
           NEW part \in {"sensor", "network", "web", "scheduler", "heater"},
           NEW p \in Before(part)
    PROVE  /\ Sound(p) /\ p.life = "running"
           /\ part = "heater" => Bound(p)
<1> DEFINE fenced == Fenced(product)
           networked == UNION {Networked(q) : q \in fenced}
           webbed == UNION {Webbed(q) : q \in networked}
           scheduled == UNION {Scheduled(q) : q \in webbed}
<1>1. \A q \in fenced : Sound(q) /\ q.life = "running" /\ Bound(q)
  BY FencedKeeps DEF ProductInv, Bound
<1>2. \A q \in networked : Sound(q) /\ q.life = "running" /\ Following(q)
  <2> HIDE DEF fenced
  <2> QED BY <1>1, NetworkedKeeps
<1>3. \A q \in webbed : Sound(q) /\ q.life = "running" /\ Bound(q)
  <2> HIDE DEF networked
  <2> QED BY <1>2, WebbedKeeps
<1>4. \A q \in scheduled : Sound(q) /\ q.life = "running" /\ Bound(q)
  <2> HIDE DEF webbed
  <2> QED BY <1>3, ScheduledKeeps
<1>5. \/ p = product /\ part = "sensor"
      \/ p \in fenced /\ part \in {"sensor", "network"}
      \/ p \in networked /\ part = "web"
      \/ p \in webbed \cup scheduled /\ part = "scheduler"
      \/ p \in scheduled /\ part = "heater"
  BY DEF Before
<1> HIDE DEF fenced, networked, webbed, scheduled
<1> QED BY <1>1, <1>2, <1>3, <1>4, <1>5 DEF ProductInv

-------------------------------------------------------------------------------
(* The actions. *)

LEMMA ProductInitSafe == ProductInit => ProductInv
<1> SUFFICES ASSUME ProductInit PROVE ProductInv
  OBVIOUS
<1>1. Formed(product)
  BY DEF ProductInit, Formed, ProductFields
<1>2. AskedFor(product) /\ Bound(product) /\ Shaped(product)
  BY DEF ProductInit, AskedFor, Bound, Shaped, Lives
<1> QED BY <1>1, <1>2 DEF ProductInv, Sound

LEMMA StartStageKeeps == ProductInv /\ StartStage => ProductInv'
<1> SUFFICES ASSUME ProductInv, StartStage PROVE ProductInv'
  OBVIOUS
<1> DEFINE n == product.opened + 1
           next == [product EXCEPT !.opened = n]
<1>1. /\ n \in 1 .. 7 /\ Sound(product) /\ product.life = "starting"
  BY DEF ProductInv, StartStage, Sound, Shaped
<1> HIDE DEF n
<1>2. /\ Formed(next) /\ AskedFor(next) /\ next.life = "starting" /\ next.listener = None
      /\ next.opened = n
      /\ next.ip = product.ip /\ next.failed = product.failed
      /\ next.seen = product.seen /\ next.uart = product.uart
  BY <1>1 DEF Sound, Formed, ProductFields, AskedFor
<1>3. product' = Opened(product, Stages[n])
  BY DEF StartStage, n
<1>4. CASE n = 7
  <2>1. Stages[n] = "timers"
    BY <1>4 DEF Stages
  <2>2. product' = [next EXCEPT !.armed = TRUE, !.life = "running"]
    BY <1>3, <2>1 DEF Opened, n
  <2> HIDE DEF next
  <2>3. Sound(product)'
    BY <1>1, <1>2, <2>2 DEF Sound, Formed, ProductFields, AskedFor, Shaped, Lives
  <2>4. Bound(product)'
    BY <1>2, <2>2 DEF Bound, Formed, ProductFields
  <2> QED BY <2>3, <2>4 DEF ProductInv
<1>5. CASE n # 7
  <2>1. Stages[n] # "timers"
    <3>1. n \in {1, 2, 3, 4, 5, 6}
      BY <1>1, <1>5
    <3> QED BY <3>1 DEF Stages
  <2>2. \/ product' = next
        \/ product' = [next EXCEPT !.uart = "open"]
        \/ product' = [next EXCEPT !.network = TRUE]
        \/ product' = [next EXCEPT !.diagnostics = TRUE]
        \/ product' = [next EXCEPT !.web = TRUE]
    BY <1>3, <2>1 DEF Opened, n
  <2>3. Shaped(next)
    BY <1>1, <1>2, <1>5 DEF Sound, Shaped
  <2> HIDE DEF next
  <2>4. Sound(product)' /\ product'.life = "starting"
    BY <1>2, <2>2, <2>3 DEF Sound, Formed, ProductFields, AskedFor, Shaped
  <2> QED BY <2>4 DEF ProductInv
<1> QED BY <1>4, <1>5

(* What leaves the loop or the start needs to be sound only. *)
LEMMA LeftIsInvariant ==
    ASSUME Sound(product)', product'.life # "running"
    PROVE  ProductInv'
  BY DEF ProductInv, Sound, Formed, AskedFor, Shaped, Bound

LEMMA TornDownIsSound ==
    ASSUME NEW p, Sound(p)
    PROVE  Sound(TornDown(p)) /\ TornDown(p).life = "closed"
  BY DEF TornDown, Sound, Formed, ProductFields, AskedFor, Shaped, Lives

LEMMA StoppingIsSound ==
    ASSUME NEW p, Sound(p)
    PROVE  Sound(Stopping(p)) /\ Stopping(p).life = "stopping"
  BY DEF Stopping, Sound, Formed, ProductFields, AskedFor, Shaped, Lives

LEMMA HeaterBrokenIsSound ==
    ASSUME NEW p, Sound(p)
    PROVE  Sound(HeaterBroken(p)) /\ HeaterBroken(p).life = p.life
  BY AskedToStopKeeps DEF HeaterBroken, Sound, Formed, ProductFields, AskedFor, Shaped, Lives

LEMMA StartFailsKeeps == ProductInv /\ StartFails => ProductInv'
<1> SUFFICES ASSUME ProductInv, StartFails PROVE ProductInv'
  OBVIOUS
<1>1. Sound(TornDown(product)) /\ TornDown(product).life = "closed"
  BY TornDownIsSound DEF ProductInv
<1>2. product' = TornDown(product)
  BY DEF StartFails
<1>3. Sound(product)' /\ product'.life # "running"
  BY <1>1, <1>2 DEF Sound, Formed, AskedFor, Shaped
<1> QED BY <1>3, LeftIsInvariant

LEMMA RoundKeeps == ProductInv /\ Round => ProductInv'
<1> SUFFICES ASSUME ProductInv, Round PROVE ProductInv'
  OBVIOUS
<1>1. PICK p \in Before("heater") : \E q \in Heated(p) : product' \in Diagnosed(q)
  BY DEF Round
<1>2. Sound(p) /\ p.life = "running" /\ Bound(p)
  BY BeforeKeeps DEF Round
<1>3. PICK q \in Heated(p) : product' \in Diagnosed(q)
  BY <1>1
<1>4. Sound(q) /\ q.life = "running" /\ Bound(q)
  BY <1>2, HeatedKeeps
<1> QED BY <1>3, <1>4
  DEF Diagnosed, ProductInv, Sound, Formed, ProductFields, AskedFor, Shaped, Lives, Bound

LEMMA RoundFailsKeeps == ProductInv /\ RoundFails => ProductInv'
<1> SUFFICES ASSUME ProductInv, RoundFails PROVE ProductInv'
  OBVIOUS
<1> SUFFICES Sound(product)' /\ product'.life # "running"
  BY LeftIsInvariant
<1>1. CASE \E part \in {"sensor", "network", "web", "scheduler"} :
             \E p \in Before(part) : product' = Stopping(p)
  <2>1. PICK part \in {"sensor", "network", "web", "scheduler"} :
            \E p \in Before(part) : product' = Stopping(p)
    BY <1>1
  <2>2. PICK p \in Before(part) : product' = Stopping(p)
    BY <2>1
  <2>3. Sound(p)
    BY BeforeKeeps DEF RoundFails
  <2> QED BY <2>2, <2>3, StoppingIsSound DEF Sound, Formed, AskedFor, Shaped
<1>2. CASE \E p \in Before("heater") : product' = Stopping(HeaterBroken(p))
  <2>1. PICK p \in Before("heater") : product' = Stopping(HeaterBroken(p))
    BY <1>2
  <2>2. Sound(p)
    BY BeforeKeeps DEF RoundFails
  <2>3. Sound(HeaterBroken(p))
    BY <2>2, HeaterBrokenIsSound
  <2> QED BY <2>1, <2>3, StoppingIsSound DEF Sound, Formed, AskedFor, Shaped
<1>3. CASE \E p \in Before("heater") : \E q \in Heated(p) : product' = Stopping(q)
  <2>1. PICK p \in Before("heater") : \E q \in Heated(p) : product' = Stopping(q)
    BY <1>3
  <2>2. Sound(p)
    BY BeforeKeeps DEF RoundFails
  <2>3. PICK q \in Heated(p) : product' = Stopping(q)
    BY <2>1
  <2>4. Sound(q)
    BY <2>2, HeatedKeeps
  <2> QED BY <2>3, <2>4, StoppingIsSound DEF Sound, Formed, AskedFor, Shaped
<1> QED BY <1>1, <1>2, <1>3 DEF RoundFails

LEMMA ShutDownKeeps == ProductInv /\ ShutDown => ProductInv'
<1> SUFFICES ASSUME ProductInv, ShutDown PROVE ProductInv'
  OBVIOUS
<1> DEFINE asked == [product EXCEPT !.armed = FALSE, !.wanted = FALSE]
           Ends(q) == IF SafeToClose(q) THEN TornDown(q) ELSE q
<1>1. Sound(asked) /\ asked.life = "stopping"
  BY DEF ProductInv, ShutDown, Sound, Formed, ProductFields, AskedFor, Shaped, Lives
<1>2. \A q : Sound(q) /\ q.life = "stopping" => Sound(Ends(q)) /\ Ends(q).life # "running"
  BY TornDownIsSound
<1>3. PICK q : /\ q \in Heated(asked) \/ q = HeaterBroken(asked) \/ q = asked
               /\ product' = Ends(q)
  BY DEF ShutDown
<1>4. Sound(q) /\ q.life = "stopping"
  <2> HIDE DEF asked
  <2> QED BY <1>1, <1>3, HeatedKeeps, HeaterBrokenIsSound
<1>5. Sound(product)' /\ product'.life # "running"
  <2> HIDE DEF Ends
  <2> QED BY <1>2, <1>3, <1>4 DEF Sound, Formed, AskedFor, Shaped
<1> QED BY <1>5, LeftIsInvariant

LEMMA ProductSteps == ProductInv /\ [ProductNext]_productVars => ProductInv'
<1> SUFFICES ASSUME ProductInv, [ProductNext]_productVars PROVE ProductInv'
  OBVIOUS
<1>1. CASE BurnsOut \/ UNCHANGED productVars
  BY <1>1 DEF BurnsOut, productVars, ProductInv, Sound, Formed, AskedFor, Shaped, Bound
<1> QED
  BY <1>1, StartStageKeeps, StartFailsKeeps, RoundKeeps, RoundFailsKeeps, ShutDownKeeps
  DEF ProductNext

(* The invariant holds in every reachable state. *)
THEOREM ProductInvariance == ProductSpec => []ProductInv
BY ProductSteps, ProductInitSafe, PTL DEF ProductSpec

(* ... and the record has the values it may have (ProductRuntime!ProductTypeOK). *)
LEMMA ProductTyped == ProductInv => ProductTypeOK
<1>1. Len(Stages) = 7
  BY DEF Stages
<1> QED BY <1>1 DEF ProductInv, Sound, Shaped, ProductTypeOK

(* Once the heater's owner has asked for OFF because a change was saved, nothing wants  *)
(* heat again, in whatever part a round fails (ProductRuntime!ChangeEndsHeat: step()'s  *)
(* restart fence).                                                              *)
THEOREM ChangesEndHeat == ProductSpec => []ChangeEndsHeat
<1>1. ProductInv => ChangeEndsHeat
  BY DEF ProductInv, Sound, AskedFor, ChangeEndsHeat
<1> QED BY <1>1, ProductInvariance, PTL

(* After every round the station's listener has the station's address, or there is none *)
(* (ProductRuntime!ListenerIsCurrent: _sync_station_listener()).                    *)
THEOREM ListenersAreCurrent == ProductSpec => []ListenerIsCurrent
<1>1. ProductInv => ListenerIsCurrent
  BY DEF ProductInv, Bound, ListenerIsCurrent
<1> QED BY <1>1, ProductInvariance, PTL

-----------------------------------------------------------------------------
(* What holds of the clock and its chip for any deviations, any number of corrections *)
(* and any number of failed calls, resets and losses of power.                     *)

(* The service's fields agree. *)
ServiceAgrees ==
    /\ ts.clock \in {ts.utc, ts.utc + 1}
    /\ ts.valid <=> ts.shows # None
    /\ ts.pending # None => ts.pending = ts.utc /\ ts.valid

(* The lock is held over a call that restages or commits, and over nothing else; under  *)
(* it the time cannot be corrected.                                              *)
LockAgrees ==
    /\ ts.lock # None <=> bridge.phase \in {"restaging", "committing"}
    /\ ts.lock # None => ts.valid /\ ts.pending = None

(* A write that is being staged is wanted, unless it has been overtaken. *)
StagingAgrees ==
    bridge.phase = "staging" =>
        /\ bridge.before <= ts.utc
        /\ ts.utc = bridge.before => ts.pending = bridge.before
        /\ ts.pending # None \/ ts.volatile \/ ~ts.valid

(* What is about to be released is the present time. *)
CommittingAgrees == bridge.phase = "committing" => rtc.shows = ts.shows

RtcInv ==
    /\ RtcTypeOK
    /\ ServiceAgrees /\ LockAgrees /\ StagingAgrees /\ CommittingAgrees
    /\ TimersRunOnKeptTime /\ BelievedIsWhole

Services ==
    [valid : BOOLEAN, shows : Deviations \cup {None}, clock : 0 .. MaxUtcRevision + 1,
     utc : Revisions, health : {"unknown", "ok", "error"}, pending : Revisions \cup {None},
     lock : Revisions \cup {None}, volatile : BOOLEAN]

Bridges ==
    [phase : BridgePhases, before : Revisions, clock : 0 .. MaxUtcRevision + 1,
     commit : Revisions \cup {None}, faulted : BOOLEAN]

Chips == [shows : Deviations \cup {None}, eosc : BOOLEAN, osf : BOOLEAN]

(* What a step of the chip owes: ReleasesAreCurrent. *)
ReleaseIsCurrent ==
    rtc.eosc /\ Believed(rtc') => ts.valid /\ rtc'.shows = ts.shows

Kept == RtcInv' /\ ReleaseIsCurrent

-------------------------------------------------------------------------------
(* After the boot *)
LEMMA NewTyped ==
    ASSUME 0 \in Revisions, 0 \in 0 .. MaxUtcRevision + 1
    PROVE  NewTimeService \in Services /\ NewBridge \in Bridges
<1>1. NewTimeService \in Services
  BY DEF NewTimeService, Services
<1>2. NewBridge \in Bridges
  BY DEF NewBridge, Bridges, BridgePhases
<1> QED BY <1>1, <1>2

(* A correction, or the loss of the time, is one revision more; the revision of the   *)
(* clock is never two ahead.                                                       *)
LEMMA NextRevision ==
    ASSUME RtcInv, ts.utc < MaxUtcRevision
    PROVE  /\ ts.utc + 1 \in Revisions /\ ts.utc + 1 # None
           /\ ts.clock + 1 \in 0 .. MaxUtcRevision + 1
           /\ ts.clock + 1 \in {ts.utc + 1, (ts.utc + 1) + 1}
           /\ ts.utc \in Nat
<1>1. ts.utc \in Revisions /\ ts.clock \in {ts.utc, ts.utc + 1}
  BY DEF RtcInv, RtcTypeOK, ServiceAgrees
<1> QED BY <1>1, ClockAssumption DEF Revisions

LEMMA RtcInitSafe == RtcInit => RtcInv
<1> SUFFICES ASSUME RtcInit PROVE RtcInv
  OBVIOUS
<1>1. RtcTypeOK
  <2>1. 0 \in Revisions /\ 0 \in 0 .. MaxUtcRevision + 1 /\ 0 \in 0 .. MaxMishaps
    BY ClockAssumption DEF Revisions
  <2>2. NewTimeService \in Services /\ NewBridge \in Bridges
    BY <2>1, NewTyped
  <2>3. rtc \in Chips
    BY DEF RtcInit, Chips
  <2> QED BY <2>1, <2>2, <2>3 DEF RtcInit, RtcTypeOK, Services, Bridges, Chips
<1>2. ServiceAgrees /\ LockAgrees /\ StagingAgrees /\ CommittingAgrees
  BY DEF RtcInit, NewTimeService, NewBridge, ServiceAgrees, LockAgrees, StagingAgrees,
         CommittingAgrees
<1>3. TimersRunOnKeptTime /\ BelievedIsWhole
  BY ClockAssumption
  DEF RtcInit, NewTimeService, TimersRunOnKeptTime, TimerTrusted, BelievedIsWhole, Believed
<1> QED BY <1>1, <1>2, <1>3 DEF RtcInv

(* The time service by itself, while no call holds the lock. *)
LEMMA CorrectKeeps == RtcInv /\ Correct => Kept
<1> SUFFICES ASSUME RtcInv, Correct PROVE Kept
  OBVIOUS
<1>1. PICK d \in Deviations : ts' = Corrected(ts, d) \/ ts' = CorrectedForThisBoot(ts, d)
  BY DEF Correct
<1>2. ts.lock = None /\ ts.utc < MaxUtcRevision /\ UNCHANGED <<bridge, rtc, mishaps>>
  BY DEF Correct, Correctable
<1>3. /\ ts'.valid = TRUE /\ ts'.shows = d /\ ts'.clock = ts.clock + 1 /\ ts'.utc = ts.utc + 1
      /\ ts'.lock = None
      /\ \/ ts'.pending = ts.utc + 1
         \/ ts'.pending = None /\ ts'.volatile = TRUE
      /\ ts' \in Services
  <2>1. ts \in Services
    BY DEF RtcInv, RtcTypeOK, Services
  <2>2. ts.utc + 1 \in Revisions /\ ts.clock + 1 \in 0 .. MaxUtcRevision + 1
    BY <1>2, NextRevision
  <2>3. ASSUME NEW c \in 0 .. MaxUtcRevision + 1, NEW u \in Revisions,
               ts' = [ts EXCEPT !.valid = TRUE, !.shows = d, !.clock = c, !.utc = u,
                                !.pending = u, !.volatile = FALSE]
        PROVE  /\ ts' \in Services
               /\ ts'.valid = TRUE /\ ts'.shows = d /\ ts'.clock = c /\ ts'.utc = u
               /\ ts'.pending = u /\ ts'.lock = ts.lock
    BY <2>1, <2>3 DEF Services
  <2>4. ASSUME NEW c \in 0 .. MaxUtcRevision + 1, NEW u \in Revisions,
               ts' = [[ts EXCEPT !.valid = TRUE, !.shows = d, !.clock = c, !.utc = u,
                                 !.pending = u, !.volatile = FALSE]
                          EXCEPT !.pending = None, !.volatile = TRUE]
        PROVE  /\ ts' \in Services
               /\ ts'.valid = TRUE /\ ts'.shows = d /\ ts'.clock = c /\ ts'.utc = u
               /\ ts'.pending = None /\ ts'.volatile = TRUE /\ ts'.lock = ts.lock
    BY <2>1, <2>4 DEF Services
  <2>5. CASE ts' = Corrected(ts, d)
    BY <1>2, <2>2, <2>3, <2>5, Zenon DEF Corrected
  <2>6. CASE ts' = CorrectedForThisBoot(ts, d)
    BY <1>2, <2>2, <2>4, <2>6, Zenon DEF Corrected, CorrectedForThisBoot
  <2> QED BY <1>1, <2>5, <2>6
<1>4. RtcTypeOK'
  BY <1>2, <1>3 DEF RtcInv, RtcTypeOK, Services
<1>5. ServiceAgrees' /\ LockAgrees' /\ StagingAgrees' /\ CommittingAgrees'
  BY <1>2, <1>3, ClockAssumption
  DEF RtcInv, RtcTypeOK, ServiceAgrees, LockAgrees, StagingAgrees, CommittingAgrees, Revisions
<1>6. TimersRunOnKeptTime' /\ BelievedIsWhole' /\ ReleaseIsCurrent
  BY <1>2, <1>3, ClockAssumption
  DEF RtcInv, RtcTypeOK, TimersRunOnKeptTime, TimerTrusted, BelievedIsWhole, Believed,
      ReleaseIsCurrent, Revisions
<1> QED BY <1>4, <1>5, <1>6 DEF Kept, RtcInv

LEMMA InvalidateKeeps == RtcInv /\ Invalidate => Kept
<1> SUFFICES ASSUME RtcInv, Invalidate PROVE Kept
  OBVIOUS
<1>1. ts.lock = None /\ ts.utc < MaxUtcRevision /\ UNCHANGED <<bridge, rtc, mishaps>>
  BY DEF Invalidate, Correctable
<1>2. /\ ts'.valid = FALSE /\ ts'.shows = None /\ ts'.clock = ts.clock + 1
      /\ ts'.utc = ts.utc + 1 /\ ts'.lock = None /\ ts'.pending = None
      /\ ts' \in Services
  <2>1. ts \in Services
    BY DEF RtcInv, RtcTypeOK, Services
  <2>2. ts.utc + 1 \in Revisions /\ ts.clock + 1 \in 0 .. MaxUtcRevision + 1
    BY <1>1, NextRevision
  <2>3. ASSUME NEW c \in 0 .. MaxUtcRevision + 1, NEW u \in Revisions,
               ts' = [ts EXCEPT !.valid = FALSE, !.shows = None, !.clock = c, !.utc = u,
                                !.health = "error", !.pending = None, !.volatile = FALSE]
        PROVE  /\ ts' \in Services
               /\ ts'.valid = FALSE /\ ts'.shows = None /\ ts'.clock = c /\ ts'.utc = u
               /\ ts'.pending = None /\ ts'.lock = ts.lock
    BY <2>1, <2>3 DEF Services
  <2> QED BY <1>1, <2>2, <2>3, Zenon DEF Invalidate, Invalidated
<1>3. RtcTypeOK'
  BY <1>1, <1>2 DEF RtcInv, RtcTypeOK, Services
<1>4. ServiceAgrees' /\ LockAgrees' /\ StagingAgrees' /\ CommittingAgrees'
  BY <1>1, <1>2, ClockAssumption
  DEF RtcInv, RtcTypeOK, ServiceAgrees, LockAgrees, StagingAgrees, CommittingAgrees, Revisions
<1>5. TimersRunOnKeptTime' /\ BelievedIsWhole' /\ ReleaseIsCurrent
  BY <1>1, <1>2
  DEF RtcInv, TimersRunOnKeptTime, TimerTrusted, BelievedIsWhole, Believed, ReleaseIsCurrent
<1> QED BY <1>3, <1>4, <1>5 DEF Kept, RtcInv

LEMMA ConfigureKeeps == RtcInv /\ ConfigureTimezone => Kept
<1> SUFFICES ASSUME RtcInv, ConfigureTimezone PROVE Kept
  OBVIOUS
<1>1. /\ ts.clock = ts.utc /\ UNCHANGED <<bridge, rtc, mishaps>>
      /\ ts' = [ts EXCEPT !.clock = ts.clock + 1]
  BY DEF ConfigureTimezone
<1>2. RtcTypeOK'
  BY <1>1, ClockAssumption DEF RtcInv, RtcTypeOK, Revisions
<1>3. ServiceAgrees' /\ LockAgrees' /\ StagingAgrees' /\ CommittingAgrees'
  BY <1>1
  DEF RtcInv, RtcTypeOK, ServiceAgrees, LockAgrees, StagingAgrees, CommittingAgrees
<1>4. TimersRunOnKeptTime' /\ BelievedIsWhole' /\ ReleaseIsCurrent
  BY <1>1
  DEF RtcInv, RtcTypeOK, TimersRunOnKeptTime, TimerTrusted, BelievedIsWhole, Believed,
      ReleaseIsCurrent
<1> QED BY <1>2, <1>3, <1>4 DEF Kept, RtcInv

-------------------------------------------------------------------------------
(* The bridge, up to its call of the port. *)

LEMMA BeginReadKeeps == RtcInv /\ BeginRead => Kept
<1> SUFFICES ASSUME RtcInv, BeginRead PROVE Kept
  OBVIOUS
<1>1. /\ bridge.phase = "idle" /\ UNCHANGED <<ts, rtc, mishaps>>
      /\ bridge' = [bridge EXCEPT !.phase = "reading", !.before = ts.utc, !.clock = ts.clock]
  BY DEF BeginRead, Ready, Calling
<1>2. RtcTypeOK'
  BY <1>1 DEF RtcInv, RtcTypeOK, BridgePhases
<1>3. ServiceAgrees' /\ LockAgrees' /\ StagingAgrees' /\ CommittingAgrees'
  BY <1>1
  DEF RtcInv, RtcTypeOK, ServiceAgrees, LockAgrees, StagingAgrees, CommittingAgrees
<1>4. TimersRunOnKeptTime' /\ BelievedIsWhole' /\ ReleaseIsCurrent
  BY <1>1 DEF RtcInv, TimersRunOnKeptTime, TimerTrusted, BelievedIsWhole, Believed,
              ReleaseIsCurrent
<1> QED BY <1>2, <1>3, <1>4 DEF Kept, RtcInv

LEMMA BeginWriteKeeps == RtcInv /\ BeginWrite => Kept
<1> SUFFICES ASSUME RtcInv, BeginWrite PROVE Kept
  OBVIOUS
<1>1. /\ bridge.phase = "idle" /\ ts.pending # None /\ UNCHANGED <<ts, rtc, mishaps>>
      /\ bridge' = [[bridge EXCEPT !.phase = "staging", !.before = ts.utc, !.clock = ts.clock]
                        EXCEPT !.commit = None]
  BY DEF BeginWrite, Ready, Calling
<1>2. RtcTypeOK'
  BY <1>1 DEF RtcInv, RtcTypeOK, BridgePhases
<1>3. ServiceAgrees' /\ LockAgrees' /\ StagingAgrees' /\ CommittingAgrees'
  BY <1>1
  DEF RtcInv, RtcTypeOK, Revisions, ServiceAgrees, LockAgrees, StagingAgrees, CommittingAgrees
<1>4. TimersRunOnKeptTime' /\ BelievedIsWhole' /\ ReleaseIsCurrent
  BY <1>1 DEF RtcInv, TimersRunOnKeptTime, TimerTrusted, BelievedIsWhole, Believed,
              ReleaseIsCurrent
<1> QED BY <1>2, <1>3, <1>4 DEF Kept, RtcInv

LEMMA ResumeKeeps == RtcInv /\ ResumeCommit => Kept
<1> SUFFICES ASSUME RtcInv, ResumeCommit PROVE Kept
  OBVIOUS
<1>1. /\ bridge.phase = "idle" /\ bridge.commit # None /\ ts.pending = None
      /\ UNCHANGED <<rtc, mishaps>>
  BY DEF ResumeCommit, Ready
<1>2. CASE ts.valid /\ ts.utc = bridge.commit
  <2>1. /\ ts' = [ts EXCEPT !.lock = bridge.commit]
        /\ bridge' = [bridge EXCEPT !.phase = "restaging", !.before = ts.utc,
                                    !.clock = ts.clock]
    BY <1>2 DEF ResumeCommit, Calling
  <2>2. RtcTypeOK'
    BY <1>1, <2>1 DEF RtcInv, RtcTypeOK, BridgePhases
  <2>3. ServiceAgrees' /\ LockAgrees' /\ StagingAgrees' /\ CommittingAgrees'
    BY <1>1, <1>2, <2>1
    DEF RtcInv, RtcTypeOK, ServiceAgrees, LockAgrees, StagingAgrees, CommittingAgrees
  <2>4. TimersRunOnKeptTime' /\ BelievedIsWhole' /\ ReleaseIsCurrent
    BY <1>1, <2>1
    DEF RtcInv, RtcTypeOK, TimersRunOnKeptTime, TimerTrusted, BelievedIsWhole, Believed,
        ReleaseIsCurrent
  <2> QED BY <2>2, <2>3, <2>4 DEF Kept, RtcInv
<1>3. CASE ~(ts.valid /\ ts.utc = bridge.commit)
  <2>1. /\ ts' = [ts EXCEPT !.health = "error"]
        /\ bridge' = [bridge EXCEPT !.faulted = TRUE]
    BY <1>3 DEF ResumeCommit, ErrorReported
  <2>2. RtcTypeOK'
    BY <1>1, <2>1 DEF RtcInv, RtcTypeOK
  <2>3. ServiceAgrees' /\ LockAgrees' /\ StagingAgrees' /\ CommittingAgrees'
    BY <1>1, <2>1
    DEF RtcInv, RtcTypeOK, ServiceAgrees, LockAgrees, StagingAgrees, CommittingAgrees
  <2>4. TimersRunOnKeptTime' /\ BelievedIsWhole' /\ ReleaseIsCurrent
    BY <1>1, <2>1
    DEF RtcInv, RtcTypeOK, TimersRunOnKeptTime, TimerTrusted, BelievedIsWhole, Believed,
        ReleaseIsCurrent
  <2> QED BY <2>2, <2>3, <2>4 DEF Kept, RtcInv
<1> QED BY <1>2, <1>3

-------------------------------------------------------------------------------
(* A call that fails leaves an unlocked, idle bridge and a time that is not trusted,     *)
(* whatever of the chip it has changed, if the chip remains whole.                 *)
LEMMA UnsuccessfulKeeps ==
    ASSUME RtcInv, Unsuccessful,
           rtc' \in [shows : Deviations \cup {None}, eosc : BOOLEAN, osf : BOOLEAN],
           BelievedIsWhole', ReleaseIsCurrent
    PROVE  Kept
<1>1. /\ bridge'.phase = "idle"
      /\ bridge' \in [phase : BridgePhases, before : Revisions,
                      clock : 0 .. MaxUtcRevision + 1,
                      commit : Revisions \cup {None}, faulted : BOOLEAN]
  BY DEF RtcInv, RtcTypeOK, Unsuccessful, CallFailed, CallBroke, Rest, BridgePhases
<1>2. ts' = [[ts EXCEPT !.lock = None] EXCEPT !.health = "error"]
  BY DEF Unsuccessful, CallFailed, CallBroke, ErrorReported, Unlocked
<1>3. mishaps' \in 0 .. MaxMishaps
  BY ClockAssumption
  DEF RtcInv, RtcTypeOK, Unsuccessful, CallFailed, CallBroke, Mishap
<1>4. RtcTypeOK'
  BY <1>1, <1>2, <1>3 DEF RtcInv, RtcTypeOK
<1>5. ServiceAgrees' /\ LockAgrees' /\ StagingAgrees' /\ CommittingAgrees'
  BY <1>1, <1>2
  DEF RtcInv, RtcTypeOK, ServiceAgrees, LockAgrees, StagingAgrees, CommittingAgrees
<1>6. TimersRunOnKeptTime'
  BY <1>2 DEF RtcInv, RtcTypeOK, TimersRunOnKeptTime, TimerTrusted
<1> QED BY <1>4, <1>5, <1>6 DEF Kept, RtcInv

(* While a write is staged the chip is marked, so that it is not believed. *)
LEMMA PartlyStagedIsWhole ==
    ASSUME RtcInv, NEW d \in Deviations \cup {None}, NEW r \in PartlyStaged(rtc, d)
    PROVE  /\ r \in [shows : Deviations \cup {None}, eosc : BOOLEAN, osf : BOOLEAN]
           /\ Believed(r) => r = rtc
  BY DEF RtcInv, RtcTypeOK, PartlyStaged, Staged, Marked, Believed

LEMMA StagedValuesTyped ==
    ASSUME RtcInv
    PROVE  StagedValues \subseteq Deviations \cup {None}
  BY DEF RtcInv, RtcTypeOK, StagedValues

(* What is released shows the present time. *)
LEMMA PartlyCommittedIsWhole ==
    ASSUME RtcInv, bridge.phase = "committing", NEW r \in PartlyCommitted(rtc)
    PROVE  /\ r \in [shows : Deviations \cup {None}, eosc : BOOLEAN, osf : BOOLEAN]
           /\ r.shows = ts.shows /\ ts.valid /\ ts.shows # None
  BY DEF RtcInv, RtcTypeOK, PartlyCommitted, Committed, Released, ServiceAgrees, LockAgrees,
         CommittingAgrees

LEMMA ReadReturnsKeeps == RtcInv /\ ReadReturns => Kept
<1> SUFFICES ASSUME RtcInv, ReadReturns PROVE Kept
  OBVIOUS
<1>1. UNCHANGED rtc /\ ReleaseIsCurrent /\ BelievedIsWhole'
  BY DEF RtcInv, ReadReturns, ReleaseIsCurrent, BelievedIsWhole, Believed
<1>2. bridge.phase = "reading" /\ ts.lock = None
  BY DEF RtcInv, LockAgrees, ReadReturns
<1>3. CASE Unsuccessful
  BY <1>1, <1>3, UnsuccessfulKeeps DEF RtcInv, RtcTypeOK, Services
<1>4. ASSUME bridge' = Rest(bridge), UNCHANGED mishaps,
             ts' \in Services,
             ts'.lock = None, ServiceAgrees', TimersRunOnKeptTime'
      PROVE  Kept
  <2>1. /\ bridge'.phase = "idle"
        /\ bridge' \in [phase : BridgePhases, before : Revisions,
                        clock : 0 .. MaxUtcRevision + 1,
                        commit : Revisions \cup {None}, faulted : BOOLEAN]
    BY <1>4 DEF RtcInv, RtcTypeOK, Rest, BridgePhases
  <2>2. RtcTypeOK'
    BY <1>1, <1>4, <2>1 DEF RtcInv, RtcTypeOK, Services
  <2>3. LockAgrees' /\ StagingAgrees' /\ CommittingAgrees'
    BY <1>4, <2>1 DEF LockAgrees, StagingAgrees, CommittingAgrees
  <2> QED BY <1>1, <1>4, <2>2, <2>3 DEF Kept, RtcInv
<1>5. CASE /\ Believed(rtc)
           /\ ~ClockMoved => ts.shows = rtc.shows \/ Correctable(ts)
           /\ ts' = IF ClockMoved THEN ts ELSE Refreshed(ts, rtc.shows)
           /\ bridge' = Rest(bridge)
           /\ UNCHANGED mishaps
  <2>1. CASE ClockMoved
    <3>1. ts' = ts
      BY <1>5, <2>1
    <3>2. ServiceAgrees' /\ TimersRunOnKeptTime'
      BY <1>1, <3>1
      DEF RtcInv, ServiceAgrees, TimersRunOnKeptTime, TimerTrusted, Believed
    <3> QED BY <1>2, <1>4, <1>5, <3>1, <3>2 DEF RtcInv, RtcTypeOK, Services
  <2>2. CASE ~ClockMoved /\ ts.valid /\ ts.shows = rtc.shows
    <3>1. ts' = [ts EXCEPT !.health = "ok"]
      BY <1>5, <2>2 DEF Refreshed
    <3>2. ServiceAgrees'
      BY <3>1 DEF RtcInv, RtcTypeOK, ServiceAgrees
    <3>3. TimersRunOnKeptTime'
      BY <1>1, <1>5, <2>2, <3>1 DEF RtcInv, RtcTypeOK, TimersRunOnKeptTime, Believed
    <3> QED BY <1>2, <1>4, <1>5, <3>1, <3>2, <3>3 DEF RtcInv, RtcTypeOK, Services
  <2>3. CASE ~ClockMoved /\ ~(ts.valid /\ ts.shows = rtc.shows)
    <3>1. ts' = CorrectedByRtc(ts, rtc.shows)
      BY <1>5, <2>3 DEF Refreshed
    <3>2. rtc.shows \in Deviations /\ rtc.shows # None
      BY <1>5, ClockAssumption DEF RtcInv, RtcTypeOK, BelievedIsWhole
    <3>3. ts.utc < MaxUtcRevision
      BY <1>5, <2>3, <3>2 DEF RtcInv, ServiceAgrees, Correctable
    <3>4. /\ ts'.valid = TRUE /\ ts'.shows = rtc.shows /\ ts'.clock = ts.clock + 1
          /\ ts'.utc = ts.utc + 1 /\ ts'.lock = ts.lock /\ ts'.pending = None
          /\ ts' \in Services
      <4>1. ts \in Services
        BY DEF RtcInv, RtcTypeOK, Services
      <4>2. ts.utc + 1 \in Revisions /\ ts.clock + 1 \in 0 .. MaxUtcRevision + 1
        BY <3>3, NextRevision
      <4>3. ASSUME NEW c \in 0 .. MaxUtcRevision + 1, NEW u \in Revisions,
                   ts' = [[ts EXCEPT !.valid = TRUE, !.shows = rtc.shows, !.clock = c, !.utc = u,
                                     !.pending = u, !.volatile = FALSE]
                              EXCEPT !.pending = None, !.health = "ok"]
            PROVE  /\ ts' \in Services
                   /\ ts'.valid = TRUE /\ ts'.shows = rtc.shows /\ ts'.clock = c /\ ts'.utc = u
                   /\ ts'.pending = None /\ ts'.lock = ts.lock
        BY <3>2, <4>1, <4>3 DEF Services
      <4> QED BY <3>1, <3>2, <4>2, <4>3, Zenon DEF Corrected, CorrectedByRtc
    <3>5. ServiceAgrees'
      BY <3>2, <3>4 DEF RtcInv, RtcTypeOK, ServiceAgrees, Revisions
    <3>6. TimersRunOnKeptTime'
      BY <1>1, <1>5, <3>4 DEF TimersRunOnKeptTime, Believed
    <3> QED BY <1>2, <1>4, <1>5, <3>4, <3>5, <3>6
  <2> QED BY <2>1, <2>2, <2>3
<1>6. CASE /\ ~Believed(rtc)
           /\ bridge' = Rest(bridge) /\ ts' = ErrorReported(ts)
           /\ UNCHANGED mishaps
  <2>1. ts' = [ts EXCEPT !.health = "error"]
    BY <1>6 DEF ErrorReported
  <2>2. ServiceAgrees' /\ TimersRunOnKeptTime'
    BY <2>1 DEF RtcInv, RtcTypeOK, ServiceAgrees, TimersRunOnKeptTime, TimerTrusted
  <2> QED BY <1>2, <1>4, <1>6, <2>1, <2>2 DEF RtcInv, RtcTypeOK, Services
<1> QED BY <1>3, <1>5, <1>6 DEF ReadReturns

LEMMA StageReturnsKeeps == RtcInv /\ StageReturns => Kept
<1> SUFFICES ASSUME RtcInv, StageReturns PROVE Kept
  OBVIOUS
<1>1. bridge.phase = "staging" /\ ts.lock = None
  BY DEF RtcInv, LockAgrees, StageReturns
<1>2. PICK d \in StagedValues :
        \/ /\ rtc' = Staged(rtc, d)
           /\ IF Lockable(ts, bridge.before)
              THEN /\ ts' = [WriteAccepted(ts) EXCEPT !.lock = bridge.before]
                   /\ bridge' = [bridge EXCEPT !.phase = "committing",
                                               !.commit = bridge.before]
              ELSE /\ UNCHANGED ts
                   /\ bridge' = Abandoned(bridge)
           /\ UNCHANGED mishaps
        \/ rtc' \in PartlyStaged(rtc, d) /\ Unsuccessful
  BY DEF StageReturns
<1>3. d \in Deviations \cup {None}
  BY StagedValuesTyped
<1>4. CASE rtc' \in PartlyStaged(rtc, d) /\ Unsuccessful
  <2>1. BelievedIsWhole' /\ ReleaseIsCurrent
    BY <1>3, <1>4, PartlyStagedIsWhole DEF RtcInv, BelievedIsWhole, ReleaseIsCurrent, Believed
  <2> QED BY <1>3, <1>4, <2>1, PartlyStagedIsWhole, UnsuccessfulKeeps
<1>5. ASSUME rtc' = Staged(rtc, d)
      PROVE  /\ rtc' \in [shows : Deviations \cup {None}, eosc : BOOLEAN, osf : BOOLEAN]
             /\ rtc'.eosc = TRUE /\ rtc'.shows = d
             /\ BelievedIsWhole' /\ ReleaseIsCurrent
  BY <1>3, <1>5
  DEF RtcInv, RtcTypeOK, Staged, Marked, BelievedIsWhole, ReleaseIsCurrent, Believed
<1>6. CASE /\ rtc' = Staged(rtc, d) /\ UNCHANGED mishaps /\ Lockable(ts, bridge.before)
           /\ ts' = [WriteAccepted(ts) EXCEPT !.lock = bridge.before]
           /\ bridge' = [bridge EXCEPT !.phase = "committing", !.commit = bridge.before]
  <2>1. ts.valid /\ ts.utc = bridge.before /\ d = ts.shows
    BY <1>6 DEF Lockable, StagedValues
  <2>2. ts' = [[ts EXCEPT !.pending = None, !.health = "ok"] EXCEPT !.lock = bridge.before]
    BY <1>6 DEF WriteAccepted
  <2>3. RtcTypeOK'
    BY <1>5, <1>6, <2>2 DEF RtcInv, RtcTypeOK, BridgePhases
  <2>9. bridge.before # None
    BY ClockAssumption DEF RtcInv, RtcTypeOK, Revisions
  <2>4. /\ bridge.before # None /\ bridge'.phase = "committing"
        /\ ts'.lock = bridge.before /\ ts'.pending = None
        /\ ts'.valid = ts.valid /\ ts'.shows = ts.shows /\ ts'.utc = ts.utc
        /\ ts'.clock = ts.clock
    BY <1>6, <2>2, <2>9 DEF RtcInv, RtcTypeOK
  <2>5. ServiceAgrees' /\ LockAgrees' /\ StagingAgrees'
    BY <2>1, <2>4 DEF RtcInv, ServiceAgrees, LockAgrees, StagingAgrees
  <2>6. CommittingAgrees'
    BY <1>5, <1>6, <2>1, <2>4 DEF CommittingAgrees
  <2>7. TimersRunOnKeptTime'
    BY <2>4 DEF TimersRunOnKeptTime, TimerTrusted
  <2> QED BY <1>5, <1>6, <2>3, <2>5, <2>6, <2>7 DEF Kept, RtcInv
<1>7. CASE /\ rtc' = Staged(rtc, d) /\ UNCHANGED <<ts, mishaps>>
           /\ bridge' = Abandoned(bridge)
  <2>1. bridge' = [[bridge EXCEPT !.phase = "idle"] EXCEPT !.commit = None]
    BY <1>7 DEF Abandoned, Rest
  <2>2. RtcTypeOK'
    BY <1>5, <1>7, <2>1 DEF RtcInv, RtcTypeOK, BridgePhases
  <2>3. ServiceAgrees' /\ LockAgrees' /\ StagingAgrees' /\ CommittingAgrees'
    BY <1>1, <1>7, <2>1
    DEF RtcInv, RtcTypeOK, ServiceAgrees, LockAgrees, StagingAgrees, CommittingAgrees
  <2>4. TimersRunOnKeptTime'
    BY <1>1, <1>7 DEF RtcInv, StagingAgrees, TimersRunOnKeptTime, TimerTrusted
  <2> QED BY <1>5, <1>7, <2>2, <2>3, <2>4 DEF Kept, RtcInv
<1> QED BY <1>2, <1>4, <1>6, <1>7

LEMMA RestageReturnsKeeps == RtcInv /\ RestageReturns => Kept
<1> SUFFICES ASSUME RtcInv, RestageReturns PROVE Kept
  OBVIOUS
<1>1. bridge.phase = "restaging" /\ ts.lock # None /\ ts.shows \in Deviations \cup {None}
  BY DEF RtcInv, RtcTypeOK, LockAgrees, RestageReturns
<1>2. CASE rtc' \in PartlyStaged(rtc, ts.shows) /\ Unsuccessful
  <2>1. BelievedIsWhole' /\ ReleaseIsCurrent
    BY <1>1, <1>2, PartlyStagedIsWhole DEF RtcInv, BelievedIsWhole, ReleaseIsCurrent, Believed
  <2> QED BY <1>1, <1>2, <2>1, PartlyStagedIsWhole, UnsuccessfulKeeps
<1>3. CASE /\ rtc' = Staged(rtc, ts.shows)
           /\ bridge' = [bridge EXCEPT !.phase = "committing"]
           /\ UNCHANGED <<ts, mishaps>>
  <2>1. /\ rtc' \in [shows : Deviations \cup {None}, eosc : BOOLEAN, osf : BOOLEAN]
        /\ rtc'.eosc = TRUE /\ rtc'.shows = ts.shows
        /\ BelievedIsWhole' /\ ReleaseIsCurrent
    BY <1>1, <1>3
    DEF RtcInv, RtcTypeOK, Staged, Marked, BelievedIsWhole, ReleaseIsCurrent, Believed
  <2>2. RtcTypeOK'
    BY <1>3, <2>1 DEF RtcInv, RtcTypeOK, BridgePhases
  <2>3. ServiceAgrees' /\ LockAgrees' /\ StagingAgrees' /\ CommittingAgrees'
    BY <1>1, <1>3, <2>1
    DEF RtcInv, RtcTypeOK, ServiceAgrees, LockAgrees, StagingAgrees, CommittingAgrees
  <2>4. TimersRunOnKeptTime'
    BY <1>1, <1>3 DEF TimersRunOnKeptTime, TimerTrusted
  <2> QED BY <2>1, <2>2, <2>3, <2>4 DEF Kept, RtcInv
<1> QED BY <1>2, <1>3 DEF RestageReturns

LEMMA CommitReturnsKeeps == RtcInv /\ CommitReturns => Kept
<1> SUFFICES ASSUME RtcInv, CommitReturns PROVE Kept
  OBVIOUS
<1>1. bridge.phase = "committing" /\ rtc' \in PartlyCommitted(rtc)
  BY DEF CommitReturns, PartlyCommitted
<1>2. /\ rtc' \in [shows : Deviations \cup {None}, eosc : BOOLEAN, osf : BOOLEAN]
      /\ rtc'.shows = ts.shows /\ ts.valid /\ ts.shows # None
  BY <1>1, PartlyCommittedIsWhole
<1>3. BelievedIsWhole' /\ ReleaseIsCurrent
  BY <1>2 DEF BelievedIsWhole, ReleaseIsCurrent, Believed
<1>4. CASE Unsuccessful
  BY <1>2, <1>3, <1>4, UnsuccessfulKeeps
<1>5. CASE /\ rtc' = Committed(rtc)
           /\ ts' = [Unlocked(ts) EXCEPT !.health = "ok"]
           /\ bridge' = Abandoned(bridge)
           /\ UNCHANGED mishaps
  <2>1. /\ bridge' = [[bridge EXCEPT !.phase = "idle"] EXCEPT !.commit = None]
        /\ ts' = [[ts EXCEPT !.lock = None] EXCEPT !.health = "ok"]
    BY <1>5 DEF Abandoned, Rest, Unlocked
  <2>2. RtcTypeOK'
    BY <1>2, <1>5, <2>1 DEF RtcInv, RtcTypeOK, BridgePhases
  <2>3. ServiceAgrees' /\ LockAgrees' /\ StagingAgrees' /\ CommittingAgrees'
    BY <1>1, <1>5, <2>1
    DEF RtcInv, RtcTypeOK, ServiceAgrees, LockAgrees, StagingAgrees, CommittingAgrees
  <2>4. Believed(rtc')
    BY <1>5 DEF RtcInv, RtcTypeOK, Believed, Committed, Released
  <2>5. TimersRunOnKeptTime'
    BY <1>2, <2>1, <2>4 DEF RtcInv, RtcTypeOK, TimersRunOnKeptTime, Believed
  <2> QED BY <1>3, <2>2, <2>3, <2>5 DEF Kept, RtcInv
<1> QED BY <1>4, <1>5 DEF CommitReturns

LEMMA ResetFaultKeeps == RtcInv /\ ResetFault => Kept
<1> SUFFICES ASSUME RtcInv, ResetFault PROVE Kept
  OBVIOUS
<1>1. UNCHANGED <<ts, rtc>> /\ bridge' = [bridge EXCEPT !.faulted = FALSE]
  BY DEF ResetFault
<1>2. RtcTypeOK'
  <2>1. mishaps' \in 0 .. MaxMishaps
    BY ClockAssumption DEF RtcInv, RtcTypeOK, ResetFault, Mishap
  <2> QED BY <1>1, <2>1 DEF RtcInv, RtcTypeOK
<1>3. ServiceAgrees' /\ LockAgrees' /\ StagingAgrees' /\ CommittingAgrees'
  BY <1>1
  DEF RtcInv, RtcTypeOK, ServiceAgrees, LockAgrees, StagingAgrees, CommittingAgrees
<1>4. TimersRunOnKeptTime' /\ BelievedIsWhole' /\ ReleaseIsCurrent
  BY <1>1 DEF RtcInv, TimersRunOnKeptTime, TimerTrusted, BelievedIsWhole, Believed,
              ReleaseIsCurrent
<1> QED BY <1>2, <1>3, <1>4 DEF Kept, RtcInv

(* A reset may cut a call short anywhere. *)
LEMMA InterruptedIsWhole ==
    ASSUME RtcInv, NEW r \in Interrupted(rtc)
    PROVE  /\ r \in [shows : Deviations \cup {None}, eosc : BOOLEAN, osf : BOOLEAN]
           /\ Believed(r) => r = rtc \/ (r.shows = ts.shows /\ ts.valid /\ ts.shows # None)
<1>1. CASE r = rtc
  BY <1>1 DEF RtcInv, RtcTypeOK
<1>2. CASE bridge.phase = "staging" /\ r # rtc
  <2>1. PICK d \in StagedValues : r \in PartlyStaged(rtc, d)
    BY <1>2 DEF Interrupted
  <2> QED BY <2>1, StagedValuesTyped, PartlyStagedIsWhole
<1>3. CASE bridge.phase = "restaging" /\ r # rtc
  <2>1. r \in PartlyStaged(rtc, ts.shows) /\ ts.shows \in Deviations \cup {None}
    BY <1>3 DEF Interrupted, RtcInv, RtcTypeOK
  <2> QED BY <2>1, PartlyStagedIsWhole
<1>4. CASE bridge.phase = "committing" /\ r # rtc
  <2>1. r \in PartlyCommitted(rtc)
    BY <1>4 DEF Interrupted
  <2> QED BY <1>4, <2>1, PartlyCommittedIsWhole
<1>5. CASE bridge.phase \notin {"staging", "restaging", "committing"}
  BY <1>1, <1>5 DEF Interrupted
<1> QED BY <1>1, <1>2, <1>3, <1>4, <1>5

LEMMA ResetKeeps == RtcInv /\ Reset => Kept
<1> SUFFICES ASSUME RtcInv, Reset PROVE Kept
  OBVIOUS
<1>1. ts' = NewTimeService /\ bridge' = NewBridge /\ Mishap
  BY DEF Reset
<1>2. PICK r \in Interrupted(rtc) : rtc' = r \/ rtc' = Stopped(r)
  BY DEF Reset
<1>3. /\ rtc' \in [shows : Deviations \cup {None}, eosc : BOOLEAN, osf : BOOLEAN]
      /\ Believed(rtc') => rtc' = rtc \/ (rtc'.shows = ts.shows /\ ts.valid /\ ts.shows # None)
  BY <1>2, InterruptedIsWhole DEF Stopped, Believed
<1>4. BelievedIsWhole' /\ ReleaseIsCurrent
  BY <1>3 DEF RtcInv, BelievedIsWhole, ReleaseIsCurrent, Believed
<1>5. RtcTypeOK'
  <2>1. 0 \in Revisions /\ 0 \in 0 .. MaxUtcRevision + 1
    BY ClockAssumption DEF Revisions
  <2>2. mishaps' \in 0 .. MaxMishaps
    BY <1>1, ClockAssumption DEF RtcInv, RtcTypeOK, Mishap
  <2>3. NewTimeService \in Services /\ NewBridge \in Bridges
    BY <2>1, NewTyped
  <2> QED BY <1>1, <1>3, <2>2, <2>3 DEF RtcTypeOK, Services, Bridges
<1>6. ServiceAgrees' /\ LockAgrees' /\ StagingAgrees' /\ CommittingAgrees'
  BY <1>1
  DEF NewTimeService, NewBridge, ServiceAgrees, LockAgrees, StagingAgrees, CommittingAgrees
<1>7. TimersRunOnKeptTime'
  BY <1>1 DEF NewTimeService, TimersRunOnKeptTime, TimerTrusted
<1> QED BY <1>4, <1>5, <1>6, <1>7 DEF Kept, RtcInv

-------------------------------------------------------------------------------
LEMMA RtcNextKeeps == RtcInv /\ [RtcNext]_rtcVars => RtcInv' /\ [ReleaseIsCurrent]_rtcVars
<1> SUFFICES ASSUME RtcInv, [RtcNext]_rtcVars
             PROVE  RtcInv' /\ [ReleaseIsCurrent]_rtcVars
  OBVIOUS
<1>1. CASE UNCHANGED rtcVars
  BY <1>1
  DEF rtcVars, RtcInv, RtcTypeOK, ServiceAgrees, LockAgrees, StagingAgrees, CommittingAgrees,
      TimersRunOnKeptTime, TimerTrusted, BelievedIsWhole, Believed
<1>2. CASE RtcNext
  <2>1. Kept
    BY <1>2, CorrectKeeps, InvalidateKeeps, ConfigureKeeps, BeginReadKeeps, BeginWriteKeeps,
       ResumeKeeps, ReadReturnsKeeps, StageReturnsKeeps, RestageReturnsKeeps,
       CommitReturnsKeeps, ResetFaultKeeps, ResetKeeps
    DEF RtcNext
  <2> QED BY <2>1 DEF Kept
<1> QED BY <1>1, <1>2

(* The invariant holds in every reachable state. *)
THEOREM RtcInvariance == RtcInitNext => []RtcInv
  BY RtcInitSafe, RtcNextKeeps, PTL DEF RtcInitNext

(* Timers run on a time that the chip has kept whole, whatever was corrected, failed or   *)
(* reset in between (RtcTimeBridge!ClockIsTrustworthy: snapshot()'s "timer_trusted").     *)
THEOREM ClocksAreTrustworthy == RtcInitNext => []ClockIsTrustworthy
<1>1. RtcInv => ClockIsTrustworthy
  BY DEF RtcInv, ClockIsTrustworthy
<1> QED BY <1>1, RtcInvariance, PTL

(* The write marker is lifted over the present time only (RtcTimeBridge!                 *)
(* ReleasesAreCurrent: begin_rtc_commit() compares the revisions).                   *)
THEOREM MarkersFallInTime == RtcInitNext => ReleasesAreCurrent
<1>1. [ReleaseIsCurrent]_rtcVars
        => [rtc.eosc /\ Believed(rtc') => ts.valid /\ rtc'.shows = ts.shows]_rtcVars
  BY DEF ReleaseIsCurrent
<1> QED BY <1>1, RtcInvariance, RtcNextKeeps, PTL DEF RtcInitNext, ReleasesAreCurrent

-----------------------------------------------------------------------------
(* The gate is shut between two calls, for any number of writes and of faults.         *)
(*                                                                               *)
(* What a call may end in is described by what a pin can do: a pin that has been       *)
(* driven is where it was sent, or the call has raised and cost a fault.  GateInv      *)
(* says that the pin is high only after the gate was given back, which costs three      *)
(* faults the last time the gate was open; a gate given back is never opened again.      *)

Gates == [pin : {"low", "high", "input"}, released : BOOLEAN, closed : BOOLEAN]

Outcomes == [gate : Gates, faults : Nat, raises : BOOLEAN]

GateInv ==
    /\ gate \in Gates
    /\ pinFaults \in Nat /\ pinFaults <= MaxPinFaults
    /\ gate.pin = "high" => gate.released /\ pinFaults >= 3

(* A pin may be driven to any level without changing what else there is of the gate. *)
LEMMA DriveOutcomes ==
    ASSUME NEW g \in Gates, NEW level \in {"low", "high", "input"}, NEW o \in Drive(g, level)
    PROVE  /\ o \in Outcomes
           /\ o.gate.released = g.released
           /\ o.gate.closed = g.closed
           /\ o.gate.pin = level \/ (o.gate.pin = g.pin /\ o.raises)
           /\ o.raises => o.faults = 1
  <1> DEFINE driven == [g EXCEPT !.pin = level]
  <1>1. driven \in Gates /\ driven.pin = level
        /\ driven.released = g.released /\ driven.closed = g.closed
    BY DEF Gates
  <1>2. o \in {Outcome(driven, 0, FALSE), Outcome(driven, 1, TRUE), Outcome(g, 1, TRUE)}
    BY DEF Drive
  <1> HIDE DEF driven
  <1>3. CASE o = Outcome(driven, 0, FALSE)
    BY <1>1, <1>3 DEF Outcome, Outcomes
  <1>4. CASE o = Outcome(driven, 1, TRUE)
    BY <1>1, <1>4 DEF Outcome, Outcomes
  <1>5. CASE o = Outcome(g, 1, TRUE)
    BY <1>5 DEF Outcome, Outcomes
  <1> QED BY <1>2, <1>3, <1>4, <1>5

(* disable() *)
LEMMA DisableOutcomes ==
    ASSUME NEW g \in Gates, NEW o \in Disable(g)
    PROVE  /\ o \in Outcomes
           /\ o.gate.released = g.released
           /\ o.gate.closed = g.closed
           /\ o.gate.pin = "high" => g.pin = "high"
           /\ g.released => o.gate = g /\ ~o.raises
           /\ ~g.released /\ ~o.raises => o.gate.pin = "low"
           /\ o.raises => o.faults = 1
  <1>1. CASE g.released
    <2>1. o = Outcome(g, 0, FALSE)
      BY <1>1 DEF Disable
    <2>2. o \in Outcomes /\ o.gate = g /\ o.raises = FALSE
      BY <2>1 DEF Outcome, Outcomes
    <2> QED BY <1>1, <2>2
  <1>2. CASE ~g.released
    <2>1. o \in Drive(g, "low")
      BY <1>2 DEF Disable
    <2>2. /\ o \in Outcomes
          /\ o.gate.released = g.released /\ o.gate.closed = g.closed
          /\ o.gate.pin = "low" \/ (o.gate.pin = g.pin /\ o.raises)
          /\ o.raises => o.faults = 1
      BY <2>1, DriveOutcomes
    <2> QED BY <1>2, <2>2
  <1> QED BY <1>1, <1>2

(* release() gives the pin back; it stays high only if two uses of the pin have failed. *)
LEMMA ReleaseOutcomes ==
    ASSUME NEW g \in Gates, NEW o \in Release(g)
    PROVE  /\ o \in Outcomes
           /\ o.gate.released
           /\ o.gate.closed = g.closed
           /\ g.released => o.gate = g
           /\ o.gate.pin = "high" => g.pin = "high"
           /\ ~g.released /\ o.gate.pin = "high" => o.faults >= 2
  <1>1. CASE g.released
    <2>1. o = Outcome(g, 0, FALSE)
      BY <1>1 DEF Release
    <2>2. o \in Outcomes /\ o.gate = g
      BY <2>1 DEF Outcome, Outcomes
    <2> QED BY <1>1, <2>2
  <1>2. CASE ~g.released
    <2>1. PICK f \in Disable(g) : \E s \in GivenBack(f.gate) :
              o = Outcome(s.gate, f.faults + s.faults, f.raises \/ s.raises)
      BY <1>2 DEF Release, Both
    <2>1a. PICK s \in GivenBack(f.gate) :
              o = Outcome(s.gate, f.faults + s.faults, f.raises \/ s.raises)
      BY <2>1
    <2>2. f \in Outcomes /\ f.gate \in Gates /\ f.gate.closed = g.closed
          /\ (f.gate.pin = "high" => g.pin = "high")
          /\ (~f.raises => f.gate.pin = "low") /\ (f.raises => f.faults = 1)
      BY <1>2, <2>1, DisableOutcomes DEF Outcomes
    <2>3. PICK d \in Drive(f.gate, "input") : s = [d EXCEPT !.gate.released = TRUE]
      BY <2>1a DEF GivenBack
    <2>4. d \in Outcomes /\ d.gate.closed = g.closed
          /\ (d.gate.pin = "input" \/ (d.gate.pin = f.gate.pin /\ d.raises))
          /\ (d.raises => d.faults = 1)
      BY <2>2, <2>3, DriveOutcomes
    <2>5. s \in Outcomes /\ s.gate.released /\ s.gate.closed = d.gate.closed
          /\ s.gate.pin = d.gate.pin /\ s.faults = d.faults /\ s.raises = d.raises
      BY <2>3, <2>4 DEF Outcomes, Gates
    <2>6. o.gate = s.gate /\ o.faults = f.faults + s.faults /\ o.raises = (f.raises \/ s.raises)
      BY <2>1a DEF Outcome
    <2>7. o \in Outcomes
      BY <2>1a, <2>2, <2>5 DEF Outcome, Outcomes
    <2>8. o.gate.pin = "high" => g.pin = "high" /\ o.faults >= 2
      <3> SUFFICES ASSUME o.gate.pin = "high"
                   PROVE  g.pin = "high" /\ o.faults >= 2
        OBVIOUS
      <3>1. d.gate.pin = "high"
        BY <2>5, <2>6
      <3>2. f.gate.pin = "high" /\ d.faults = 1
        BY <3>1, <2>4
      <3>3. f.faults = 1
        BY <3>2, <2>2
      <3> QED BY <3>2, <3>3, <2>2, <2>5, <2>6
    <2> QED BY <1>2, <2>4, <2>5, <2>6, <2>7, <2>8
  <1> QED BY <1>1, <1>2

(* The end of a write, with the gate open. *)
LEMMA ShutOutcomes ==
    ASSUME NEW g \in Gates, NEW o \in Shut(g)
    PROVE  /\ o \in Outcomes
           /\ o.gate.pin = "high" => g.pin = "high"
           /\ g.released => o.gate = g
           /\ ~g.released /\ o.gate.pin = "high" => o.gate.released /\ o.faults >= 3
  <1>1. CASE o \in Disable(g) /\ ~o.raises
    BY <1>1, DisableOutcomes
  <1>2. CASE ~(o \in Disable(g) /\ ~o.raises)
    <2>1. PICK t \in Disable(g) : \E r \in Release(t.gate) :
              t.raises /\ o = Outcome(r.gate, t.faults + r.faults, TRUE)
      BY <1>2 DEF Shut
    <2>1a. PICK r \in Release(t.gate) : o = Outcome(r.gate, t.faults + r.faults, TRUE)
      BY <2>1
    <2>2. t \in Outcomes /\ t.gate \in Gates /\ t.faults = 1 /\ ~g.released
          /\ ~t.gate.released /\ (t.gate.pin = "high" => g.pin = "high")
      BY <2>1, DisableOutcomes DEF Outcomes
    <2>3. r \in Outcomes /\ r.gate.released /\ (r.gate.pin = "high" => t.gate.pin = "high")
          /\ (r.gate.pin = "high" => r.faults >= 2)
      BY <2>1a, <2>2, ReleaseOutcomes
    <2>4. o.gate = r.gate /\ o.faults = t.faults + r.faults
      BY <2>1a DEF Outcome
    <2>5. o \in Outcomes
      BY <2>1a, <2>2, <2>3 DEF Outcome, Outcomes
    <2>6. r.faults \in Nat
      BY <2>3 DEF Outcomes
    <2> QED BY <2>2, <2>3, <2>4, <2>5, <2>6
  <1> QED BY <1>1, <1>2

(* enable() *)
LEMMA EnableOutcomes ==
    ASSUME NEW g \in Gates, NEW o \in Enable(g)
    PROVE  /\ o \in Outcomes
           /\ o.gate.released = g.released
           /\ g.released => o.gate = g
  <1>1. CASE g.released
    <2>1. o = Outcome(g, 0, TRUE)
      BY <1>1 DEF Enable
    <2>2. o \in Outcomes /\ o.gate = g /\ o.raises = TRUE
      BY <2>1 DEF Outcome, Outcomes
    <2> QED BY <1>1, <2>2
  <1>2. CASE ~g.released
    BY <1>2, DriveOutcomes DEF Enable
  <1> QED BY <1>1, <1>2

(* write() *)
LEMMA WriteShuts ==
    ASSUME GateInv, GateWrite
    PROVE  GateInv'
  <1>1. PICK f \in Enable(gate) : \E s \in Shut(f.gate) :
            /\ pinFaults' = pinFaults + (f.faults + s.faults)
            /\ gate' = s.gate
    <2>1. PICK o \in Both(Enable(gate), Shut) : pinFaults' = pinFaults + o.faults /\ gate' = o.gate
      BY DEF GateWrite, Comes
    <2> QED BY <2>1 DEF Both, Outcome
  <1>1a. PICK s \in Shut(f.gate) :
            /\ pinFaults' = pinFaults + (f.faults + s.faults)
            /\ gate' = s.gate
    BY <1>1
  <1>2. gate \in Gates /\ pinFaults \in Nat
    BY DEF GateInv
  <1>3. f \in Outcomes /\ f.gate \in Gates /\ f.gate.released = gate.released
        /\ (gate.released => f.gate = gate)
    BY <1>1, <1>2, EnableOutcomes DEF Outcomes
  <1>4. s \in Outcomes /\ (gate.released => s.gate = f.gate)
        /\ (~gate.released /\ s.gate.pin = "high" => s.gate.released /\ s.faults >= 3)
    BY <1>1a, <1>3, ShutOutcomes
  <1>5. s.gate \in Gates /\ s.faults \in Nat /\ f.faults \in Nat
    BY <1>3, <1>4 DEF Outcomes
  <1>6. gate'.pin = "high" => gate'.released /\ pinFaults' >= 3
    <2>1. CASE gate.released
      BY <2>1, <1>1a, <1>2, <1>3, <1>4, <1>5 DEF GateInv
    <2>2. CASE ~gate.released
      BY <2>2, <1>1a, <1>2, <1>4, <1>5
    <2> QED BY <2>1, <2>2
  <1>7. pinFaults' <= MaxPinFaults
    BY DEF GateWrite, Comes
  <1> QED BY <1>1a, <1>2, <1>5, <1>6, <1>7 DEF GateInv

(* deinit() *)
LEMMA DeinitShuts ==
    ASSUME GateInv, GateDeinit
    PROVE  GateInv'
  <1>1. PICK f \in Disable(gate) : \E s \in Release(f.gate) :
            /\ pinFaults' = pinFaults + (f.faults + s.faults)
            /\ gate' = [s.gate EXCEPT !.closed = TRUE]
    <2>1. PICK o \in Both(Disable(gate), Release) :
              pinFaults' = pinFaults + o.faults /\ gate' = [o.gate EXCEPT !.closed = TRUE]
      <3>1. PICK e \in {[o EXCEPT !.gate.closed = TRUE] : o \in Both(Disable(gate), Release)} :
                pinFaults' = pinFaults + e.faults /\ gate' = e.gate
        BY DEF GateDeinit, Comes
      <3>2. PICK o \in Both(Disable(gate), Release) : e = [o EXCEPT !.gate.closed = TRUE]
        BY <3>1
      <3>3. DOMAIN o = {"gate", "faults", "raises"}
        BY <3>2 DEF Both, Outcome
      <3>4. e.gate = [o.gate EXCEPT !.closed = TRUE] /\ e.faults = o.faults
        BY <3>2, <3>3
      <3> QED BY <3>1, <3>2, <3>4
    <2>2. PICK f \in Disable(gate) : \E s \in Release(f.gate) :
              o = Outcome(s.gate, f.faults + s.faults, f.raises \/ s.raises)
      BY DEF Both
    <2>3. PICK s \in Release(f.gate) :
              o = Outcome(s.gate, f.faults + s.faults, f.raises \/ s.raises)
      BY <2>2
    <2>4. o.gate = s.gate /\ o.faults = f.faults + s.faults
      BY <2>3 DEF Outcome
    <2> QED BY <2>1, <2>4
  <1>1a. PICK s \in Release(f.gate) :
            /\ pinFaults' = pinFaults + (f.faults + s.faults)
            /\ gate' = [s.gate EXCEPT !.closed = TRUE]
    BY <1>1
  <1>2. gate \in Gates /\ pinFaults \in Nat
    BY DEF GateInv
  <1>3. f \in Outcomes /\ f.gate \in Gates /\ (gate.released => f.gate = gate)
        /\ (f.gate.pin = "high" => gate.pin = "high")
    BY <1>1, <1>2, DisableOutcomes DEF Outcomes
  <1>4. s \in Outcomes /\ s.gate.released /\ (s.gate.pin = "high" => f.gate.pin = "high")
    BY <1>1a, <1>3, ReleaseOutcomes
  <1>5. s.gate \in Gates /\ s.faults \in Nat /\ f.faults \in Nat
    BY <1>3, <1>4 DEF Outcomes
  <1>6. gate' \in Gates /\ gate'.pin = s.gate.pin /\ gate'.released = s.gate.released
    BY <1>1a, <1>5 DEF Gates
  <1>7. gate'.pin = "high" => pinFaults >= 3
    BY <1>3, <1>4, <1>6 DEF GateInv
  <1>8. pinFaults' <= MaxPinFaults
    BY DEF GateDeinit, Comes
  <1> QED BY <1>1a, <1>2, <1>4, <1>5, <1>6, <1>7, <1>8 DEF GateInv

LEMMA GateStarts == GateInit => GateInv
BY GateAssumption DEF GateInit, GateInv, Gates

LEMMA GateSteps == GateInv /\ [GateNext]_gateVars => GateInv'
  <1> SUFFICES ASSUME GateInv, [GateNext]_gateVars
               PROVE  GateInv'
    OBVIOUS
  <1>1. CASE GateWrite
    BY <1>1, WriteShuts
  <1>2. CASE GateDeinit
    BY <1>2, DeinitShuts
  <1>3. CASE UNCHANGED gateVars
    BY <1>3 DEF gateVars, GateInv
  <1> QED BY <1>1, <1>2, <1>3 DEF GateNext

LEMMA GateTyped == GateInv => GateTypeOK
BY GateAssumption DEF GateInv, GateTypeOK, Gates

(* Between two calls of write() or deinit(), and after the last one, the pin of the     *)
(* gate is high only if it has failed three times.                                     *)
THEOREM GateStaysShut == GateSpec => []GateIsShut
  <1>1. GateInv => GateIsShut
    BY DEF GateInv, GateIsShut
  <1> QED BY <1>1, GateStarts, GateSteps, PTL DEF GateSpec

-----------------------------------------------------------------------------
(* What holds of the sensors, for any of them and any intervals: what the manager     *)
(* knows of a sensor only grows more suspicious, until the controller looks again.    *)

(* Every role that has a sensor has its reading.                                      *)
Supplied(m) ==
    /\ m \in Managers
    /\ \A role \in Roles : m.assigned[role] # None => m.reading[m.assigned[role]] # None

(* The assignment stays, a failure that was counted stays counted, and one that a    *)
(* role turns to is counted.                                                          *)
Rewrites(m, n) ==
    /\ Supplied(n)
    /\ n.assigned = m.assigned /\ n.revision = m.revision
    /\ \A rom \in Sensors :
          /\ (n.reading[rom] = None) <=> (m.reading[rom] = None)
          /\ m.reading[rom] # None /\ m.reading[rom].generation # 0 =>
                n.reading[rom].generation # 0
    /\ \A role \in Roles :
          m.assigned[role] # None /\ n.health[role] = "failed" /\ m.health[role] # "failed" =>
             n.reading[m.assigned[role]].generation # 0

(* No reading turns to the power-on value.                                            *)
NonePowersOn(m, n) ==
    \A rom \in Sensors :
       /\ m.reading[rom] # None /\ n.reading[rom] # None
       /\ n.reading[rom].value = "powerOn"
       => m.reading[rom].value = "powerOn"

(* No reading was written after a conversion that lies so far back.                   *)
WrittenBefore(m, conversion) ==
    \A rom \in Sensors :
       m.reading[rom] # None /\ m.reading[rom].updated # None =>
          m.reading[rom].updated >= conversion

(* As long as the assignment is the adopted one, so is the sensor, and an outage or a *)
(* failed role is counted.                                                            *)
Holds(m, role, rom, out) ==
    m.revision[role] = 0 =>
       /\ m.assigned[role] = rom /\ rom # None
       /\ out \/ m.health[role] = "failed" => m.reading[rom].generation # 0

HeldInv ==
    adopted # None =>
       /\ adopted.role \in Roles /\ adopted.rom \in Sensors /\ outage \in BOOLEAN
       /\ Holds(mgr, adopted.role, adopted.rom, outage)

AdapterFields == {"phase", "roms", "cycle", "trusted", "requested", "discovery", "next",
                  "conversion"}

Converted == ada.phase \in {"wait_conversion", "reading"}

AdapterInv ==
    /\ DOMAIN ada = AdapterFields
    /\ ada.trusted \subseteq steady
    /\ Converted => /\ ada.conversion \in -ConversionWait .. MaxLate
                    /\ WrittenBefore(mgr, ada.conversion)
    /\ ada.phase = "reading" => ada.conversion >= 0

SensorInv == Supplied(mgr) /\ AdapterInv /\ HeldInv

-------------------------------------------------------------------------------
(* The manager *)

LEMMA CountedIsOne ==
    ASSUME NEW n \in 0 .. MaxCount
    PROVE  Counted(n) \in 1 .. MaxCount
<1> DEFINE S == {n + 1, MaxCount}
<1>1. \E x \in S : \A y \in S : x <= y
  BY SensorAgesAssumption
<1>2. Counted(n) \in S /\ \A y \in S : Counted(n) <= y
  BY <1>1 DEF Counted, Min
<1> QED BY <1>2, SensorAgesAssumption

LEMMA RewritesChains ==
    ASSUME NEW m, Supplied(m), NEW n, NEW q, Rewrites(m, n), Rewrites(n, q)
    PROVE  Rewrites(m, q)
<1>1. ASSUME NEW role \in Roles, m.assigned[role] # None,
             q.health[role] = "failed", m.health[role] # "failed"
      PROVE  q.reading[m.assigned[role]].generation # 0
  <2>1. CASE n.health[role] = "failed"
    <3>1. n.reading[m.assigned[role]].generation # 0
      BY <1>1, <2>1 DEF Rewrites
    <3>2. m.assigned[role] \in Sensors
      BY <1>1 DEF Supplied, Managers
    <3>3. m.reading[m.assigned[role]] # None
      BY <1>1 DEF Supplied
    <3> QED BY <3>1, <3>2, <3>3 DEF Rewrites
  <2>2. CASE n.health[role] # "failed"
    BY <1>1, <2>2 DEF Rewrites
  <2> QED BY <2>1, <2>2
<1> QED BY <1>1 DEF Rewrites

LEMMA RewritesHold ==
    ASSUME NEW m, Supplied(m), NEW n, Rewrites(m, n),
           NEW role \in Roles, NEW rom \in Sensors, NEW out, Holds(m, role, rom, out)
    PROVE  Holds(n, role, rom, out)
<1> SUFFICES ASSUME n.revision[role] = 0
             PROVE  /\ n.assigned[role] = rom /\ rom # None
                    /\ out \/ n.health[role] = "failed" => n.reading[rom].generation # 0
  BY DEF Holds
<1>1. m.revision[role] = 0 /\ m.assigned[role] = rom /\ rom # None
  BY DEF Rewrites, Holds
<1>2. m.reading[rom] # None
  BY <1>1 DEF Supplied
<1> QED BY <1>1, <1>2 DEF Rewrites, Holds

(* Readings are written, and nothing else. *)
LEMMA WritesRewrite ==
    ASSUME NEW m, Supplied(m), NEW r \in [Sensors -> Readings \cup {None}],
           \A rom \in Sensors :
              /\ (r[rom] = None) <=> (m.reading[rom] = None)
              /\ m.reading[rom] # None => r[rom].generation = m.reading[rom].generation
    PROVE  LET n == [m EXCEPT !.reading = r]
           IN Rewrites(m, n) /\ n.reading = r /\ n.health = m.health
<1> DEFINE n == [m EXCEPT !.reading = r]
<1>1. n \in Managers /\ n.assigned = m.assigned /\ n.revision = m.revision
      /\ n.health = m.health /\ n.reading = r
  BY DEF Supplied, Managers
<1> HIDE DEF n
<1>2. \A role \in Roles : m.assigned[role] \in Sensors \cup {None}
  BY DEF Supplied, Managers
<1>3. Supplied(n)
  BY <1>1, <1>2 DEF Supplied
<1> QED BY <1>1, <1>3 DEF Rewrites, n

LEMMA RefreshRewrites ==
    ASSUME NEW m, Supplied(m), NEW roles \in SUBSET Roles, NEW ago
    PROVE  LET n == RefreshRoles(m, roles, ago)
           IN /\ Rewrites(m, n) /\ NonePowersOn(m, n)
              /\ \A rom \in Sensors :
                    m.reading[rom] # None => n.reading[rom].updated = m.reading[rom].updated
              /\ \A role \in roles : n.health[role] = Health(ReadingOf(m, role), ago)
<1> DEFINE current == [role \in Roles |-> Health(ReadingOf(m, role), ago)]
           turned == {role \in roles : current[role] = "failed" /\ m.health[role] # "failed"}
           h == [role \in Roles |-> IF role \in roles THEN current[role] ELSE m.health[role]]
           r == [rom \in Sensors |-> IF \E role \in turned : m.assigned[role] = rom
                                     THEN FailureCounted(m.reading[rom])
                                     ELSE m.reading[rom]]
           n == [m EXCEPT !.health = h, !.reading = r]
<1>1. RefreshRoles(m, roles, ago) = n
  BY DEF RefreshRoles
<1>2. current \in [Roles -> Healths]
  BY DEF Health, Healths
<1>3. h \in [Roles -> Healths]
  BY <1>2 DEF Supplied, Managers
<1>4. ASSUME NEW role \in turned
      PROVE  m.assigned[role] \in Sensors /\ m.reading[m.assigned[role]] # None
  <2>1. role \in Roles /\ Health(ReadingOf(m, role), ago) = "failed"
    BY <1>4
  <2>2. m.assigned[role] # None
    BY <2>1 DEF Health, ReadingOf
  <2> QED BY <2>1, <2>2 DEF Supplied, Managers
<1>5. \A rom \in Sensors : m.reading[rom] \in Readings \cup {None}
  BY DEF Supplied, Managers
<1>6. ASSUME NEW rom \in Sensors
      PROVE  /\ r[rom] \in Readings \cup {None}
             /\ (r[rom] = None) <=> (m.reading[rom] = None)
             /\ m.reading[rom] # None =>
                   /\ m.reading[rom].generation # 0 => r[rom].generation # 0
                   /\ r[rom].updated = m.reading[rom].updated
                   /\ r[rom].value = m.reading[rom].value
             /\ \A role \in turned : m.assigned[role] = rom => r[rom].generation # 0
  <2>1. CASE \E role \in turned : m.assigned[role] = rom
    <3>1. m.reading[rom] \in Readings
      BY <1>4, <1>5, <2>1
    <3> DEFINE g == Counted(m.reading[rom].generation)
               q == [m.reading[rom] EXCEPT !.generation = g]
    <3>2. g \in 1 .. MaxCount
      BY <3>1, CountedIsOne DEF Readings
    <3>3. r[rom] = q
      BY <2>1 DEF FailureCounted
    <3> HIDE DEF g, r
    <3>4. q \in Readings /\ q.generation = g /\ q.updated = m.reading[rom].updated
          /\ q.value = m.reading[rom].value
      BY <3>1, <3>2 DEF Readings
    <3> QED BY <3>1, <3>2, <3>3, <3>4, NoneIsNoReading
  <2>2. CASE ~\E role \in turned : m.assigned[role] = rom
    <3>1. r[rom] = m.reading[rom]
      BY <2>2
    <3> HIDE DEF r
    <3> QED BY <1>5, <2>2, <3>1
  <2> QED BY <2>1, <2>2
<1>7. r \in [Sensors -> Readings \cup {None}]
  <2>1. r = [rom \in Sensors |-> r[rom]]
    OBVIOUS
  <2> HIDE DEF r
  <2> QED BY <1>6, <2>1
<1>8. \A role \in Roles : h[role] = "failed" /\ m.health[role] # "failed" => role \in turned
  OBVIOUS
<1>9. \A role \in roles : h[role] = Health(ReadingOf(m, role), ago)
  OBVIOUS
<1> HIDE DEF current, h, r, turned
<1>10. n \in Managers /\ n.assigned = m.assigned /\ n.revision = m.revision
       /\ n.health = h /\ n.reading = r
  BY <1>3, <1>7 DEF Supplied, Managers
<1> HIDE DEF n
<1>11. \A role \in Roles : m.assigned[role] # None => m.assigned[role] \in Sensors
  BY DEF Supplied, Managers
<1>12. Supplied(n)
  BY <1>6, <1>10, <1>11 DEF Supplied
<1>13. Rewrites(m, n)
  BY <1>4, <1>6, <1>8, <1>10, <1>11, <1>12 DEF Rewrites
<1>14. NonePowersOn(m, n)
  BY <1>6, <1>10 DEF NonePowersOn
<1> QED BY <1>1, <1>6, <1>9, <1>10, <1>13, <1>14

Late == 0 .. MaxLate

LEMMA MissedIsTyped ==
    ASSUME NEW r \in Readings, NEW ago \in Late
    PROVE  /\ Missed(r, ago) \in Readings /\ Missed(r, ago).generation = r.generation
           /\ Missed(r, ago).value = r.value /\ Missed(r, ago).updated = ago
<1>1. ago \in Ages
  BY SensorAgesAssumption DEF Late, Ages, MaxAge
<1>2. MarkUnavailable(r, ago) \in Readings
      /\ MarkUnavailable(r, ago).generation = r.generation
      /\ MarkUnavailable(r, ago).value = r.value
  BY <1>1 DEF MarkUnavailable, Readings
<1> HIDE DEF MarkUnavailable
<1> QED BY <1>2 DEF Missed, Readings, Late

(* What the bus reports touches readings that there are, and refreshes roles.         *)
LEMMA MissingRewrites ==
    ASSUME NEW m, Supplied(m), NEW r \in [Sensors -> Readings \cup {None}],
           NEW roles \in SUBSET Roles, NEW since,
           \A rom \in Sensors :
              /\ (r[rom] = None) <=> (m.reading[rom] = None)
              /\ m.reading[rom] # None =>
                    /\ r[rom].generation = m.reading[rom].generation
                    /\ r[rom].value = m.reading[rom].value
    PROVE  LET n == RefreshRoles([m EXCEPT !.reading = r], roles, since)
           IN /\ Rewrites(m, n) /\ NonePowersOn(m, n)
              /\ \A rom \in Sensors :
                    m.reading[rom] # None => n.reading[rom].updated = r[rom].updated
<1> DEFINE w == [m EXCEPT !.reading = r]
           n == RefreshRoles(w, roles, since)
<1>1. Rewrites(m, w) /\ w.reading = r
  BY WritesRewrite
<1> HIDE DEF w
<1>0. Supplied(w)
  BY <1>1 DEF Rewrites
<1>2. /\ Rewrites(w, n) /\ NonePowersOn(w, n)
      /\ \A rom \in Sensors :
            w.reading[rom] # None => n.reading[rom].updated = w.reading[rom].updated
  BY <1>0, RefreshRewrites
<1> HIDE DEF n
<1>3. Rewrites(m, n)
  BY <1>1, <1>2, RewritesChains
<1>4. NonePowersOn(m, n)
  BY <1>1, <1>2 DEF NonePowersOn
<1> QED BY <1>1, <1>2, <1>3, <1>4 DEF w, n

LEMMA RecordFailureRewrites ==
    ASSUME NEW m, Supplied(m), NEW rom, NEW ago \in Late, WrittenBefore(m, ago)
    PROVE  LET n == RecordFailure(m, rom, ago)
           IN Rewrites(m, n) /\ NonePowersOn(m, n) /\ WrittenBefore(n, ago)
<1>1. CASE ~Recordable(m, rom, ago)
  BY <1>1 DEF RecordFailure, Rewrites, NonePowersOn
<1>2. CASE Recordable(m, rom, ago)
  <2> DEFINE q == Missed(m.reading[rom], ago)
             r == [m.reading EXCEPT ![rom] = q]
             w == [m EXCEPT !.reading = r]
             roles == {role \in Roles : w.assigned[role] = rom}
             n == RefreshRoles(w, roles, ago)
  <2>1. RecordFailure(m, rom, ago) = n
    BY <1>2 DEF RecordFailure, RefreshRom
  <2>2. m.reading \in [Sensors -> Readings \cup {None}]
    BY DEF Supplied, Managers
  <2>3. rom \in Sensors =>
           /\ q \in Readings /\ q.generation = m.reading[rom].generation
           /\ q.value = m.reading[rom].value /\ q.updated = ago
    BY <1>2, <2>2, MissedIsTyped DEF Recordable
  <2> HIDE DEF q
  <2>4. r \in [Sensors -> Readings \cup {None}]
    BY <2>2, <2>3
  <2>5. \A s \in Sensors :
           /\ (r[s] = None) <=> (m.reading[s] = None)
           /\ m.reading[s] # None =>
                 /\ r[s].generation = m.reading[s].generation
                 /\ r[s].value = m.reading[s].value
                 /\ r[s].updated \in {m.reading[s].updated, ago}
    BY <1>2, <2>2, <2>3, NoneIsNoReading DEF Recordable
  <2> HIDE DEF r
  <2>6. roles \in SUBSET Roles
    OBVIOUS
  <2> HIDE DEF roles
  <2>7. /\ Rewrites(m, n) /\ NonePowersOn(m, n)
        /\ \A s \in Sensors : m.reading[s] # None => n.reading[s].updated = r[s].updated
    BY <2>4, <2>5, <2>6, MissingRewrites
  <2> HIDE DEF w, n
  <2>8. WrittenBefore(n, ago)
    BY <2>5, <2>7 DEF Rewrites, WrittenBefore, Late
  <2> QED BY <2>1, <2>7, <2>8
<1> QED BY <1>1, <1>2

(* A sample that comes after a gap leaves the gap counted: first the role turns to     *)
(* failed, if it has not before.                                                      *)
LEMMA RecordValidRewrites ==
    ASSUME NEW m, Supplied(m), NEW rom, NEW value \in Values, NEW ago \in Late, WrittenBefore(m, ago)
    PROVE  LET n == RecordValid(m, rom, value, ago)
           IN /\ Rewrites(m, n) /\ WrittenBefore(n, ago)
              /\ \A s \in Sensors :
                    /\ m.reading[s] # None /\ n.reading[s] # None
                    /\ n.reading[s].value = "powerOn"
                    => m.reading[s].value = "powerOn" \/ (s = rom /\ value = "powerOn")
              /\ \A role \in Roles : \A out \in BOOLEAN :
                    /\ rom \in Sensors /\ m.reading[rom] # None
                    /\ Gap(m.reading[rom], ago) >= FailedAfter
                    /\ Holds(m, role, rom, out)
                    => Holds(n, role, rom, TRUE)
<1>1. CASE ~Recordable(m, rom, ago)
  <2>1. rom \in Sensors => m.reading[rom] = None
    BY <1>1 DEF Recordable, Precedes, WrittenBefore, Late, Supplied, Managers, Readings
  <2> QED BY <1>1, <2>1 DEF RecordValid, Rewrites
<1>2. CASE Recordable(m, rom, ago)
  <2> DEFINE overdue == Gap(m.reading[rom], ago) >= FailedAfter
             before == {role \in Roles : m.assigned[role] = rom}
             c == IF overdue THEN RefreshRom(m, rom, ago) ELSE m
             q == [c.reading[rom] EXCEPT !.value = value, !.valid = ago,
                                         !.unavailable = None, !.updated = ago,
                                         !.present = TRUE]
             r == [c.reading EXCEPT ![rom] = q]
             w == [c EXCEPT !.reading = r]
             after == {role \in Roles : w.assigned[role] = rom}
             n == RefreshRoles(w, after, ago)
  <2>1. RecordValid(m, rom, value, ago) = n
    BY <1>2 DEF RecordValid, RefreshRom
  <2>2. /\ Rewrites(m, c) /\ NonePowersOn(m, c)
        /\ \A s \in Sensors : m.reading[s] # None => c.reading[s].updated = m.reading[s].updated
        /\ overdue => \A role \in before : c.health[role] = Health(ReadingOf(m, role), ago)
    <3>1. CASE overdue
      <4>1. c = RefreshRoles(m, before, ago) /\ before \in SUBSET Roles
        BY <3>1 DEF RefreshRom
      <4> HIDE DEF c, before
      <4> QED BY <4>1, RefreshRewrites
    <3>2. CASE ~overdue
      BY <3>2 DEF Rewrites, NonePowersOn
    <3> QED BY <3>1, <3>2
  <2> HIDE DEF c
  <2>3. c.reading \in [Sensors -> Readings \cup {None}] /\ Supplied(c)
    BY <2>2 DEF Rewrites, Supplied, Managers
  <2>4. rom \in Sensors => c.reading[rom] \in Readings
    BY <1>2, <2>2, <2>3 DEF Recordable, Rewrites
  <2>5. rom \in Sensors =>
           /\ q \in Readings /\ q.generation = c.reading[rom].generation
           /\ q.value = value /\ q.updated = ago
    <3>1. ago \in Ages /\ ago \in 0 .. MaxLate
      BY SensorAgesAssumption DEF Late, Ages, MaxAge
    <3>2. None \in Ages
      BY DEF Ages
    <3> DEFINE p == c.reading[rom]
    <3>3. rom \in Sensors => p \in Readings
      BY <2>4
    <3>4. q = [p EXCEPT !.value = value, !.valid = ago, !.unavailable = None,
                        !.updated = ago, !.present = TRUE]
      OBVIOUS
    <3> HIDE DEF p, q
    <3>5. rom \in Sensors => q \in Readings /\ q.generation = p.generation
                              /\ q.value = value /\ q.updated = ago
      BY <3>1, <3>2, <3>3, <3>4 DEF Readings
    <3> QED BY <3>5 DEF p
  <2> HIDE DEF q
  <2>6. r \in [Sensors -> Readings \cup {None}]
    BY <2>3, <2>5
  <2>7. \A s \in Sensors :
           /\ (r[s] = None) <=> (c.reading[s] = None)
           /\ c.reading[s] # None =>
                 /\ r[s].generation = c.reading[s].generation
                 /\ r[s].value = c.reading[s].value \/ (s = rom /\ r[s].value = value)
                 /\ r[s].updated \in {c.reading[s].updated, ago}
    BY <2>3, <2>4, <2>5, NoneIsNoReading
  <2> HIDE DEF r
  <2>8. Rewrites(c, w) /\ w.reading = r
    BY <2>3, <2>6, <2>7, WritesRewrite
  <2> HIDE DEF w
  <2>9. /\ Rewrites(w, n) /\ NonePowersOn(w, n)
        /\ \A s \in Sensors : w.reading[s] # None => n.reading[s].updated = w.reading[s].updated
    <3>1. Supplied(w) /\ after \in SUBSET Roles
      BY <2>8 DEF Rewrites
    <3> HIDE DEF after
    <3> QED BY <3>1, RefreshRewrites
  <2> HIDE DEF n
  <2>10. Rewrites(c, n) /\ Rewrites(m, n)
    BY <2>2, <2>3, <2>8, <2>9, RewritesChains
  <2>11. WrittenBefore(n, ago)
    BY <2>2, <2>7, <2>8, <2>9, <2>10 DEF Rewrites, WrittenBefore, Late
  <2>12. ASSUME NEW s \in Sensors, m.reading[s] # None, n.reading[s].value = "powerOn"
         PROVE  m.reading[s].value = "powerOn" \/ (s = rom /\ value = "powerOn")
    <3>1. c.reading[s] # None /\ w.reading[s] # None /\ n.reading[s] # None
      BY <2>2, <2>8, <2>10, <2>12 DEF Rewrites
    <3>2. r[s].value = "powerOn"
      BY <2>8, <2>9, <2>12, <3>1 DEF NonePowersOn
    <3> QED BY <2>2, <2>7, <2>12, <3>1, <3>2 DEF NonePowersOn
  <2>13. ASSUME NEW role \in Roles, NEW out \in BOOLEAN, rom \in Sensors, overdue, Holds(m, role, rom, out)
         PROVE  Holds(n, role, rom, TRUE)
    <3>1. Holds(c, role, rom, out)
      BY <2>2, <2>13, RewritesHold
    <3>2. ASSUME c.revision[role] = 0 PROVE c.reading[rom].generation # 0
      <4>1. m.assigned[role] = rom /\ rom # None
        BY <2>2, <2>13, <3>2 DEF Holds, Rewrites
      <4>2. ReadingOf(m, role) = m.reading[rom] /\ m.reading[rom] # None
        BY <4>1 DEF ReadingOf, Supplied
      <4>3. Health(m.reading[rom], ago) = "failed"
        BY <2>13, <4>2, SensorAgesAssumption DEF Gap, Health
      <4>4. c.health[role] = "failed"
        BY <2>2, <2>13, <4>1, <4>2, <4>3
      <4> QED BY <3>1, <3>2, <4>4 DEF Holds
    <3>3. Holds(c, role, rom, TRUE)
      BY <3>1, <3>2 DEF Holds
    <3> QED BY <2>3, <2>10, <2>13, <3>3, RewritesHold
  <2> QED BY <2>1, <2>10, <2>11, <2>12, <2>13
<1> QED BY <1>1, <1>2

LEMMA GlobalFailureRewrites ==
    ASSUME NEW m, Supplied(m)
    PROVE  LET n == GlobalFailure(m) IN Rewrites(m, n) /\ NonePowersOn(m, n)
<1> DEFINE r == [rom \in Sensors |-> IF rom \in AssignedRoms(m) THEN Missed(m.reading[rom], 0)
                                    ELSE m.reading[rom]]
           roles == {role \in Roles : m.assigned[role] # None}
<1>1. GlobalFailure(m) = RefreshRoles([m EXCEPT !.reading = r], roles, 0)
  BY DEF GlobalFailure
<1>2. ASSUME NEW rom \in Sensors
      PROVE  /\ r[rom] \in Readings \cup {None}
             /\ (r[rom] = None) <=> (m.reading[rom] = None)
             /\ m.reading[rom] # None =>
                   /\ r[rom].generation = m.reading[rom].generation
                   /\ r[rom].value = m.reading[rom].value
  <2>1. m.reading[rom] \in Readings \cup {None}
    BY DEF Supplied, Managers
  <2>2. CASE rom \in AssignedRoms(m)
    <3>1. m.reading[rom] # None
      BY <2>2 DEF AssignedRoms, Supplied
    <3>2. 0 \in Late
      BY SensorAgesAssumption DEF Late
    <3>3. r[rom] = Missed(m.reading[rom], 0)
      BY <2>2
    <3> QED BY <2>1, <3>1, <3>2, <3>3, MissedIsTyped, NoneIsNoReading
  <2>3. CASE rom \notin AssignedRoms(m)
    BY <2>1, <2>3
  <2> QED BY <2>2, <2>3
<1>3. r = [rom \in Sensors |-> r[rom]] /\ roles \in SUBSET Roles
  OBVIOUS
<1> HIDE DEF r, roles
<1>4. r \in [Sensors -> Readings \cup {None}]
  BY <1>2, <1>3
<1> DEFINE n == RefreshRoles([m EXCEPT !.reading = r], roles, 0)
<1>5. \A rom \in Sensors :
         /\ (r[rom] = None) <=> (m.reading[rom] = None)
         /\ m.reading[rom] # None =>
               /\ r[rom].generation = m.reading[rom].generation
               /\ r[rom].value = m.reading[rom].value
  BY <1>2
<1>6. /\ Rewrites(m, n) /\ NonePowersOn(m, n)
  BY ONLY Supplied(m), <1>3, <1>4, <1>5, MissingRewrites
<1> HIDE DEF n
<1> QED BY <1>1, <1>6 DEF n

LEMMA RecordDiscoveryRewrites ==
    ASSUME NEW m, Supplied(m), NEW found \in SUBSET Sensors
    PROVE  LET n == RecordDiscovery(m, found) IN Rewrites(m, n) /\ NonePowersOn(m, n)
<1> DEFINE seen(r, rom) ==
              LET p == [r EXCEPT !.present = rom \in found]
                  u == IF rom \in found THEN p ELSE MarkUnavailable(p, 0)
              IN [u EXCEPT !.updated = 0]
           r == [rom \in Sensors |-> IF m.reading[rom] = None THEN None
                                     ELSE seen(m.reading[rom], rom)]
           d == [m EXCEPT !.discovered = found]
           n == RefreshRoles([d EXCEPT !.reading = r], Roles, 0)
<1>1. RecordDiscovery(m, found) = n
  BY DEF RecordDiscovery, RefreshAll
<1>2. Supplied(d) /\ d.reading = m.reading /\ Rewrites(m, d)
  BY DEF Supplied, Managers, Rewrites
<1>3. ASSUME NEW q \in Readings, NEW rom \in Sensors
      PROVE  /\ seen(q, rom) \in Readings /\ seen(q, rom).generation = q.generation
             /\ seen(q, rom).value = q.value
  <2> DEFINE p == [q EXCEPT !.present = rom \in found]
             u == IF rom \in found THEN p ELSE MarkUnavailable(p, 0)
  <2> DEFINE here == rom \in found
  <2>1. here \in BOOLEAN /\ p = [q EXCEPT !.present = here]
    OBVIOUS
  <2> HIDE DEF here, p
  <2>6. p \in Readings /\ p.generation = q.generation /\ p.value = q.value
    BY <2>1 DEF Readings
  <2>2. 0 \in Ages /\ 0 \in 0 .. MaxLate
    BY SensorAgesAssumption DEF Ages, MaxAge
  <2>3. u \in Readings /\ u.generation = p.generation /\ u.value = p.value
    BY <2>2, <2>6 DEF Readings, MarkUnavailable
  <2>4. seen(q, rom) = [u EXCEPT !.updated = 0]
    BY DEF p
  <2> HIDE DEF u, seen
  <2> QED BY <2>2, <2>3, <2>4, <2>6 DEF Readings
<1> HIDE DEF seen
<1>4. \A rom \in Sensors : m.reading[rom] \in Readings \cup {None}
  BY DEF Supplied, Managers
<1>5. /\ r \in [Sensors -> Readings \cup {None}]
      /\ \A rom \in Sensors :
            /\ (r[rom] = None) <=> (m.reading[rom] = None)
            /\ m.reading[rom] # None =>
                  /\ r[rom].generation = m.reading[rom].generation
                  /\ r[rom].value = m.reading[rom].value
  BY <1>3, <1>4, NoneIsNoReading
<1> HIDE DEF r, d
<1>6. Rewrites(d, n) /\ NonePowersOn(d, n)
  BY <1>2, <1>5, MissingRewrites
<1> HIDE DEF n
<1>7. Rewrites(m, n) /\ NonePowersOn(m, n)
  BY <1>2, <1>6, RewritesChains DEF NonePowersOn
<1> QED BY <1>1, <1>7

LEMMA AgedIsTyped ==
    ASSUME NEW limit \in Nat, NEW age \in 0 .. limit \cup {None}
    PROVE  /\ Aged(age, limit) \in 0 .. limit \cup {None}
           /\ age = None => Aged(age, limit) = None
BY DEF Aged

LEMMA AgeReadingsRewrites ==
    ASSUME NEW m, Supplied(m), NEW c \in -ConversionWait .. MaxLate, WrittenBefore(m, c) \/ c = -ConversionWait
    PROVE  LET n == AgeReadings(m)
           IN /\ Rewrites(m, n) /\ NonePowersOn(m, n)
              /\ c # MaxLate /\ WrittenBefore(m, c) => WrittenBefore(n, c + 1)
<1> DEFINE r == [rom \in Sensors |-> AgedReading(m.reading[rom])]
           n == AgeReadings(m)
<1>1. n = [m EXCEPT !.reading = r]
  BY DEF AgeReadings
<1>2. ASSUME NEW q \in Readings
      PROVE  /\ AgedReading(q) \in Readings /\ AgedReading(q).generation = q.generation
             /\ AgedReading(q).value = q.value
             /\ q.updated \in Int /\ AgedReading(q).updated # None =>
                   AgedReading(q).updated \in {q.updated + 1, MaxLate}
             /\ AgedReading(q).updated = Aged(q.updated, MaxLate)
  <2> DEFINE v == Aged(q.valid, MaxAge)
             u == Aged(q.unavailable, MaxAge)
             w == Aged(q.updated, MaxLate)
  <2>1. q # None
    BY NoneIsNoReading
  <2>2. MaxAge \in Nat /\ MaxLate \in Nat
    BY SensorAgesAssumption DEF MaxAge
  <2>3. v \in Ages /\ u \in Ages /\ w \in 0 .. MaxLate \cup {None}
    BY <2>2, AgedIsTyped DEF Readings, Ages
  <2>4. w # None => q.updated # None /\ w \in {q.updated + 1, MaxLate}
    BY DEF Aged
  <2>5. AgedReading(q) = [q EXCEPT !.valid = v, !.unavailable = u, !.updated = w]
    BY <2>1 DEF AgedReading
  <2> HIDE DEF v, u, w
  <2>6. /\ AgedReading(q) \in Readings /\ AgedReading(q).generation = q.generation
        /\ AgedReading(q).value = q.value /\ AgedReading(q).updated = w
    BY <2>3, <2>5 DEF Readings
  <2> QED BY <2>4, <2>6 DEF w
<1>3. \A rom \in Sensors : m.reading[rom] \in Readings \cup {None}
  BY DEF Supplied, Managers
<1>4. AgedReading(None) = None
  BY DEF AgedReading
<1>5. /\ r \in [Sensors -> Readings \cup {None}]
      /\ \A rom \in Sensors :
            /\ (r[rom] = None) <=> (m.reading[rom] = None)
            /\ m.reading[rom] # None =>
                  /\ r[rom].generation = m.reading[rom].generation
                  /\ r[rom].value = m.reading[rom].value
                  /\ r[rom].updated = Aged(m.reading[rom].updated, MaxLate)
  BY <1>2, <1>3, <1>4, NoneIsNoReading
<1> HIDE DEF r, n
<1>6. Rewrites(m, n) /\ n.reading = r
  BY <1>1, <1>5, WritesRewrite
<1>7. NonePowersOn(m, n)
  BY <1>5, <1>6 DEF NonePowersOn
<1>8. ASSUME c # MaxLate, WrittenBefore(m, c) PROVE WrittenBefore(n, c + 1)
  <2> SUFFICES ASSUME NEW rom \in Sensors, n.reading[rom] # None, n.reading[rom].updated # None
               PROVE  n.reading[rom].updated >= c + 1
    BY DEF WrittenBefore
  <2> DEFINE old == m.reading[rom].updated
  <2>1. m.reading[rom] # None /\ n.reading[rom].updated = Aged(old, MaxLate)
    BY <1>5, <1>6
  <2>2. old \in 0 .. MaxLate \cup {None}
    BY <1>3, <2>1 DEF Readings
  <2>3. old # None
    BY <2>1 DEF Aged
  <2>4. old >= c
    BY <1>8, <2>1, <2>3 DEF WrittenBefore
  <2> HIDE DEF old
  <2> QED BY <1>8, <2>1, <2>2, <2>3, <2>4, SensorAgesAssumption, SensorIntervalsAssumption DEF Aged
<1> QED BY <1>6, <1>7, <1>8 DEF n

LEMMA ConfigureHolds ==
    ASSUME NEW m, Supplied(m), NEW a \in Assignments
    PROVE  LET n == ConfigureAssignments(m, a)
           IN /\ Supplied(n) /\ NonePowersOn(m, n)
              /\ \A c \in Int : WrittenBefore(m, c) => WrittenBefore(n, c)
              /\ \A role \in Roles, rom \in Sensors : \A out \in BOOLEAN :
                    Holds(m, role, rom, out) => Holds(n, role, rom, out \/ a[role] # rom)
<1> DEFINE used == {a[role] : role \in Roles} \ {None}
           fresh(rom) ==
              IF m.discovered = {} THEN NewReading
              ELSE [NewReading EXCEPT !.present = rom \in m.discovered]
           v == [role \in Roles |-> IF a[role] # m.assigned[role] THEN Counted(m.revision[role])
                                    ELSE m.revision[role]]
           r == [rom \in Sensors |-> IF rom \notin used THEN None
                                    ELSE IF m.reading[rom] = None THEN fresh(rom)
                                    ELSE m.reading[rom]]
           n == [m EXCEPT !.assigned = a, !.revision = v, !.reading = r]
<1>1. ConfigureAssignments(m, a) = n
  BY DEF ConfigureAssignments
<1>2. a \in [Roles -> Sensors \cup {None}]
  BY DEF Assignments
<1>3. \A role \in Roles : a[role] # None => a[role] \in used /\ a[role] \in Sensors
  BY <1>2
<1>4. \A rom \in Sensors : fresh(rom) \in Readings /\ fresh(rom).updated = None
  <2>1. NewReading \in Readings /\ NewReading.updated = None
    BY SensorAgesAssumption DEF NewReading, Readings, Ages
  <2>2. \A here \in BOOLEAN :
           /\ [NewReading EXCEPT !.present = here] \in Readings
           /\ [NewReading EXCEPT !.present = here].updated = None
    <3> HIDE DEF NewReading
    <3> QED BY <2>1 DEF Readings
  <2>3. \A rom : (rom \in m.discovered) \in BOOLEAN
    OBVIOUS
  <2> QED BY <2>1, <2>2, <2>3
<1> HIDE DEF fresh, used
<1>5. \A rom \in Sensors : m.reading[rom] \in Readings \cup {None}
  BY DEF Supplied, Managers
<1>6. r \in [Sensors -> Readings \cup {None}]
      /\ \A rom \in Sensors :
            /\ rom \in used => r[rom] # None
            /\ r[rom] # None => r[rom] = m.reading[rom] \/ r[rom].updated = None
            /\ r[rom] # None /\ m.reading[rom] # None => r[rom] = m.reading[rom]
  BY <1>4, <1>5, NoneIsNoReading
<1>7. v \in [Roles -> 0 .. MaxCount]
      /\ \A role \in Roles : v[role] = 0 => m.revision[role] = 0 /\ a[role] = m.assigned[role]
  <2>1. \A role \in Roles : m.revision[role] \in 0 .. MaxCount
    BY DEF Supplied, Managers
  <2> QED BY <2>1, CountedIsOne
<1> HIDE DEF r, v
<1>8. n \in Managers /\ n.assigned = a /\ n.revision = v /\ n.reading = r /\ n.health = m.health
  BY <1>2, <1>6, <1>7 DEF Supplied, Managers
<1> HIDE DEF n
<1>9. Supplied(n)
  BY <1>3, <1>6, <1>8 DEF Supplied
<1>10. NonePowersOn(m, n)
  BY <1>6, <1>8 DEF NonePowersOn
<1>11. \A c \in Int : WrittenBefore(m, c) => WrittenBefore(n, c)
  BY <1>6, <1>8 DEF WrittenBefore
<1>12. ASSUME NEW role \in Roles, NEW rom \in Sensors, NEW out \in BOOLEAN, Holds(m, role, rom, out)
       PROVE  Holds(n, role, rom, out \/ a[role] # rom)
  <2> SUFFICES ASSUME n.revision[role] = 0
               PROVE  /\ n.assigned[role] = rom /\ rom # None
                      /\ (out \/ a[role] # rom) \/ n.health[role] = "failed" =>
                            n.reading[rom].generation # 0
    BY DEF Holds
  <2>1. m.revision[role] = 0 /\ a[role] = m.assigned[role]
    BY <1>7, <1>8
  <2>2. m.assigned[role] = rom /\ rom # None
    BY <1>12, <2>1 DEF Holds
  <2>3. m.reading[rom] # None /\ r[rom] # None
    BY <1>3, <1>6, <2>1, <2>2 DEF Supplied
  <2> QED BY <1>6, <1>8, <1>12, <2>1, <2>2, <2>3 DEF Holds
<1> QED BY <1>1, <1>9, <1>10, <1>11, <1>12

-------------------------------------------------------------------------------
(* The steps *)

(* A step by which the manager only grows more suspicious. *)
LEMMA SuspicionGrows ==
    ASSUME SensorInv, Rewrites(mgr, mgr'), UNCHANGED <<adopted, outage>>
    PROVE  Supplied(mgr') /\ HeldInv'
<1>1. Supplied(mgr')
  BY DEF Rewrites
<1>2. ASSUME adopted # None
      PROVE  /\ adopted.role \in Roles /\ adopted.rom \in Sensors /\ outage \in BOOLEAN
             /\ Holds(mgr', adopted.role, adopted.rom, outage)
  <2>1. /\ adopted.role \in Roles /\ adopted.rom \in Sensors /\ outage \in BOOLEAN
        /\ Holds(mgr, adopted.role, adopted.rom, outage) /\ Supplied(mgr)
    BY <1>2 DEF SensorInv, HeldInv
  <2> QED BY <2>1, RewritesHold
<1> QED BY <1>1, <1>2 DEF HeldInv

LEMMA NoneIsEarned ==
    ASSUME NonePowersOn(mgr, mgr')
    PROVE  PowerOnIsEarned
BY DEF NonePowersOn, PowerOnIsEarned, TurnsPowerOn

LEMMA SameManager ==
    ASSUME SensorInv, UNCHANGED mgr
    PROVE  Rewrites(mgr, mgr') /\ NonePowersOn(mgr, mgr')
BY DEF SensorInv, Rewrites, NonePowersOn

(* A step after which no conversion is under way. *)
LEMMA AdapterRests ==
    ASSUME DOMAIN ada' = AdapterFields, ada'.trusted \subseteq steady',
           ada'.phase \notin {"wait_conversion", "reading"}
    PROVE  AdapterInv'
BY DEF AdapterInv, Converted

LEMMA AdvanceKeeps ==
    ASSUME NEW a, DOMAIN a = AdapterFields
    PROVE  LET b == Advance(a)
           IN /\ DOMAIN b = AdapterFields /\ b.trusted = a.trusted
              /\ b.phase \in {"idle", "reading"}
              /\ b.phase = "reading" => b.conversion = a.conversion
<1> DEFINE c == a.cycle \ {First(a.cycle)}
<1>1. CASE c # {}
  <2> DEFINE b == [a EXCEPT !.phase = "reading", !.cycle = c]
  <2>1. Advance(a) = b
    BY <1>1 DEF Advance
  <2> HIDE DEF c
  <2>2. DOMAIN b = AdapterFields
    OBVIOUS
  <2>3. b.trusted = a.trusted /\ b.phase = "reading" /\ b.conversion = a.conversion
    BY DEF AdapterFields
  <2> QED BY <2>1, <2>2, <2>3
<1>2. CASE c = {}
  <2> DEFINE x == IF a.next = 0 THEN PollInterval ELSE a.next
             b == [a EXCEPT !.phase = "idle", !.cycle = {}, !.conversion = None, !.next = x]
  <2>1. Advance(a) = b
    BY <1>2 DEF Advance
  <2> HIDE DEF x
  <2>2. DOMAIN b = AdapterFields
    OBVIOUS
  <2>3. b.trusted = a.trusted /\ b.phase = "idle"
    BY DEF AdapterFields
  <2> QED BY <2>1, <2>2, <2>3
<1> QED BY <1>1, <1>2

(* A read: what is left of the conversion is timed as before. *)
LEMMA ReadAdvances ==
    ASSUME SensorInv, ReadingDue, NEW a, DOMAIN a = AdapterFields,
           a.trusted \subseteq steady', a.conversion = ada.conversion,
           ada' = Advance(a), WrittenBefore(mgr', ada.conversion)
    PROVE  AdapterInv'
<1>1. /\ DOMAIN ada' = AdapterFields /\ ada'.trusted = a.trusted
      /\ ada'.phase \in {"idle", "reading"}
      /\ ada'.phase = "reading" => ada'.conversion = ada.conversion
  BY AdvanceKeeps
<1>2. ada.conversion \in -ConversionWait .. MaxLate /\ ada.conversion >= 0
  BY DEF SensorInv, AdapterInv, Converted, ReadingDue
<1> QED BY <1>1, <1>2 DEF AdapterInv, Converted

LEMMA TrustChanges ==
    ASSUME SensorInv, NEW trusted
    PROVE  LET a == [ada EXCEPT !.trusted = trusted]
           IN DOMAIN a = AdapterFields /\ a.trusted = trusted /\ a.conversion = ada.conversion
<1> DEFINE a == [ada EXCEPT !.trusted = trusted]
<1>1. DOMAIN a = AdapterFields
  BY DEF SensorInv, AdapterInv
<1>2. a.trusted = trusted /\ a.conversion = ada.conversion
  BY DEF SensorInv, AdapterInv, AdapterFields
<1> QED BY <1>1, <1>2

LEMMA DueIsLate ==
    ASSUME SensorInv, ReadingDue
    PROVE  ada.conversion \in Late /\ WrittenBefore(mgr, ada.conversion) /\ Supplied(mgr)
BY SensorAgesAssumption, SensorIntervalsAssumption
   DEF SensorInv, AdapterInv, Converted, ReadingDue, Late

(* A missed read, whatever becomes of the trust in the sensor. *)
LEMMA FailureSteps ==
    ASSUME SensorInv, ReadingDue, NEW rom, NEW a, DOMAIN a = AdapterFields,
           a.trusted \subseteq steady', a.conversion = ada.conversion,
           mgr' = RecordFailure(mgr, rom, ada.conversion), ada' = Advance(a),
           UNCHANGED <<adopted, outage>>
    PROVE  SensorInv' /\ PowerOnIsEarned
<1>1. ada.conversion \in Late /\ WrittenBefore(mgr, ada.conversion) /\ Supplied(mgr)
  BY DueIsLate
<1>2. Rewrites(mgr, mgr') /\ NonePowersOn(mgr, mgr') /\ WrittenBefore(mgr', ada.conversion)
  BY <1>1, RecordFailureRewrites
<1>3. AdapterInv'
  BY <1>2, ReadAdvances
<1> QED BY <1>2, <1>3, SuspicionGrows, NoneIsEarned DEF SensorInv

LEMMA ReadSteps ==
    ASSUME SensorInv, ReadingDue, ReadFailed \/ ReadPowerOnUntrusted, UNCHANGED adopted
    PROVE  SensorInv' /\ PowerOnIsEarned
<1> DEFINE rom == First(ada.cycle)
<1>0. ada.trusted \subseteq steady
  BY DEF SensorInv, AdapterInv
<1>1. CASE ReadFailed
  <2>1. /\ mgr' = RecordFailure(mgr, rom, ada.conversion)
        /\ ada' = Advance([ada EXCEPT !.trusted = ada.trusted \ {rom}])
        /\ steady' = steady \ {rom} /\ UNCHANGED outage
    BY <1>1 DEF ReadFailed
  <2> DEFINE a == [ada EXCEPT !.trusted = ada.trusted \ {rom}]
  <2>2. /\ DOMAIN a = AdapterFields /\ a.trusted = ada.trusted \ {rom}
        /\ a.conversion = ada.conversion
    BY TrustChanges
  <2> HIDE DEF rom, a
  <2>3. a.trusted \subseteq steady' /\ ada' = Advance(a)
    BY <1>0, <2>1, <2>2 DEF a
  <2> QED BY <2>1, <2>2, <2>3, FailureSteps
<1>2. CASE ReadPowerOnUntrusted
  <2>1. /\ mgr' = RecordFailure(mgr, rom, ada.conversion)
        /\ ada' = Advance(ada) /\ rom \notin ada.trusted
        /\ steady' = steady \ {rom} /\ UNCHANGED outage
    BY <1>2 DEF ReadPowerOnUntrusted
  <2>2. ada.trusted \subseteq steady'
    BY <1>0, <2>1
  <2>3. DOMAIN ada = AdapterFields
    BY DEF SensorInv, AdapterInv
  <2> HIDE DEF rom
  <2> QED BY <2>1, <2>2, <2>3, FailureSteps
<1> QED BY <1>1, <1>2

(* An accepted value is a trusted sensor's or earns trust, and a gap that it closes   *)
(* has been counted.                                                                  *)
LEMMA AcceptSteps ==
    ASSUME SensorInv, ReadingDue, ReadAccepted, UNCHANGED adopted
    PROVE  SensorInv' /\ PowerOnIsEarned
<1> DEFINE rom == First(ada.cycle)
           ago == ada.conversion
           trusted == ada.trusted \cup {rom}
           gap == /\ mgr.reading[rom] # None /\ Gap(mgr.reading[rom], ago) >= FailedAfter
<1>1. PICK value \in {"ordinary", "powerOn", "outside"} :
         /\ value = "powerOn" => rom \in ada.trusted
         /\ mgr' = IF value = "outside" THEN RecordFailure(mgr, rom, ago)
                   ELSE RecordValid(mgr, rom, value, ago)
         /\ ada' = Advance([ada EXCEPT !.trusted = trusted])
         /\ steady' = IF value = "powerOn" THEN steady ELSE steady \cup {rom}
         /\ outage' = \/ outage
                      \/ /\ adopted # None /\ adopted.rom = rom
                         /\ value # "outside"
                         /\ gap
  BY DEF ReadAccepted
<1>2. ada.trusted \subseteq steady /\ trusted \subseteq steady'
  BY <1>1 DEF SensorInv, AdapterInv
<1> DEFINE a == [ada EXCEPT !.trusted = trusted]
<1>a. DOMAIN a = AdapterFields /\ a.trusted \subseteq steady' /\ a.conversion = ada.conversion
  BY <1>2, TrustChanges
<1>b. ada' = Advance(a)
  BY <1>1
<1>3. ago \in Late /\ WrittenBefore(mgr, ago) /\ Supplied(mgr)
  BY DueIsLate
<1> DEFINE here == adopted # None /\ adopted.rom = rom
<1>4. outage' = (outage \/ (here /\ value # "outside" /\ gap))
  BY <1>1
<1>5. gap => mgr.reading[rom] # None /\ Gap(mgr.reading[rom], ago) >= FailedAfter
  OBVIOUS
<1>6. here => adopted # None /\ adopted.rom = rom
  OBVIOUS
<1>7. (here /\ gap) \in BOOLEAN
  OBVIOUS
<1>8. adopted # None => adopted.role \in Roles /\ adopted.rom \in Sensors /\ outage \in BOOLEAN
                        /\ Holds(mgr, adopted.role, adopted.rom, outage)
  BY DEF SensorInv, HeldInv
<1> HIDE DEF gap, here, rom, ago, trusted, a
<1>9. CASE value = "outside"
  <2>1. mgr' = RecordFailure(mgr, rom, ago)
    BY <1>1, <1>9
  <2>2. Rewrites(mgr, mgr') /\ NonePowersOn(mgr, mgr') /\ WrittenBefore(mgr', ago)
    BY <1>3, <2>1, RecordFailureRewrites
  <2>3. AdapterInv'
    BY <1>a, <1>b, <2>2, ReadAdvances DEF ago
  <2>4. HeldInv'
    <3> SUFFICES ASSUME adopted # None
                 PROVE  /\ adopted.role \in Roles /\ adopted.rom \in Sensors /\ outage' \in BOOLEAN
                        /\ Holds(mgr', adopted.role, adopted.rom, outage')
      BY DEF HeldInv
    <3>1. outage' = outage
      BY <1>4, <1>8, <1>9
    <3> QED BY <1>3, <1>8, <2>2, <3>1, RewritesHold
  <2> QED BY <2>2, <2>3, <2>4, NoneIsEarned DEF SensorInv, Rewrites
<1>10. CASE value # "outside"
  <2>1. mgr' = RecordValid(mgr, rom, value, ago) /\ value \in Values
    BY <1>1, <1>10 DEF Values
  <2>2. /\ Rewrites(mgr, mgr') /\ WrittenBefore(mgr', ago)
        /\ \A s \in Sensors :
              /\ mgr.reading[s] # None /\ mgr'.reading[s] # None
              /\ mgr'.reading[s].value = "powerOn"
              => mgr.reading[s].value = "powerOn" \/ (s = rom /\ value = "powerOn")
        /\ \A role \in Roles : \A out \in BOOLEAN :
              /\ rom \in Sensors /\ mgr.reading[rom] # None
              /\ Gap(mgr.reading[rom], ago) >= FailedAfter
              /\ Holds(mgr, role, rom, out)
              => Holds(mgr', role, rom, TRUE)
    BY <1>3, <2>1, RecordValidRewrites
  <2>3. AdapterInv'
    BY <1>a, <1>b, <2>2, ReadAdvances DEF ago
  <2>4. HeldInv'
    <3> SUFFICES ASSUME adopted # None
                 PROVE  /\ adopted.role \in Roles /\ adopted.rom \in Sensors /\ outage' \in BOOLEAN
                        /\ Holds(mgr', adopted.role, adopted.rom, outage')
      BY DEF HeldInv
    <3>1. CASE here /\ gap
      <4>1. outage' = TRUE
        BY <1>4, <1>10, <3>1
      <4> QED BY <1>5, <1>6, <1>8, <2>2, <3>1, <4>1
    <3>2. CASE ~(here /\ gap)
      <4>1. outage' = outage
        BY <1>4, <1>8, <3>2
      <4> QED BY <1>3, <1>8, <2>2, <4>1, RewritesHold
    <3> QED BY <3>1, <3>2
  <2>5. PowerOnIsEarned
    BY <1>1, <1>2, <2>2 DEF PowerOnIsEarned, TurnsPowerOn
  <2> QED BY <2>2, <2>3, <2>4, <2>5 DEF SensorInv, Rewrites
<1> QED BY <1>9, <1>10

LEMMA AdapterSteps ==
    ASSUME SensorInv, SensorStep
    PROVE  SensorInv' /\ PowerOnIsEarned
<1>0. /\ DOMAIN ada = AdapterFields /\ ada.trusted \subseteq steady
      /\ Supplied(mgr) /\ UNCHANGED adopted
  BY DEF SensorInv, AdapterInv, SensorStep
<1>1. CASE Broken /\ UNCHANGED adopted
  <2>1. DOMAIN ada' = AdapterFields
    BY <1>0, <1>1 DEF Broken
  <2>2. ada'.phase = "closed" /\ ada'.trusted = {}
    BY <1>0, <1>1 DEF Broken, AdapterFields
  <2>3. AdapterInv'
    BY <2>1, <2>2, AdapterRests
  <2>4. UNCHANGED <<mgr, outage>>
    BY <1>1 DEF Broken
  <2> QED BY <1>0, <2>3, <2>4, SameManager, SuspicionGrows, NoneIsEarned DEF SensorInv
<1>2. CASE ReadingDue /\ ReadOne
  <2>1. ReadFailed \/ ReadPowerOnUntrusted \/ ReadAccepted \/ Broken
    BY <1>2 DEF ReadOne
  <2> QED BY <1>0, <1>1, <1>2, <2>1, ReadSteps, AcceptSteps
<1>3. CASE ConversionStarted
  <2>1. DOMAIN ada' = AdapterFields
    BY <1>0, <1>3 DEF ConversionStarted
  <2>2. /\ ada'.phase = "wait_conversion" /\ ada'.trusted = ada.trusted
        /\ ada'.conversion = -ConversionWait
    BY <1>0, <1>3 DEF ConversionStarted, AdapterFields
  <2>3. UNCHANGED <<mgr, outage, steady>>
    BY <1>3 DEF ConversionStarted
  <2>4. WrittenBefore(mgr, -ConversionWait)
    <3>1. \A rom \in Sensors : mgr.reading[rom] \in Readings \cup {None}
      BY <1>0 DEF Supplied, Managers
    <3>2. \A rom \in Sensors : mgr.reading[rom] # None =>
             mgr.reading[rom].updated \in 0 .. MaxLate \cup {None}
      BY <3>1 DEF Readings
    <3> QED BY <3>2, SensorAgesAssumption, SensorIntervalsAssumption DEF WrittenBefore
  <2>5. AdapterInv'
    BY <1>0, <2>1, <2>2, <2>3, <2>4, SensorAgesAssumption, SensorIntervalsAssumption
       DEF AdapterInv
  <2> QED BY <1>0, <2>3, <2>5, SameManager, SuspicionGrows, NoneIsEarned DEF SensorInv
<1>4. CASE ConversionFailed
  <2>1. DOMAIN ada' = AdapterFields
    BY <1>0, <1>4 DEF ConversionFailed, AfterFailedConversion
  <2>2. ada'.phase = "idle" /\ ada'.trusted = {}
    BY <1>0, <1>4 DEF ConversionFailed, AfterFailedConversion, AdapterFields
  <2>3. AdapterInv'
    BY <2>1, <2>2, AdapterRests
  <2>4. mgr' = GlobalFailure(mgr) /\ UNCHANGED outage
    BY <1>4 DEF ConversionFailed
  <2>5. Rewrites(mgr, mgr') /\ NonePowersOn(mgr, mgr')
    BY <1>0, <2>4, GlobalFailureRewrites
  <2> QED BY <1>0, <2>3, <2>4, <2>5, SuspicionGrows, NoneIsEarned DEF SensorInv
<1>5. CASE ScanFailed
  <2>1. DOMAIN ada' = AdapterFields
    BY <1>0, <1>5 DEF ScanFailed
  <2>2. ada'.phase = "idle" /\ ada'.trusted = {}
    BY <1>0, <1>5 DEF ScanFailed, AdapterFields
  <2>3. AdapterInv'
    BY <2>1, <2>2, AdapterRests
  <2>4. mgr' = GlobalFailure(mgr) /\ UNCHANGED outage
    BY <1>5 DEF ScanFailed
  <2>5. Rewrites(mgr, mgr') /\ NonePowersOn(mgr, mgr')
    BY <1>0, <2>4, GlobalFailureRewrites
  <2> QED BY <1>0, <2>3, <2>4, <2>5, SuspicionGrows, NoneIsEarned DEF SensorInv
<1>6. CASE ScanFound
  <2>1. PICK found \in SUBSET Sensors :
           /\ mgr' = RecordDiscovery(mgr, found)
           /\ ada' = [ada EXCEPT
                        !.phase = IF found = {} THEN "idle" ELSE "conversion_ready",
                        !.roms = found,
                        !.trusted = @ \cap found,
                        !.requested = FALSE,
                        !.discovery = DiscoveryInterval,
                        !.next = IF found = {} THEN PollInterval ELSE @]
           /\ steady' = steady \cap found
           /\ UNCHANGED outage
    BY <1>6 DEF ScanFound
  <2>2. DOMAIN ada' = AdapterFields
    BY <1>0, <2>1
  <2> DEFINE p == IF found = {} THEN "idle" ELSE "conversion_ready"
             x == IF found = {} THEN PollInterval ELSE ada.next
             t == ada.trusted \cap found
  <2>3. ada' = [ada EXCEPT !.phase = p, !.roms = found, !.trusted = t, !.requested = FALSE,
                           !.discovery = DiscoveryInterval, !.next = x]
    BY <2>1
  <2>4. p \in {"idle", "conversion_ready"} /\ t \subseteq steady'
    BY <1>0, <2>1
  <2> HIDE DEF p, x, t
  <2>5. ada'.phase = p /\ ada'.trusted = t
    BY <1>0, <2>3 DEF AdapterFields
  <2>6. AdapterInv'
    BY <2>2, <2>4, <2>5, AdapterRests
  <2>7. Rewrites(mgr, mgr') /\ NonePowersOn(mgr, mgr')
    BY <1>0, <2>1, RecordDiscoveryRewrites
  <2> QED BY <1>0, <2>1, <2>6, <2>7, SuspicionGrows, NoneIsEarned DEF SensorInv
<1>7. CASE StepNothing
  <2>1. UNCHANGED <<mgr, outage, steady>>
    BY <1>7 DEF StepNothing
  <2>2. /\ DOMAIN ada' = AdapterFields
        /\ ada'.phase = ada.phase /\ ada'.trusted = ada.trusted
        /\ ada'.conversion = ada.conversion
    <3>1. CASE CycleDue
      <4>1. ada' = [ada EXCEPT !.next = PollInterval]
        BY <1>7, <3>1 DEF StepNothing
      <4>2. DOMAIN ada' = AdapterFields
        BY <1>0, <4>1
      <4> QED BY <1>0, <4>1, <4>2 DEF AdapterFields
    <3>2. CASE ~CycleDue
      BY <1>0, <1>7, <3>2 DEF StepNothing
    <3> QED BY <3>1, <3>2
  <2>3. AdapterInv'
    BY <2>1, <2>2 DEF SensorInv, AdapterInv, Converted
  <2> QED BY <1>0, <2>1, <2>3, SameManager, SuspicionGrows, NoneIsEarned DEF SensorInv
<1>8. \/ ReadingDue /\ ReadOne
      \/ ConversionStarted \/ ConversionFailed \/ Broken
      \/ ScanFound \/ ScanFailed
      \/ StepNothing
  BY DEF SensorStep, StartConversion, PerformDiscovery
<1> QED BY <1>0, <1>1, <1>2, <1>3, <1>4, <1>5, <1>6, <1>7, <1>8

LEMMA TickSteps ==
    ASSUME SensorInv, SensorTick
    PROVE  SensorInv' /\ PowerOnIsEarned
<1> DEFINE c == IF Converted THEN ada.conversion ELSE -ConversionWait
           d == CountDown(ada.discovery)
           x == CountDown(ada.next)
           v == IF ada.conversion = None \/ ada.conversion = MaxLate THEN ada.conversion
                ELSE ada.conversion + 1
<1>1. /\ DOMAIN ada = AdapterFields /\ ada.trusted \subseteq steady /\ Supplied(mgr)
      /\ Converted => ada.conversion \in -ConversionWait .. MaxLate /\ WrittenBefore(mgr, ada.conversion)
      /\ ada.phase = "reading" => ada.conversion >= 0
  BY DEF SensorInv, AdapterInv
<1>2. mgr' = AgeReadings(mgr) /\ UNCHANGED <<adopted, outage, steady>>
  BY DEF SensorTick
<1>3. ada' = [ada EXCEPT !.discovery = d, !.next = x, !.conversion = v]
  BY DEF SensorTick
<1>4. c \in -ConversionWait .. MaxLate /\ (WrittenBefore(mgr, c) \/ c = -ConversionWait)
  BY <1>1, SensorAgesAssumption, SensorIntervalsAssumption
<1>5. Converted => c = ada.conversion /\ WrittenBefore(mgr, c) /\ c # MaxLate
  BY <1>1 DEF Converted, SensorTick, Overdue
<1>6. Converted => v \in {c, c + 1}
  BY <1>5
<1> HIDE DEF c, d, x, v
<1>7. /\ Rewrites(mgr, mgr') /\ NonePowersOn(mgr, mgr')
      /\ c # MaxLate /\ WrittenBefore(mgr, c) => WrittenBefore(mgr', c + 1)
  BY <1>1, <1>2, <1>4, AgeReadingsRewrites
<1>8. DOMAIN ada' = AdapterFields
  BY <1>1, <1>3
<1>9. ada'.phase = ada.phase /\ ada'.trusted = ada.trusted /\ ada'.conversion = v
  BY <1>1, <1>3 DEF AdapterFields
<1>10. ASSUME Converted PROVE v \in -ConversionWait .. MaxLate /\ WrittenBefore(mgr', v) /\ (c >= 0 => v >= 0)
  <2>1. v \in -ConversionWait .. MaxLate /\ v <= c + 1 /\ (c >= 0 => v >= 0)
    BY <1>4, <1>5, <1>6, <1>10, SensorAgesAssumption, SensorIntervalsAssumption
  <2>2. WrittenBefore(mgr', c + 1)
    BY <1>5, <1>7, <1>10
  <2>3. Supplied(mgr')
    BY <1>7 DEF Rewrites
  <2>4. \A rom \in Sensors : mgr'.reading[rom] # None =>
           mgr'.reading[rom].updated \in 0 .. MaxLate \cup {None}
    <3>1. \A rom \in Sensors : mgr'.reading[rom] \in Readings \cup {None}
      BY <2>3 DEF Supplied, Managers
    <3> QED BY <3>1 DEF Readings
  <2> QED BY <1>4, <2>1, <2>2, <2>4, SensorAgesAssumption, SensorIntervalsAssumption DEF WrittenBefore
<1>11. AdapterInv'
  <2>1. Converted' <=> Converted
    BY <1>9 DEF Converted
  <2>2. ada'.phase = "reading" => Converted /\ c >= 0
    BY <1>1, <1>5, <1>9 DEF Converted
  <2> QED BY <1>1, <1>2, <1>8, <1>9, <1>10, <2>1, <2>2 DEF AdapterInv
<1> QED BY <1>2, <1>7, <1>11, SuspicionGrows, NoneIsEarned DEF SensorInv

(* The owner's requests leave the manager alone. *)
LEMMA RequestSteps ==
    ASSUME SensorInv, RequestDiscovery \/ SensorDeinit
    PROVE  SensorInv' /\ PowerOnIsEarned
<1>0. DOMAIN ada = AdapterFields /\ ada.trusted \subseteq steady
  BY DEF SensorInv, AdapterInv
<1>1. UNCHANGED <<mgr, adopted, outage, steady>>
  BY DEF RequestDiscovery, SensorDeinit
<1>2. AdapterInv'
  <2>1. CASE RequestDiscovery
    <3>1. DOMAIN ada' = AdapterFields
      BY <1>0, <2>1 DEF RequestDiscovery
    <3>2. /\ ada'.phase = ada.phase /\ ada'.trusted = ada.trusted
          /\ ada'.conversion = ada.conversion
      BY <1>0, <2>1 DEF RequestDiscovery, AdapterFields
    <3> QED BY <1>1, <3>1, <3>2 DEF SensorInv, AdapterInv, Converted
  <2>2. CASE SensorDeinit
    <3>1. DOMAIN ada' = AdapterFields
      BY <1>0, <2>2 DEF SensorDeinit
    <3>2. ada'.phase = "closed" /\ ada'.trusted = ada.trusted
      BY <1>0, <2>2 DEF SensorDeinit, AdapterFields
    <3> QED BY <1>0, <1>1, <3>1, <3>2, AdapterRests
  <2> QED BY <2>1, <2>2
<1> QED BY <1>1, <1>2, SameManager, SuspicionGrows, NoneIsEarned DEF SensorInv

(* A change of the assignment takes the sensor from the controller that holds on to   *)
(* it, or leaves it.                                                                  *)
LEMMA ReassignSteps ==
    ASSUME SensorInv, Reassign
    PROVE  SensorInv' /\ PowerOnIsEarned
<1>1. PICK a \in Assignments :
         /\ mgr' = ConfigureAssignments(mgr, a)
         /\ outage' = (outage \/ (adopted # None /\ a[adopted.role] # adopted.rom))
         /\ UNCHANGED <<ada, adopted, steady>>
  BY DEF Reassign
<1>2. /\ Supplied(mgr') /\ NonePowersOn(mgr, mgr')
      /\ \A c \in Int : WrittenBefore(mgr, c) => WrittenBefore(mgr', c)
      /\ \A role \in Roles, rom \in Sensors : \A out \in BOOLEAN :
            Holds(mgr, role, rom, out) => Holds(mgr', role, rom, out \/ a[role] # rom)
  BY <1>1, ConfigureHolds DEF SensorInv
<1>3. AdapterInv'
  <2>1. Converted => ada.conversion \in Int
    BY DEF SensorInv, AdapterInv
  <2> QED BY <1>1, <1>2, <2>1 DEF SensorInv, AdapterInv, Converted
<1>4. HeldInv'
  <2> SUFFICES ASSUME adopted # None
               PROVE  /\ adopted.role \in Roles /\ adopted.rom \in Sensors /\ outage' \in BOOLEAN
                      /\ Holds(mgr', adopted.role, adopted.rom, outage')
    BY <1>1 DEF HeldInv
  <2>1. /\ adopted.role \in Roles /\ adopted.rom \in Sensors /\ outage \in BOOLEAN
        /\ Holds(mgr, adopted.role, adopted.rom, outage)
    BY DEF SensorInv, HeldInv
  <2>2. outage' = (outage \/ a[adopted.role] # adopted.rom)
    BY <1>1
  <2> QED BY <1>2, <2>1, <2>2
<1> QED BY <1>2, <1>3, <1>4, NoneIsEarned DEF SensorInv

LEMMA LookSteps ==
    ASSUME SensorInv, LookAt
    PROVE  SensorInv' /\ PowerOnIsEarned
<1>1. PICK role \in Roles :
         mgr' = RefreshRole(mgr, role, 0) /\ UNCHANGED <<ada, adopted, outage, steady>>
  BY DEF LookAt
<1>2. {role} \in SUBSET Roles /\ mgr' = RefreshRoles(mgr, {role}, 0)
  BY <1>1 DEF RefreshRole
<1>3. /\ Rewrites(mgr, mgr') /\ NonePowersOn(mgr, mgr')
      /\ \A rom \in Sensors :
            mgr.reading[rom] # None => mgr'.reading[rom].updated = mgr.reading[rom].updated
  BY <1>2, RefreshRewrites DEF SensorInv
<1>4. AdapterInv'
  <2>1. WrittenBefore(mgr, ada.conversion) => WrittenBefore(mgr', ada.conversion)
    BY <1>3 DEF Rewrites, WrittenBefore
  <2> QED BY <1>1, <2>1 DEF SensorInv, AdapterInv, Converted
<1> QED BY <1>1, <1>3, <1>4, SuspicionGrows, NoneIsEarned DEF SensorInv

LEMMA ZeroedIsTyped ==
    ASSUME NEW r \in Readings \cup {None}
    PROVE  /\ Zeroed(r) \in Readings \cup {None}
           /\ (Zeroed(r) = None) <=> (r = None)
           /\ r # None => Zeroed(r).updated = r.updated /\ Zeroed(r).value = r.value
<1>1. CASE r = None
  BY <1>1 DEF Zeroed
<1>2. CASE r # None
  <2>1. Zeroed(r) = [r EXCEPT !.generation = 0] /\ r \in Readings
    BY <1>2 DEF Zeroed
  <2>2. /\ Zeroed(r) \in Readings /\ Zeroed(r).updated = r.updated /\ Zeroed(r).value = r.value
    BY <2>1, SensorAgesAssumption DEF Readings
  <2> QED BY <1>2, <2>2, NoneIsNoReading
<1> QED BY <1>1, <1>2

(* What the controller adopts is in order. *)
LEMMA AdoptSteps ==
    ASSUME SensorInv, Adopt
    PROVE  SensorInv' /\ PowerOnIsEarned
<1>1. PICK role \in Roles :
         LET seen == Snapshot(mgr, role)
         IN /\ seen.health = "ok" /\ seen.present = TRUE
            /\ mgr' = LET m == RefreshRole(mgr, role, 0)
                      IN [m EXCEPT !.revision = [r \in Roles |-> 0],
                                   !.reading = [rom \in Sensors |-> Zeroed(@[rom])]]
            /\ adopted' = [role |-> role, rom |-> seen.rom]
            /\ outage' = FALSE
            /\ UNCHANGED <<ada, steady>>
  BY DEF Adopt
<1> DEFINE m == RefreshRole(mgr, role, 0)
           q == [rom \in Sensors |-> Zeroed(m.reading[rom])]
           z == [r \in Roles |-> 0]
<1>2. {role} \in SUBSET Roles /\ m = RefreshRoles(mgr, {role}, 0)
  BY DEF RefreshRole
<1>3. /\ m.health[role] = "ok" /\ mgr' = [m EXCEPT !.revision = z, !.reading = q]
      /\ adopted' = [role |-> role, rom |-> m.assigned[role]] /\ outage' = FALSE
      /\ UNCHANGED <<ada, steady>>
  BY <1>1 DEF Snapshot
<1> HIDE DEF m
<1>4. /\ Rewrites(mgr, m) /\ NonePowersOn(mgr, m)
      /\ \A rom \in Sensors :
            mgr.reading[rom] # None => m.reading[rom].updated = mgr.reading[rom].updated
      /\ m.health[role] = Health(ReadingOf(mgr, role), 0)
  BY <1>2, RefreshRewrites DEF SensorInv
<1>5. Supplied(m) /\ m.assigned = mgr.assigned
  BY <1>4 DEF Rewrites
<1>6. m.assigned[role] # None /\ m.assigned[role] \in Sensors
  BY <1>3, <1>4, <1>5 DEF Health, ReadingOf, Supplied, Managers
<1>7. \A rom \in Sensors : m.reading[rom] \in Readings \cup {None}
  BY <1>5 DEF Supplied, Managers
<1>8. /\ q \in [Sensors -> Readings \cup {None}]
      /\ \A rom \in Sensors :
            /\ (q[rom] = None) <=> (m.reading[rom] = None)
            /\ m.reading[rom] # None => /\ q[rom].updated = m.reading[rom].updated
                                        /\ q[rom].value = m.reading[rom].value
  BY <1>7, ZeroedIsTyped
<1>9. z \in [Roles -> 0 .. MaxCount] /\ z[role] = 0
  BY SensorAgesAssumption
<1> HIDE DEF q, z
<1>10. /\ mgr' \in Managers /\ mgr'.assigned = m.assigned /\ mgr'.health = m.health
       /\ mgr'.reading = q
  BY <1>3, <1>5, <1>8, <1>9 DEF Supplied, Managers
<1>11. Supplied(mgr')
  BY <1>5, <1>8, <1>10 DEF Supplied, Managers
<1>12. AdapterInv'
  <2>1. WrittenBefore(mgr, ada.conversion) => WrittenBefore(mgr', ada.conversion)
    BY <1>4, <1>8, <1>10 DEF Rewrites, WrittenBefore
  <2> QED BY <1>3, <2>1 DEF SensorInv, AdapterInv, Converted
<1>13. HeldInv'
  <2>1. adopted'.role = role /\ adopted'.rom = m.assigned[role]
    BY <1>3
  <2> QED BY <1>3, <1>6, <1>10, <2>1 DEF HeldInv, Holds
<1>14. NonePowersOn(mgr, mgr')
  BY <1>4, <1>8, <1>10 DEF NonePowersOn
<1> QED BY <1>11, <1>12, <1>13, <1>14, NoneIsEarned DEF SensorInv

LEMMA SensorSteps == SensorInv /\ SensorNext => SensorInv' /\ PowerOnIsEarned
BY AdapterSteps, TickSteps, RequestSteps, ReassignSteps, LookSteps, AdoptSteps DEF SensorNext

LEMMA SensorsRest == SensorInv /\ UNCHANGED sensorVars => SensorInv'
BY DEF sensorVars, SensorInv, AdapterInv, HeldInv, Converted

LEMMA SensorsStart == SensorInit => SensorInv
<1> SUFFICES ASSUME SensorInit PROVE SensorInv
  OBVIOUS
<1>1. PICK a \in Assignments :
         mgr = [ConfigureAssignments(NewManager, a) EXCEPT !.revision = [role \in Roles |-> 0]]
  BY DEF SensorInit
<1> DEFINE z == [role \in Roles |-> 0]
           m == ConfigureAssignments(NewManager, a)
<1>2. Supplied(NewManager)
  BY SensorAgesAssumption DEF Supplied, Managers, NewManager, Healths
<1>3. Supplied(m)
  BY <1>2, ConfigureHolds
<1>4. z \in [Roles -> 0 .. MaxCount]
  BY SensorAgesAssumption
<1>5. mgr = [m EXCEPT !.revision = z]
  BY <1>1
<1> HIDE DEF m, z
<1>6. mgr \in Managers /\ mgr.assigned = m.assigned /\ mgr.reading = m.reading
  BY <1>3, <1>4, <1>5 DEF Supplied, Managers
<1>7. Supplied(mgr)
  BY <1>3, <1>6 DEF Supplied
<1>8. AdapterInv
  <2>1. ada = [phase |-> "idle", roms |-> {}, cycle |-> {}, trusted |-> {},
               requested |-> TRUE, discovery |-> 0, next |-> 0, conversion |-> None]
    BY DEF SensorInit
  <2>2. DOMAIN ada = AdapterFields /\ ada.trusted = {} /\ ada.phase = "idle"
    BY <2>1 DEF AdapterFields
  <2> QED BY <2>2 DEF AdapterInv, Converted
<1>9. HeldInv
  BY DEF SensorInit, HeldInv
<1> QED BY <1>7, <1>8, <1>9 DEF SensorInv

(* Where a natural number satisfies something, a least one does. *)
LEMMA LeastOf ==
    ASSUME NEW T \in SUBSET Nat, T # {}
    PROVE  \E x \in T : \A y \in T : x <= y
<1> DEFINE R == OpToRel(<, Nat)
<1>1. IsWellFoundedOn(R, Nat)
  BY NatLessThanWellFounded
<1> HIDE DEF R
<1>2. \E x \in T : \A y \in T : ~(<<y, x>> \in R)
  BY <1>1, WFMin
<1>3. \A x, y \in Nat : y < x => <<y, x>> \in R
  BY DEF R, OpToRel
<1>4. PICK x \in T : \A y \in T : ~(<<y, x>> \in R)
  BY <1>2
<1>5. \A y \in T : ~(y < x)
  BY <1>3, <1>4
<1> QED BY <1>5

(* The first sensor of a cycle is one of it. *)
LEMMA FirstIsThere ==
    ASSUME NEW cycle \in SUBSET Sensors, cycle # {}
    PROVE  First(cycle) \in cycle
<1> DEFINE places == {i \in DOMAIN Roms : Roms[i] \in cycle}
<1>1. DOMAIN Roms = 1 .. Len(Roms) /\ Len(Roms) \in Nat
  BY RomsAssumption
<1>2. places \in SUBSET Nat
  BY <1>1
<1>3. PICK rom \in cycle : rom \in Sensors
  OBVIOUS
<1>4. PICK i \in DOMAIN Roms : Roms[i] = rom
  BY <1>3 DEF Sensors, Range
<1>5. places # {} /\ \A i0 \in places : Roms[i0] \in cycle
  BY <1>3, <1>4
<1>6. First(cycle) = Roms[Min(places)]
  BY DEF First
<1> HIDE DEF places
<1>7. \E x \in places : \A y \in places : x <= y
  BY <1>2, <1>5, LeastOf
<1>8. Min(places) \in places
  BY <1>7 DEF Min
<1> QED BY <1>5, <1>6, <1>8

(* The adapter's record, with the sensors it is about to sample and to read. *)
Adapters ==
    [phase : AdapterPhases, roms : SUBSET Sensors, cycle : SUBSET Sensors,
     trusted : SUBSET Sensors, requested : BOOLEAN,
     discovery : 0 .. DiscoveryInterval, next : 0 .. PollInterval,
     conversion : -ConversionWait .. MaxLate \cup {None}]

Loaded(a) ==
    /\ a \in Adapters
    /\ a.phase = "conversion_ready" => a.roms # {}
    /\ a.phase \in {"wait_conversion", "reading"} => a.cycle # {}

LEMMA AdvanceIsLoaded ==
    ASSUME NEW a \in Adapters, a.cycle # {}
    PROVE  Loaded(Advance(a))
<1> DEFINE c == a.cycle \ {First(a.cycle)}
           x == IF a.next = 0 THEN PollInterval ELSE a.next
<1>1. c \in SUBSET Sensors /\ x \in 0 .. PollInterval /\ {} \in SUBSET Sensors
  BY SensorIntervalsAssumption DEF Adapters
<1>2. CASE c # {}
  <2> DEFINE b == [a EXCEPT !.phase = "reading", !.cycle = c]
  <2>1. Advance(a) = b
    BY <1>2 DEF Advance
  <2> HIDE DEF c
  <2>2. b \in Adapters /\ b.phase = "reading" /\ b.cycle = c
    BY <1>1 DEF Adapters, AdapterPhases
  <2> QED BY <1>2, <2>1, <2>2 DEF Loaded
<1>3. CASE c = {}
  <2> DEFINE b == [a EXCEPT !.phase = "idle", !.cycle = {}, !.conversion = None, !.next = x]
  <2>1. Advance(a) = b
    BY <1>3 DEF Advance
  <2> HIDE DEF x
  <2>2. b \in Adapters /\ b.phase = "idle"
    BY <1>1 DEF Adapters, AdapterPhases
  <2> QED BY <2>1, <2>2 DEF Loaded
<1> QED BY <1>2, <1>3

SensorsInOrder ==
    /\ Loaded(ada)
    /\ adopted \in [role : Roles, rom : Sensors] \cup {None}
    /\ outage \in BOOLEAN
    /\ steady \in SUBSET Sensors
    /\ disturbances \in 0 .. MaxDisturbances

LEMMA ReadIsLoaded ==
    ASSUME SensorsInOrder, ReadingDue, NEW trusted \in SUBSET Sensors,
           ada' = Advance([ada EXCEPT !.trusted = trusted])
    PROVE  Loaded(ada')
<1> DEFINE a == [ada EXCEPT !.trusted = trusted]
<1>1. ada \in Adapters /\ ada.cycle # {}
  BY DEF SensorsInOrder, Loaded, ReadingDue
<1>2. a \in Adapters /\ a.cycle = ada.cycle
  BY <1>1 DEF Adapters
<1> HIDE DEF a
<1>3. ada' = Advance(a)
  BY DEF a
<1> QED BY <1>1, <1>2, <1>3, AdvanceIsLoaded

LEMMA DisturbancesAreCounted ==
    ASSUME SensorsInOrder, Disturbed \/ UNCHANGED disturbances
    PROVE  disturbances' \in 0 .. MaxDisturbances
BY SensorIntervalsAssumption DEF SensorsInOrder, Disturbed

LEMMA AdapterInOrder ==
    ASSUME SensorsInOrder, SensorStep
    PROVE  SensorsInOrder'
<1>0. /\ ada \in Adapters /\ UNCHANGED adopted /\ steady \in SUBSET Sensors
      /\ outage \in BOOLEAN /\ {} \in SUBSET Sensors
      /\ PollInterval \in 0 .. PollInterval /\ DiscoveryInterval \in 0 .. DiscoveryInterval
  BY SensorIntervalsAssumption DEF SensorsInOrder, Loaded, SensorStep
<1>1. CASE Broken
  <2>1. ada' = [ada EXCEPT !.phase = "closed", !.trusted = {}] /\ steady' = {}
        /\ Disturbed /\ UNCHANGED outage
    BY <1>1 DEF Broken
  <2>2. Loaded(ada')
    BY <1>0, <2>1 DEF Loaded, Adapters, AdapterPhases
  <2> QED BY <1>0, <2>1, <2>2, DisturbancesAreCounted DEF SensorsInOrder
<1>2. CASE ReadingDue /\ (ReadFailed \/ ReadPowerOnUntrusted \/ ReadAccepted)
  <2> DEFINE rom == First(ada.cycle)
  <2>1. rom \in Sensors
    BY <1>2, FirstIsThere DEF SensorsInOrder, Loaded, ReadingDue, Adapters
  <2>2. CASE ReadFailed
    <3>1. ada' = Advance([ada EXCEPT !.trusted = ada.trusted \ {rom}])
          /\ steady' = steady \ {rom} /\ Disturbed /\ UNCHANGED outage
      BY <2>2 DEF ReadFailed
    <3>2. ada.trusted \ {rom} \in SUBSET Sensors
      BY <1>0 DEF Adapters
    <3>3. Loaded(ada')
      BY <1>2, <3>1, <3>2, ReadIsLoaded
    <3> QED BY <1>0, <3>1, <3>3, DisturbancesAreCounted DEF SensorsInOrder
  <2>3. CASE ReadPowerOnUntrusted
    <3>1. ada' = Advance(ada) /\ steady' = steady \ {rom} /\ Disturbed /\ UNCHANGED outage
      BY <2>3 DEF ReadPowerOnUntrusted
    <3>2. ada.cycle # {}
      BY <1>2 DEF SensorsInOrder, Loaded, ReadingDue
    <3>3. Loaded(ada')
      BY <1>0, <3>1, <3>2, AdvanceIsLoaded
    <3> QED BY <1>0, <3>1, <3>3, DisturbancesAreCounted DEF SensorsInOrder
  <2>4. CASE ReadAccepted
    <3>1. /\ ada' = Advance([ada EXCEPT !.trusted = ada.trusted \cup {rom}])
          /\ steady' \in {steady, steady \cup {rom}}
          /\ Disturbed \/ UNCHANGED disturbances
          /\ outage' \in BOOLEAN
      BY <1>0, <2>4 DEF ReadAccepted
    <3>2. ada.trusted \cup {rom} \in SUBSET Sensors /\ steady' \in SUBSET Sensors
      BY <1>0, <2>1, <3>1 DEF Adapters
    <3>3. Loaded(ada')
      BY <1>2, <3>1, <3>2, ReadIsLoaded
    <3> QED BY <1>0, <3>1, <3>2, <3>3, DisturbancesAreCounted DEF SensorsInOrder
  <2> QED BY <1>2, <2>2, <2>3, <2>4
<1>3. CASE ConversionStarted /\ ada.roms # {}
  <2> DEFINE c == -ConversionWait
  <2>1. ada' = [ada EXCEPT !.phase = "wait_conversion", !.cycle = ada.roms,
                           !.conversion = c, !.next = PollInterval]
        /\ UNCHANGED <<outage, steady, disturbances>>
    BY <1>3 DEF ConversionStarted
  <2>2. c \in -ConversionWait .. MaxLate \cup {None} /\ ada.roms \in SUBSET Sensors
    BY <1>0, SensorAgesAssumption, SensorIntervalsAssumption DEF Adapters
  <2> HIDE DEF c
  <2>3. ada' \in Adapters /\ ada'.phase = "wait_conversion" /\ ada'.cycle = ada.roms
    BY <1>0, <2>1, <2>2 DEF Adapters, AdapterPhases
  <2>4. Loaded(ada')
    BY <1>3, <2>3 DEF Loaded
  <2> QED BY <1>0, <2>1, <2>4, DisturbancesAreCounted DEF SensorsInOrder
<1>4. CASE ConversionFailed
  <2>1. ada' = [ada EXCEPT !.phase = "idle", !.cycle = {}, !.trusted = {},
                           !.next = PollInterval]
        /\ steady' = {} /\ Disturbed /\ UNCHANGED outage
    BY <1>4 DEF ConversionFailed, AfterFailedConversion
  <2>2. ada' \in Adapters /\ ada'.phase = "idle"
    BY <1>0, <2>1 DEF Adapters, AdapterPhases
  <2> QED BY <1>0, <2>1, <2>2, DisturbancesAreCounted DEF SensorsInOrder, Loaded
<1>5. CASE ScanFailed
  <2>1. ada' = [ada EXCEPT !.phase = "idle", !.trusted = {}, !.requested = FALSE,
                           !.discovery = DiscoveryInterval, !.next = PollInterval]
        /\ steady' = {} /\ Disturbed /\ UNCHANGED outage
    BY <1>5 DEF ScanFailed
  <2>2. ada' \in Adapters /\ ada'.phase = "idle"
    BY <1>0, <2>1 DEF Adapters, AdapterPhases
  <2> QED BY <1>0, <2>1, <2>2, DisturbancesAreCounted DEF SensorsInOrder, Loaded
<1>6. CASE ScanFound
  <2>1. PICK found \in SUBSET Sensors :
           /\ ada' = [ada EXCEPT
                        !.phase = IF found = {} THEN "idle" ELSE "conversion_ready",
                        !.roms = found,
                        !.trusted = @ \cap found,
                        !.requested = FALSE,
                        !.discovery = DiscoveryInterval,
                        !.next = IF found = {} THEN PollInterval ELSE @]
           /\ steady' = steady \cap found
           /\ Disturbed \/ UNCHANGED disturbances
           /\ UNCHANGED outage
    BY <1>6 DEF ScanFound
  <2> DEFINE p == IF found = {} THEN "idle" ELSE "conversion_ready"
             x == IF found = {} THEN PollInterval ELSE ada.next
             t == ada.trusted \cap found
  <2>2. ada' = [ada EXCEPT !.phase = p, !.roms = found, !.trusted = t, !.requested = FALSE,
                           !.discovery = DiscoveryInterval, !.next = x]
    BY <2>1
  <2>3. p \in AdapterPhases /\ t \in SUBSET Sensors /\ x \in 0 .. PollInterval
    BY <1>0 DEF Adapters, AdapterPhases
  <2>4. p \notin {"wait_conversion", "reading"} /\ (p = "conversion_ready" => found # {})
    OBVIOUS
  <2> HIDE DEF p, x, t
  <2>5. ada' \in Adapters /\ ada'.phase = p /\ ada'.roms = found
    BY <1>0, <2>2, <2>3 DEF Adapters
  <2>6. Loaded(ada') /\ steady' \in SUBSET Sensors
    BY <1>0, <2>1, <2>4, <2>5 DEF Loaded
  <2> QED BY <1>0, <2>1, <2>6, DisturbancesAreCounted DEF SensorsInOrder
<1>7. CASE StepNothing
  <2>1. ada' \in {ada, [ada EXCEPT !.next = PollInterval]}
        /\ UNCHANGED <<outage, steady, disturbances>>
    BY <1>7 DEF StepNothing
  <2>2. ada' \in Adapters /\ ada'.phase = ada.phase /\ ada'.roms = ada.roms
        /\ ada'.cycle = ada.cycle
    BY <1>0, <2>1 DEF Adapters
  <2>3. Loaded(ada')
    BY <2>2 DEF Loaded, SensorsInOrder
  <2> QED BY <1>0, <2>1, <2>3, DisturbancesAreCounted DEF SensorsInOrder
<1>8. ConversionDirect \/ ada.roms # {} => ada.roms # {}
  BY DEF ConversionDirect, SensorsInOrder, Loaded
<1>9. \/ ReadingDue /\ (ReadFailed \/ ReadPowerOnUntrusted \/ ReadAccepted)
      \/ ConversionStarted /\ ada.roms # {}
      \/ ConversionFailed \/ Broken \/ ScanFound \/ ScanFailed \/ StepNothing
  BY <1>8 DEF SensorStep, StartConversion, PerformDiscovery, ReadOne
<1> QED BY <1>1, <1>2, <1>3, <1>4, <1>5, <1>6, <1>7, <1>9

LEMMA RestInOrder ==
    ASSUME SensorInv', SensorsInOrder,
           SensorTick \/ RequestDiscovery \/ SensorDeinit \/ Reassign \/ LookAt \/ Adopt
    PROVE  SensorsInOrder'
<1>0. /\ ada \in Adapters /\ steady \in SUBSET Sensors /\ outage \in BOOLEAN
      /\ adopted \in [role : Roles, rom : Sensors] \cup {None}
  BY DEF SensorsInOrder, Loaded
<1>1. CASE SensorTick
  <2> DEFINE d == CountDown(ada.discovery)
             x == CountDown(ada.next)
             v == IF ada.conversion = None \/ ada.conversion = MaxLate THEN ada.conversion
                  ELSE ada.conversion + 1
  <2>1. ada' = [ada EXCEPT !.discovery = d, !.next = x, !.conversion = v]
        /\ UNCHANGED <<adopted, outage, steady, disturbances>>
    BY <1>1 DEF SensorTick
  <2>2. d \in 0 .. DiscoveryInterval /\ x \in 0 .. PollInterval
    BY <1>0, SensorIntervalsAssumption DEF CountDown, Adapters
  <2>3. v \in -ConversionWait .. MaxLate \cup {None}
    <3>1. ada.conversion \in -ConversionWait .. MaxLate \cup {None}
      BY <1>0 DEF Adapters
    <3> QED BY <3>1, SensorAgesAssumption, SensorIntervalsAssumption
  <2> HIDE DEF d, x, v
  <2>4. ada' \in Adapters /\ ada'.phase = ada.phase /\ ada'.roms = ada.roms
        /\ ada'.cycle = ada.cycle
    BY <1>0, <2>1, <2>2, <2>3 DEF Adapters
  <2>5. Loaded(ada')
    BY <2>4 DEF Loaded, SensorsInOrder
  <2> QED BY <1>0, <2>1, <2>5, DisturbancesAreCounted DEF SensorsInOrder
<1>2. CASE RequestDiscovery \/ SensorDeinit
  <2>1. /\ ada' \in {[ada EXCEPT !.requested = TRUE], [ada EXCEPT !.phase = "closed"]}
        /\ Disturbed /\ UNCHANGED <<adopted, outage, steady>>
    BY <1>2 DEF RequestDiscovery, SensorDeinit
  <2>2. ada' \in Adapters /\ ada'.phase \in {ada.phase, "closed"} /\ ada'.roms = ada.roms
        /\ ada'.cycle = ada.cycle
    BY <1>0, <2>1 DEF Adapters, AdapterPhases
  <2>3. Loaded(ada')
    BY <2>2 DEF Loaded, SensorsInOrder
  <2> QED BY <1>0, <2>1, <2>3, DisturbancesAreCounted DEF SensorsInOrder
<1>3. CASE Reassign
  <2>1. Disturbed /\ UNCHANGED <<ada, adopted, steady>> /\ outage' \in BOOLEAN
    BY <1>3 DEF Reassign
  <2> QED BY <1>0, <2>1, DisturbancesAreCounted DEF SensorsInOrder
<1>4. CASE LookAt
  BY <1>4 DEF LookAt, SensorsInOrder
<1>5. CASE Adopt
  <2>1. PICK role, rom : adopted' = [role |-> role, rom |-> rom]
    BY <1>5 DEF Adopt
  <2>2. adopted' = None \/ (role \in Roles /\ rom \in Sensors)
    BY <2>1 DEF SensorInv, HeldInv
  <2>3. outage' = FALSE /\ UNCHANGED <<ada, steady, disturbances>>
    BY <1>5 DEF Adopt
  <2> QED BY <2>1, <2>2, <2>3 DEF SensorsInOrder
<1> QED BY <1>1, <1>2, <1>3, <1>4, <1>5

LEMMA SensorsStayInOrder ==
    ASSUME SensorInv, SensorsInOrder, [SensorNext]_sensorVars
    PROVE  SensorInv' /\ SensorsInOrder'
<1>1. CASE UNCHANGED sensorVars
  BY <1>1, SensorsRest DEF sensorVars, SensorsInOrder
<1>2. CASE SensorNext
  <2>1. SensorInv'
    BY <1>2, SensorSteps
  <2> QED BY <1>2, <2>1, AdapterInOrder, RestInOrder DEF SensorNext
<1> QED BY <1>1, <1>2

LEMMA SensorsStartInOrder == SensorInit => SensorsInOrder
<1> SUFFICES ASSUME SensorInit PROVE SensorsInOrder
  OBVIOUS
<1>1. ada = [phase |-> "idle", roms |-> {}, cycle |-> {}, trusted |-> {},
             requested |-> TRUE, discovery |-> 0, next |-> 0, conversion |-> None]
  BY DEF SensorInit
<1>2. ada \in Adapters /\ ada.phase = "idle"
  BY <1>1, SensorIntervalsAssumption DEF Adapters, AdapterPhases
<1>3. Loaded(ada)
  BY <1>2 DEF Loaded
<1>4. adopted = None /\ outage = FALSE /\ steady = {} /\ disturbances = 0
  BY DEF SensorInit
<1>5. 0 \in 0 .. MaxDisturbances
  BY SensorIntervalsAssumption
<1> QED BY <1>3, <1>4, <1>5 DEF SensorsInOrder

LEMMA SensorsTyped == SensorInv /\ SensorsInOrder => SensorTypeOK
BY DEF SensorInv, Supplied, SensorsInOrder, Loaded, Adapters, SensorTypeOK

(* The controller's look is the last refresh, which counts what has failed by now.    *)
LEMMA OutagesLeaveTheirTrace == SensorInv => OutageLeavesTrace
<1> SUFFICES ASSUME SensorInv, adopted # None, outage
             PROVE  LET seen == Snapshot(mgr, adopted.role)
                    IN ~(/\ seen.usable
                         /\ seen.rom = adopted.rom
                         /\ seen.revision = 0
                         /\ seen.generation = 0)
  BY DEF OutageLeavesTrace
<1> DEFINE role == adopted.role
           n == RefreshRole(mgr, role, 0)
           seen == Snapshot(mgr, role)
<1>1. /\ role \in Roles /\ adopted.rom \in Sensors
      /\ Holds(mgr, role, adopted.rom, outage) /\ Supplied(mgr)
  BY DEF SensorInv, HeldInv
<1>2. {role} \in SUBSET Roles /\ n = RefreshRoles(mgr, {role}, 0)
  BY <1>1 DEF RefreshRole
<1>3. /\ seen.rom = n.assigned[role] /\ seen.revision = n.revision[role]
      /\ ReadingOf(n, role) # None => seen.generation = ReadingOf(n, role).generation
  BY DEF Snapshot
<1> HIDE DEF n, seen, role
<1>4. Rewrites(mgr, n) /\ Supplied(n)
  <2>1. Rewrites(mgr, n)
    BY <1>1, <1>2, RefreshRewrites
  <2> QED BY <2>1 DEF Rewrites
<1>5. Holds(n, role, adopted.rom, outage)
  BY <1>1, <1>4, RewritesHold
<1>6. n.revision[role] = 0 => ReadingOf(n, role) # None /\ ReadingOf(n, role).generation # 0
  BY <1>1, <1>4, <1>5 DEF Holds, ReadingOf, Supplied
<1> QED BY <1>3, <1>6 DEF seen, role

(* What the controller holds on to through SensorInv: _apply_sensor_policy() compares *)
(* revision and generation with what it adopted, and record_valid() and               *)
(* _refresh_role() have counted every gap of FailedAfter by then, whoever looked and  *)
(* however late; and the 85 degrees of a sensor's reset are taken for a value only    *)
(* where the sensor has delivered since its last failure (_read_one()).               *)
THEOREM OutagesLeaveTraces == SensorSpec => OutagesAreSeen
<1>1. SensorInit => SensorInv
  BY SensorsStart
<1>2. SensorInv /\ [SensorNext]_sensorVars => SensorInv'
  BY SensorSteps, SensorsRest
<1>3. SensorInv /\ SensorInv' /\ [SensorNext]_sensorVars =>
         [OutageLeavesTrace' /\ PowerOnIsEarned]_sensorVars
  <2>1. SensorInv' => OutageLeavesTrace'
    BY OutagesLeaveTheirTrace, PTL
  <2> QED BY <2>1, SensorSteps
<1> QED BY <1>1, <1>2, <1>3, PTL DEF SensorSpec, OutagesAreSeen

-----------------------------------------------------------------------------
(* What holds of the radio's manager for any number of networks, any intervals     *)
(* and any number of failures.                                                  *)

NetFields == {"life", "phase", "action", "check", "poll", "since", "deferred", "resume",
              "resumeIn", "index", "exponent", "link", "ap"}

(* The records keep their fields. *)
Furnished(n) == DOMAIN n = NetFields

Typed(n) ==
    /\ n.life \in {"running", "faulted", "closed"}
    /\ n.phase \in Supervised \cup {"hostname", "ap", "closed"}
    /\ n.resume \in Supervised \cup {None}
    /\ n.link \in {"idle", "connecting", "got_ip", "failed"}
    /\ n.index \in 0 .. Profiles
    /\ n.exponent \in 0 .. MaxExponent

(* The access point is passed over by a station that had waited, and then no station  *)
(* waits.                                                                       *)
ApPassed == passed.ap = 0 \/ (passed.ap = 1 /\ ~net.deferred)

(* A station that has been passed over waits, and stays due. *)
StationPassed ==
    \/ passed.station = 0
    \/ /\ passed.station = 1
       /\ Runs => net.deferred /\ ActionDue /\ net.phase \in Supervised

Fair == passed = [ap |-> passed.ap, station |-> passed.station] /\ ApPassed /\ StationPassed

NetInv == Furnished(net) /\ Typed(net) /\ radio \in BOOLEAN /\ Fair

-------------------------------------------------------------------------------
LEMMA NetInitSafe == NetInit => NetInv
<1> SUFFICES ASSUME NetInit PROVE NetInv
  OBVIOUS
<1>1. Furnished(net)
  BY DEF NetInit, Furnished, NetFields
<1>2. Typed(net)
  BY NetworkAssumption DEF NetInit, Typed
<1>3. Fair
  BY DEF NetInit, Fair, ApPassed, StationPassed
<1> QED BY <1>1, <1>2, <1>3 DEF NetInit, NetInv

(* Every step of the station leaves a formed and typed record; whether a station      *)
(* waits is up to its turn alone.                                                *)
StationResult(n) ==
    /\ Furnished(n) /\ Typed(n)
    /\ n.deferred = Taken.deferred

LEMMA TakenIsTyped ==
    ASSUME NetInv
    PROVE  StationResult(Taken)
  BY DEF NetInv, StationResult, Taken, Furnished, NetFields, Typed

LEMMA DroppedIsTyped ==
    ASSUME NEW n, StationResult(n)
    PROVE  StationResult(Dropped(n))
  BY DEF StationResult, Dropped, Furnished, NetFields, Typed, Supervised

LEMMA NextIsTyped ==
    ASSUME NEW n, StationResult(n)
    PROVE  StationResult(NextProfile(n))
<1> DEFINE grown == IF n.exponent < MaxExponent THEN n.exponent + 1 ELSE n.exponent
<1>1. grown \in 0 .. MaxExponent
  BY NetworkAssumption DEF StationResult, Typed
<1>2. CASE Profiles = 0
  BY <1>2 DEF StationResult, NextProfile, Furnished, NetFields, Typed
<1>3. CASE Profiles # 0 /\ n.index + 1 < Profiles
  BY <1>3, NetworkAssumption DEF StationResult, NextProfile, Furnished, NetFields, Typed
<1>4. CASE Profiles # 0 /\ ~(n.index + 1 < Profiles)
  <2>1. NextProfile(n) =
          [n EXCEPT !.index = 0, !.exponent = grown, !.action = Backoff(grown)]
    BY <1>4 DEF NextProfile
  <2> HIDE DEF grown
  <2> QED
    BY <2>1, <1>1, NetworkAssumption DEF StationResult, Furnished, NetFields, Typed
<1> QED BY <1>2, <1>3, <1>4

LEMMA StationKeeps ==
    ASSUME NetInv, ForStation, StationResult(net')
    PROVE  NetInv'
<1>1. net'.deferred <=> net.deferred /\ ~StationFirst
  BY DEF NetInv, StationResult, Taken, Furnished, NetFields
<1>2. CheckDue => net.deferred /\ StationFirst
  BY DEF ForStation, StationTurn, StationFirst
<1>3. /\ passed'.station = 0
      /\ passed'.ap = IF CheckDue THEN passed.ap + 1 ELSE passed.ap
      /\ passed' = [ap |-> passed'.ap, station |-> passed'.station]
  BY DEF ForStation
<1>4. Fair'
  <2>1. CASE CheckDue
    BY <2>1, <1>1, <1>2, <1>3 DEF NetInv, Fair, ApPassed, StationPassed
  <2>2. CASE ~CheckDue
    BY <2>2, <1>1, <1>3 DEF NetInv, Fair, ApPassed, StationPassed
  <2> QED BY <2>1, <2>2
<1> QED BY <1>4 DEF NetInv, StationResult, ForStation

-------------------------------------------------------------------------------
LEMMA PrepareKeeps == NetInv /\ PrepareStation => NetInv'
<1> SUFFICES ASSUME NetInv, PrepareStation PROVE NetInv'
  OBVIOUS
<1>1. StationResult(Taken)
  BY TakenIsTyped
<1>2. StationResult(net')
  BY <1>1 DEF PrepareStation, StationResult, Furnished, NetFields, Typed, Supervised
<1> QED BY <1>2, StationKeeps DEF PrepareStation

LEMMA DisconnectKeeps == NetInv /\ DisconnectStation => NetInv'
<1> SUFFICES ASSUME NetInv, DisconnectStation PROVE NetInv'
  OBVIOUS
<1> DEFINE left == [Taken EXCEPT !.link = "idle",
                                 !.phase = IF Profiles > 0 THEN "station_prepare"
                                           ELSE "running"]
<1>1. StationResult(Taken)
  BY TakenIsTyped
<1>2. StationResult(left)
  BY <1>1 DEF StationResult, Furnished, NetFields, Typed, Supervised
<1>3. StationResult(NextProfile(left))
  <2> HIDE DEF left
  <2> QED BY <1>2, NextIsTyped
<1>4. net' = NextProfile(left) \/ net' = [Taken EXCEPT !.action = ProfileGap]
  BY DEF DisconnectStation
<1>5. StationResult(net')
  <2> HIDE DEF left
  <2> QED BY <1>1, <1>3, <1>4 DEF StationResult, Furnished, NetFields, Typed
<1> QED BY <1>5, StationKeeps DEF DisconnectStation

LEMMA NoStationKeeps == NetInv /\ NoStation => NetInv'
<1> SUFFICES ASSUME NetInv, NoStation PROVE NetInv'
  OBVIOUS
<1>1. StationResult(net')
  BY TakenIsTyped DEF NoStation, StationResult, Furnished, NetFields, Typed
<1> QED BY <1>1, StationKeeps DEF NoStation

LEMMA PollKeeps == NetInv /\ PollStation => NetInv'
<1> SUFFICES ASSUME NetInv, PollStation PROVE NetInv'
  OBVIOUS
<1> DEFINE polled == [Taken EXCEPT !.poll = StationPoll, !.action = StationPoll]
           trying == [polled EXCEPT !.link = "connecting"]
           failed == [polled EXCEPT !.link = "failed"]
           lost == [Taken EXCEPT !.link = "idle"]
<1>1. StationResult(Taken)
  BY TakenIsTyped
<1>2. StationResult(polled) /\ StationResult(lost)
  BY <1>1 DEF StationResult, Furnished, NetFields, Typed
<1>3. StationResult(trying) /\ StationResult(failed)
  BY <1>2 DEF StationResult, Furnished, NetFields, Typed
<1>4. StationResult(Dropped(trying)) /\ StationResult(Dropped(failed))
         /\ StationResult(Dropped(lost))
  <2> HIDE DEF trying, failed, lost
  <2> QED BY <1>2, <1>3, DroppedIsTyped
<1>5. StationResult([Taken EXCEPT !.action = net.poll])
  BY <1>1 DEF StationResult, Furnished, NetFields, Typed
<1>6. StationResult([polled EXCEPT !.link = "got_ip", !.exponent = 0])
  BY <1>2, NetworkAssumption DEF StationResult, Furnished, NetFields, Typed
<1>7. \/ net' = [Taken EXCEPT !.action = net.poll]
      \/ net' = [polled EXCEPT !.link = "got_ip", !.exponent = 0]
      \/ net' = trying
      \/ net' \in {Dropped(trying), Dropped(failed), Dropped(lost)}
  BY DEF PollStation
<1>8. StationResult(net')
  <2> HIDE DEF polled, trying, failed, lost
  <2> QED BY <1>3, <1>4, <1>5, <1>6, <1>7
<1> QED BY <1>8, StationKeeps DEF PollStation

LEMMA ConnectKeeps == NetInv /\ ConnectStation => NetInv'
<1> SUFFICES ASSUME NetInv, ConnectStation PROVE NetInv'
  OBVIOUS
<1>1. StationResult(Taken)
  BY TakenIsTyped
<1>2. StationResult(Dropped(Taken))
  BY <1>1, DroppedIsTyped
<1>3. StationResult(net')
  BY <1>1, <1>2 DEF ConnectStation, StationResult, Furnished, NetFields, Typed
<1> QED BY <1>3, StationKeeps DEF ConnectStation

-------------------------------------------------------------------------------
(* What failure and repair of the access point leave of the station. *)

LEMMA FailedIsTyped ==
    ASSUME NetInv
    PROVE  /\ Furnished(ApFailed(net)) /\ Typed(ApFailed(net)) /\ ~ApFailed(net).deferred
           /\ Furnished(ApLost(net)) /\ Typed(ApLost(net)) /\ ~ApLost(net).deferred
<1>1. Furnished(Remembered(net)) /\ Typed(Remembered(net))
  BY DEF NetInv, Remembered, Furnished, NetFields, Typed
<1>2. Furnished(ApFailed(net)) /\ Typed(ApFailed(net)) /\ ~ApFailed(net).deferred
  BY <1>1 DEF ApFailed, Furnished, NetFields, Typed
<1> QED BY <1>2 DEF ApLost, Furnished, NetFields, Typed

LEMMA RepairedIsTyped ==
    ASSUME NetInv
    PROVE  Furnished(Repaired(net)) /\ Typed(Repaired(net)) /\ ~Repaired(net).deferred
<1> DEFINE phase == IF net.link = "got_ip" THEN "running"
                    ELSE IF net.resume # None THEN net.resume
                    ELSE IF Profiles > 0 THEN "station_prepare" ELSE "running"
<1>1. phase \in Supervised
  BY DEF NetInv, Typed, Supervised
<1>2. Repaired(net) =
        [net EXCEPT !.ap = TRUE, !.check = ApInterval, !.deferred = FALSE, !.phase = phase,
                    !.action = IF net.resume # None THEN net.resumeIn ELSE 0,
                    !.resume = None, !.resumeIn = 0]
  BY DEF Repaired
<1> HIDE DEF phase
<1> QED BY <1>1, <1>2 DEF NetInv, Furnished, NetFields, Typed

LEMMA HostnameKeeps == NetInv /\ Hostname => NetInv'
  BY DEF NetInv, Hostname, Furnished, NetFields, Typed, Supervised, Fair, ApPassed, StationPassed,
         Runs, ActionDue

LEMMA EnsureKeeps == NetInv /\ EnsureAp => NetInv'
<1> SUFFICES ASSUME NetInv, EnsureAp PROVE NetInv'
  OBVIOUS
<1>1. Furnished(net') /\ Typed(net') /\ radio' \in BOOLEAN
  BY FailedIsTyped, RepairedIsTyped DEF EnsureAp, NetInv
<1>2. passed.station = 0
  BY DEF NetInv, Fair, StationPassed, EnsureAp, Supervised
<1>3. Fair'
  BY <1>2 DEF NetInv, Fair, ApPassed, StationPassed, EnsureAp
<1> QED BY <1>1, <1>3 DEF NetInv

LEMMA CheckKeeps == NetInv /\ CheckAp => NetInv'
<1> SUFFICES ASSUME NetInv, CheckAp PROVE NetInv'
  OBVIOUS
<1>1. passed.station = 0
  BY DEF NetInv, Fair, StationPassed, CheckAp, ApTurn, StationFirst, Runs, Supervised
<1>2. CASE net' = [net EXCEPT !.ap = TRUE, !.check = ApInterval,
                              !.deferred = ActionDue /\ Profiles > 0]
              /\ passed' = [ap |-> 0, station |-> IF net'.deferred THEN passed.station + 1
                                                  ELSE passed.station]
  <2>1. Furnished(net') /\ Typed(net')
    BY <1>2 DEF NetInv, Furnished, NetFields, Typed
  <2>2. net'.deferred => net'.action = 0 /\ net'.phase \in Supervised
    BY <1>2 DEF NetInv, Furnished, NetFields, ActionDue, CheckAp, ApTurn, CheckDue
  <2>3. Fair'
    BY <1>1, <1>2, <2>2 DEF Fair, ApPassed, StationPassed, ActionDue
  <2> QED BY <2>1, <2>3 DEF NetInv, CheckAp
<1>3. CASE net' \in {ApLost(net), ApFailed(net)} /\ passed' = [passed EXCEPT !.ap = 0]
  <2>1. Furnished(net') /\ Typed(net')
    BY <1>3, FailedIsTyped
  <2>2. Fair'
    BY <1>1, <1>3 DEF NetInv, Fair, ApPassed, StationPassed
  <2> QED BY <2>1, <2>2 DEF NetInv, CheckAp
<1> QED BY <1>2, <1>3 DEF CheckAp

LEMMA BreaksKeeps == NetInv /\ NetBreaks => NetInv'
  BY DEF NetInv, NetBreaks, Furnished, NetFields, Typed, Fair, ApPassed, StationPassed, Runs

LEMMA CloseKeeps == NetInv /\ NetClose => NetInv'
  BY DEF NetInv, NetClose, Furnished, NetFields, Typed, Fair, ApPassed, StationPassed, Runs

LEMMA DropsKeeps == NetInv /\ RadioDrops => NetInv'
  BY DEF NetInv, RadioDrops, Furnished, NetFields, Typed, Fair, ApPassed, StationPassed, Runs,
         ActionDue

LEMMA TickKeeps == NetInv /\ NetTick => NetInv'
<1> SUFFICES ASSUME NetInv, NetTick PROVE NetInv'
  OBVIOUS
<1>1. Furnished(net') /\ Typed(net')
  BY DEF NetInv, NetTick, Furnished, NetFields, Typed
<1>2. /\ net'.deferred = net.deferred /\ net'.phase = net.phase /\ net'.life = net.life
      /\ net.action = 0 => net'.action = 0
  BY DEF NetInv, NetTick, Furnished, NetFields, Less
<1> QED BY <1>1, <1>2
  DEF NetInv, NetTick, Fair, ApPassed, StationPassed, Runs, ActionDue

LEMMA NetSteps == NetInv /\ [NetNext]_netVars => NetInv'
<1> SUFFICES ASSUME NetInv, [NetNext]_netVars PROVE NetInv'
  OBVIOUS
<1>1. CASE UNCHANGED netVars
  BY <1>1 DEF netVars, NetInv, Furnished, Typed, Fair, ApPassed, StationPassed, Runs, ActionDue
<1> QED
  BY <1>1, HostnameKeeps, EnsureKeeps, CheckKeeps, PrepareKeeps, DisconnectKeeps,
     NoStationKeeps, PollKeeps, ConnectKeeps, BreaksKeeps, CloseKeeps, DropsKeeps, TickKeeps
  DEF NetNext, NetStep

(* The invariant holds in every reachable state. *)
THEOREM NetworkInvariance == NetSpec => []NetInv
BY NetSteps, NetInitSafe, PTL DEF NetSpec

(* A due check of the access point is passed over once for a waiting station, and a    *)
(* station waits for one good check, however late the loop comes round                *)
(* (NetworkManager!NeitherStarves: _step_core()'s station_action_preferred).          *)
THEOREM NoSideStarves == NetSpec => []NeitherStarves
<1>1. NetInv => NeitherStarves
  BY DEF NetInv, Fair, ApPassed, StationPassed, NeitherStarves
<1> QED BY <1>1, NetworkInvariance, PTL

LEMMA NetIsTyped == NetInv => NetTypeOK
BY DEF NetInv, Typed, NetTypeOK

(* The manager's state is of its type, and the list of networks is never left.         *)
THEOREM NetworkTyped == NetSpec => []NetTypeOK
BY NetIsTyped, NetworkInvariance, PTL

-----------------------------------------------------------------------------
(* The radio is accounted for, for any number of ports and of faults.                  *)
(*                                                                               *)
(* AirInv says who may hold what: an open port is an owner, there is one owner at most,   *)
(* the lease stands for it, and a closed port has either given everything back or, once   *)
(* no call is under way for it, locked the radio.  A call under way belongs to the owner,  *)
(* and is marked exactly when its port was closed within.                               *)

Airs == [ap : BOOLEAN, sta : BOOLEAN, leased : BOOLEAN, poisoned : BOOLEAN,
         ports : [WiFiPorts -> PortRecords]]

(* Ports and lease *)
LeaseSound(a) ==
    /\ a \in Airs
    /\ \A p \in WiFiPorts :
          /\ a.ports[p].state = "open" => a.ports[p].owner
          /\ a.ports[p].owner => a.leased /\ a.ports[p].state # "unopened"
          /\ a.ports[p].state = "closed" => a.ports[p].owner \/ a.ports[p].finalized
          /\ a.ports[p].finalized => a.ports[p].state = "closed" /\ ~a.ports[p].owner
    /\ \A p, q \in WiFiPorts : a.ports[p].owner /\ a.ports[q].owner => p = q
    /\ a.leased => \E p \in WiFiPorts : a.ports[p].owner
    /\ a.ap \/ a.sta => a.leased \/ a.poisoned

(* With no call under way, whoever is closed and still an owner has locked the radio. *)
Locked(a) ==
    \A p \in WiFiPorts : a.ports[p].owner /\ a.ports[p].state = "closed" => a.poisoned

AirInv ==
    /\ LeaseSound(air)
    /\ calling = None => Locked(air)
    /\ calling # None =>
          /\ calling \in Callings
          /\ air.ports[calling.port].owner
          /\ calling.reentered <=> air.ports[calling.port].state = "closed"

(* What is left of an interface that is switched off *)
LEMMA SwitchedOffFacts ==
    ASSUME NEW on \in BOOLEAN, NEW o \in SwitchedOff(on)
    PROVE  /\ o.on \in BOOLEAN
           /\ o.on => on
           /\ o.failed = 0 => ~o.on
  <1>1. \/ o = [on |-> FALSE, failed |-> 0]
        \/ o = [on |-> FALSE, failed |-> 1]
        \/ o = [on |-> on, failed |-> 1]
    BY DEF SwitchedOff
  <1>2. CASE o = [on |-> FALSE, failed |-> 0]
    BY <1>2
  <1>3. CASE o = [on |-> FALSE, failed |-> 1]
    BY <1>3
  <1>4. CASE o = [on |-> on, failed |-> 1]
    BY <1>4
  <1> QED
    BY <1>1, <1>2, <1>3, <1>4

(* A port that closes touches no other, leaves the interfaces off or as they were, and      *)
(* either gives everything back or, between two calls, locks what it could not release.   *)
LEMMA DeinitFacts ==
    ASSUME NEW a \in Airs, NEW p \in WiFiPorts, NEW nested \in BOOLEAN, NEW faults,
           ~PortReleased(a, p), DeinitPort(a, p, nested, faults)
    PROVE  /\ air' \in Airs
           /\ \A q \in WiFiPorts : q # p => air'.ports[q] = a.ports[q]
           /\ air'.ports[p].state = "closed"
           /\ \/ /\ ~nested
                 /\ ~air'.ap /\ ~air'.sta
                 /\ ~air'.ports[p].owner /\ air'.ports[p].finalized
                 /\ air'.leased = (a.leased /\ ~a.ports[p].owner)
              \/ /\ air'.ports[p].owner = a.ports[p].owner
                 /\ air'.ports[p].finalized = a.ports[p].finalized
                 /\ air'.leased = a.leased
                 /\ a.poisoned => air'.poisoned
                 /\ ~nested /\ a.ports[p].owner => air'.poisoned
                 /\ air'.ap => a.ap
                 /\ air'.sta => a.sta
  <1>1. PICK sta \in SwitchedOff(a.sta), ap \in SwitchedOff(a.ap) :
            air' = Finalized(Cleaned(ClosedPort(a, p), p, sta, ap), p, nested)
    BY DEF DeinitPort
  <1>2. /\ sta.on \in BOOLEAN
        /\ sta.on => a.sta
        /\ sta.failed = 0 => ~sta.on
        /\ ap.on \in BOOLEAN
        /\ ap.on => a.ap
        /\ ap.failed = 0 => ~ap.on
    <2>1. a.sta \in BOOLEAN /\ a.ap \in BOOLEAN
      BY DEF Airs
    <2> QED
      BY <2>1, <1>1, SwitchedOffFacts
  <1> DEFINE c == ClosedPort(a, p)
             b == Cleaned(c, p, sta, ap)
  <1>4. /\ c \in Airs
        /\ c = [a EXCEPT !.ports = [@ EXCEPT ![p] = c.ports[p]]]
        /\ c.ports[p] = [a.ports[p] EXCEPT !.state = "closed", !.prepared = FALSE]
    BY DEF ClosedPort, Airs, PortRecords
  <1>5. /\ b \in Airs
        /\ \A q \in WiFiPorts : q # p => b.ports[q] = a.ports[q]
        /\ b.ports[p] = [a.ports[p] EXCEPT !.state = "closed", !.prepared = FALSE,
                                          !.staOff = (sta.failed = 0),
                                          !.disconnected = (sta.failed = 0),
                                          !.apOff = (ap.failed = 0)]
        /\ b.sta = sta.on
        /\ b.ap = ap.on
        /\ b.leased = a.leased
        /\ b.poisoned = a.poisoned
    <2> DEFINE port == [c.ports[p] EXCEPT !.staOff = (sta.failed = 0),
                                          !.disconnected = (sta.failed = 0),
                                          !.apOff = (ap.failed = 0)]
    <2>1. b = [c EXCEPT !.sta = sta.on, !.ap = ap.on, !.ports = [@ EXCEPT ![p] = port]]
      BY DEF Cleaned
    <2>2. c.ports[p] \in PortRecords /\ c.ports \in [WiFiPorts -> PortRecords]
      BY <1>4 DEF Airs
    <2>3. port \in PortRecords
      BY <2>2 DEF PortRecords
    <2>4. a.ports[p] \in PortRecords
      BY DEF Airs
    <2>5. port = [a.ports[p] EXCEPT !.state = "closed", !.prepared = FALSE,
                                    !.staOff = (sta.failed = 0),
                                    !.disconnected = (sta.failed = 0),
                                    !.apOff = (ap.failed = 0)]
      BY <1>4, <2>4 DEF PortRecords
    <2>6. /\ c.leased = a.leased
          /\ c.poisoned = a.poisoned
          /\ \A q \in WiFiPorts : q # p => c.ports[q] = a.ports[q]
      BY DEF ClosedPort, Airs
    <2> HIDE DEF port, b, c
    <2>7. /\ b \in Airs
          /\ b.ports = [c.ports EXCEPT ![p] = port]
          /\ b.sta = sta.on
          /\ b.ap = ap.on
          /\ b.leased = c.leased
          /\ b.poisoned = c.poisoned
      BY <1>2, <1>4, <2>1, <2>2, <2>3 DEF Airs
    <2> QED
      BY <2>2, <2>5, <2>6, <2>7
  <1>7. /\ b.ports[p].state = "closed"
        /\ b.ports[p].owner = a.ports[p].owner
        /\ b.ports[p].finalized = a.ports[p].finalized
        /\ CleanupComplete(b.ports[p]) => sta.failed = 0 /\ ap.failed = 0
    <2>1. a.ports[p] \in PortRecords
      BY DEF Airs
    <2> QED
      BY <2>1, <1>5 DEF CleanupComplete, PortRecords
  <1>6. air' = Finalized(b, p, nested)
    BY <1>1
  <1> HIDE DEF b, c
  <1>8. CASE CleanupComplete(b.ports[p]) /\ ~nested
    <2>1. air' = [b EXCEPT !.leased = @ /\ ~b.ports[p].owner,
                           !.poisoned = @ /\ ~b.ports[p].owner,
                           !.ports[p].owner = FALSE, !.ports[p].finalized = TRUE]
      BY <1>6, <1>8 DEF Finalized
    <2> DEFINE port == [b.ports[p] EXCEPT !.owner = FALSE, !.finalized = TRUE]
    <2>2. b.ports \in [WiFiPorts -> PortRecords] /\ b.ports[p] \in PortRecords
      BY <1>5 DEF Airs
    <2>3. /\ port \in PortRecords
          /\ port.state = b.ports[p].state
          /\ ~port.owner
          /\ port.finalized
      BY <2>2 DEF PortRecords
    <2>4. /\ air'.leased = (b.leased /\ ~b.ports[p].owner)
          /\ air'.poisoned = (b.poisoned /\ ~b.ports[p].owner)
          /\ air'.ap = b.ap
          /\ air'.sta = b.sta
          /\ air'.ports = [b.ports EXCEPT ![p] = port]
      BY <2>1, <2>2, <1>5 DEF Airs
    <2>8. air' = [ap |-> air'.ap, sta |-> air'.sta, leased |-> air'.leased,
                  poisoned |-> air'.poisoned, ports |-> air'.ports]
      BY <2>1, <2>2, <1>5 DEF Airs
    <2> HIDE DEF port
    <2>9. air' \in Airs
      <3>1. air'.ports \in [WiFiPorts -> PortRecords]
        BY <2>2, <2>3, <2>4
      <3>2. /\ air'.ap \in BOOLEAN
            /\ air'.sta \in BOOLEAN
            /\ air'.leased \in BOOLEAN
            /\ air'.poisoned \in BOOLEAN
        BY <2>4, <1>5 DEF Airs
      <3> QED
        BY <3>1, <3>2, <2>8 DEF Airs
    <2>5. ~air'.ap /\ ~air'.sta
      BY <2>4, <1>2, <1>5, <1>7, <1>8
    <2>6. air'.leased = (a.leased /\ ~a.ports[p].owner)
      BY <2>4, <1>5, <1>7
    <2>7. \A q \in WiFiPorts : q # p => air'.ports[q] = a.ports[q]
      BY <2>2, <2>4, <1>5
    <2> QED
      BY <2>2, <2>3, <2>4, <2>5, <2>6, <2>7, <2>9, <1>7, <1>8
  <1>9. CASE ~CleanupComplete(b.ports[p]) /\ b.ports[p].owner
    <2>1. air' = [b EXCEPT !.poisoned = TRUE]
      BY <1>6, <1>9 DEF Finalized
    <2> QED
      BY <2>1, <1>2, <1>5, <1>7 DEF Airs
  <1>10. CASE /\ ~(CleanupComplete(b.ports[p]) /\ ~nested)
              /\ ~(~CleanupComplete(b.ports[p]) /\ b.ports[p].owner)
    <2>1. air' = b
      BY <1>6, <1>10 DEF Finalized
    <2> QED
      BY <2>1, <1>2, <1>5, <1>7, <1>10 DEF Airs
  <1> QED
    BY <1>8, <1>9, <1>10

(* A port that is closed keeps ports and lease sound; closed between two calls, it has    *)
(* given back what it held or locked it.                                               *)
LEMMA DeinitKeeps ==
    ASSUME NEW a, LeaseSound(a), NEW p \in WiFiPorts, a.ports[p].state # "unopened",
           NEW nested \in BOOLEAN, NEW faults, DeinitPort(a, p, nested, faults)
    PROVE  /\ LeaseSound(air')
           /\ air'.ports[p].state = "closed"
           /\ \A q \in WiFiPorts : q # p => air'.ports[q] = a.ports[q]
           /\ nested => air'.ports[p].owner = a.ports[p].owner
           /\ ~nested /\ (Locked(a) \/ a.ports[p].owner) => Locked(air')
  <1> a \in Airs /\ a.ports[p] \in PortRecords /\ a.ports \in [WiFiPorts -> PortRecords]
    BY DEF LeaseSound, Airs
  <1>1. CASE PortReleased(a, p)
    <2>1. a.ports[p].state = "closed" /\ ~a.ports[p].owner
      BY <1>1 DEF PortReleased, LeaseSound, PortRecords
    <2>2. air' = ClosedPort(a, p)
      BY <1>1 DEF DeinitPort
    <2>3. /\ air' \in Airs
          /\ air'.leased = a.leased
          /\ air'.poisoned = a.poisoned
          /\ air'.ap = a.ap
          /\ air'.sta = a.sta
          /\ \A q \in WiFiPorts : q # p => air'.ports[q] = a.ports[q]
      BY <2>2 DEF ClosedPort, Airs, PortRecords
    <2>4. /\ air'.ports[p].state = "closed"
          /\ air'.ports[p].owner = a.ports[p].owner
          /\ air'.ports[p].finalized = a.ports[p].finalized
      BY <2>2 DEF ClosedPort, Airs, PortRecords
    <2>5. LeaseSound(air')
      BY <2>1, <2>3, <2>4 DEF LeaseSound
    <2> QED
      BY <2>1, <2>3, <2>4, <2>5 DEF Locked
  <1>2. CASE ~PortReleased(a, p)
    <2>1. /\ air' \in Airs
          /\ \A q \in WiFiPorts : q # p => air'.ports[q] = a.ports[q]
          /\ air'.ports[p].state = "closed"
      BY <1>2, DeinitFacts
    <2>2. CASE /\ ~nested
               /\ ~air'.ap /\ ~air'.sta
               /\ ~air'.ports[p].owner /\ air'.ports[p].finalized
               /\ air'.leased = (a.leased /\ ~a.ports[p].owner)
      <3>1. \A q \in WiFiPorts : ~air'.ports[q].owner
        BY <1>2, <2>1, <2>2 DEF LeaseSound, PortReleased
      <3>2. ~air'.leased
        BY <1>2, <2>2 DEF PortReleased, LeaseSound
      <3> QED
        BY <2>1, <2>2, <3>1, <3>2 DEF LeaseSound, Locked
    <2>3. CASE /\ air'.ports[p].owner = a.ports[p].owner
               /\ air'.ports[p].finalized = a.ports[p].finalized
               /\ air'.leased = a.leased
               /\ a.poisoned => air'.poisoned
               /\ ~nested /\ a.ports[p].owner => air'.poisoned
               /\ air'.ap => a.ap
               /\ air'.sta => a.sta
      <3>1. LeaseSound(air')
        <4>1. \A q \in WiFiPorts :
                 /\ air'.ports[q].owner = a.ports[q].owner
                 /\ air'.ports[q].finalized = a.ports[q].finalized
                 /\ \/ air'.ports[q].state = a.ports[q].state
                    \/ q = p
          BY <2>1, <2>3
        <4>2. ~a.ports[p].finalized
          BY <1>2 DEF PortReleased
        <4>3. \A q \in WiFiPorts :
                 /\ air'.ports[q].state = "open" => air'.ports[q].owner
                 /\ air'.ports[q].owner => air'.leased /\ air'.ports[q].state # "unopened"
                 /\ air'.ports[q].finalized =>
                      air'.ports[q].state = "closed" /\ ~air'.ports[q].owner
          BY <4>1, <2>1, <2>3 DEF LeaseSound
        <4>4. \A q \in WiFiPorts : air'.ports[q].state = "closed" =>
                 air'.ports[q].owner \/ air'.ports[q].finalized
          BY <4>1, <2>1, <2>3 DEF LeaseSound, PortRecords
        <4>5. /\ \A q, r \in WiFiPorts : air'.ports[q].owner /\ air'.ports[r].owner => q = r
              /\ air'.leased => \E q \in WiFiPorts : air'.ports[q].owner
          BY <4>1, <2>3 DEF LeaseSound
        <4>6. air'.ap \/ air'.sta => air'.leased \/ air'.poisoned
          BY <2>3 DEF LeaseSound
        <4> QED
          BY <4>3, <4>4, <4>5, <4>6, <2>1 DEF LeaseSound
      <3>2. ASSUME ~nested PROVE Locked(air')
        <4>1. SUFFICES ASSUME NEW q \in WiFiPorts, air'.ports[q].owner
                       PROVE  air'.poisoned
          BY DEF Locked
        <4>2. a.leased
          BY <4>1, <2>3, <3>1 DEF LeaseSound
        <4>3. a.ports[p].owner
          BY <1>2, <4>2, <4>1, <2>1 DEF PortReleased
        <4> QED
          BY <4>3, <3>2, <2>3
      <3> QED
        BY <2>1, <2>3, <3>1, <3>2
    <2> QED
      BY <1>2, <2>2, <2>3, DeinitFacts
  <1> QED
    BY <1>1, <1>2

-------------------------------------------------------------------------------
(* The operations *)

(* What no operation of the manager and no driver changes while a call is under way *)
Touched(a, b) ==
    /\ b \in Airs
    /\ b.leased = a.leased
    /\ b.poisoned = a.poisoned
    /\ \A p \in WiFiPorts : /\ b.ports[p].state = a.ports[p].state
                           /\ b.ports[p].owner = a.ports[p].owner
                           /\ b.ports[p].finalized = a.ports[p].finalized

LEMMA TouchedIsSound ==
    ASSUME NEW a, NEW b, LeaseSound(a), Touched(a, b),
           a.leased \/ ((b.ap => a.ap) /\ (b.sta => a.sta))
    PROVE  LeaseSound(b) /\ (Locked(a) => Locked(b))
  <1>1. \A p \in WiFiPorts :
           /\ b.ports[p].state = "open" => b.ports[p].owner
           /\ b.ports[p].owner => b.leased /\ b.ports[p].state # "unopened"
           /\ b.ports[p].state = "closed" => b.ports[p].owner \/ b.ports[p].finalized
           /\ b.ports[p].finalized => b.ports[p].state = "closed" /\ ~b.ports[p].owner
    BY DEF LeaseSound, Touched
  <1>2. /\ \A p, q \in WiFiPorts : b.ports[p].owner /\ b.ports[q].owner => p = q
        /\ b.leased => \E p \in WiFiPorts : b.ports[p].owner
        /\ b.ap \/ b.sta => b.leased \/ b.poisoned
    BY DEF LeaseSound, Touched
  <1>3. Locked(a) => Locked(b)
    BY DEF Locked, Touched
  <1> QED
    BY <1>1, <1>2, <1>3 DEF LeaseSound, Touched

(* A call that is over leaves the radio accounted for. *)
LEMMA EndKeeps ==
    ASSUME AirInv, calling # None, NEW b, Touched(air, b), NEW faults, CallEnds(b, faults)
    PROVE  AirInv' /\ calling' = None
  <1>1. /\ calling \in Callings
        /\ air.ports[calling.port].owner
        /\ calling.reentered <=> air.ports[calling.port].state = "closed"
        /\ LeaseSound(air)
    BY DEF AirInv
  <1>2. calling.port \in WiFiPorts /\ calling.reentered \in BOOLEAN
    BY <1>1 DEF Callings
  <1>3. air.leased
    BY <1>1, <1>2 DEF LeaseSound
  <1>4. LeaseSound(b) /\ b.ports[calling.port].owner
    BY <1>1, <1>2, <1>3, TouchedIsSound DEF Touched
  <1>5. CASE calling.reentered
    <2>1. DeinitPort(b, calling.port, FALSE, faults)
      BY <1>5 DEF CallEnds
    <2>2. b.ports[calling.port].state # "unopened"
      BY <1>2, <1>4 DEF LeaseSound
    <2>3. LeaseSound(air') /\ Locked(air')
      BY <2>1, <2>2, <1>2, <1>4, DeinitKeeps
    <2> QED
      BY <2>3 DEF AirInv, CallEnds
  <1>6. CASE ~calling.reentered
    <2>1. air' = b
      BY <1>6 DEF CallEnds
    <2>2. Locked(b)
      BY <1>1, <1>2, <1>4, <1>6 DEF Locked, LeaseSound, Touched
    <2> QED
      BY <2>1, <2>2, <1>4 DEF AirInv, CallEnds
  <1> QED
    BY <1>2, <1>5, <1>6

LEMMA GoingOnKeeps ==
    ASSUME AirInv, calling # None, NEW b, Touched(air, b), NEW at \in DriverCalls,
           GoesOn(b, at)
    PROVE  AirInv' /\ calling'.port = calling.port
  <1>1. /\ calling \in Callings
        /\ air.ports[calling.port].owner
        /\ calling.reentered <=> air.ports[calling.port].state = "closed"
        /\ LeaseSound(air)
    BY DEF AirInv
  <1>2. calling.port \in WiFiPorts
    BY <1>1 DEF Callings
  <1>3. air.leased
    BY <1>1, <1>2 DEF LeaseSound
  <1>4. LeaseSound(air')
    BY <1>1, <1>3, TouchedIsSound DEF GoesOn
  <1>5. /\ calling' \in Callings
        /\ calling'.port = calling.port
        /\ calling'.reentered = calling.reentered
    BY <1>1 DEF GoesOn, Callings
  <1>6. calling' # None
    BY <1>5, NoneIsNoCalling
  <1> QED
    BY <1>1, <1>2, <1>4, <1>5, <1>6 DEF AirInv, GoesOn, Touched

(* The holder of the radio is the port of the call under way, if there is one. *)
LEMMA HolderCalls ==
    ASSUME AirInv, calling # None
    PROVE  /\ calling.port \in WiFiPorts
           /\ \A p \in WiFiPorts : Holder(p) => p = calling.port
  BY DEF AirInv, LeaseSound, Holder, Callings

(* What an operation may do beyond keeping the invariant *)
Disturbs == HolderUndisturbed /\ ClosedCallsNothing

LEMMA EndIsFine ==
    ASSUME AirInv, calling # None, NEW b, Touched(air, b), NEW faults, CallEnds(b, faults)
    PROVE  AirInv' /\ Disturbs
  BY EndKeeps, HolderCalls DEF Disturbs, HolderUndisturbed, ClosedCallsNothing, p0

LEMMA GoingOnIsFine ==
    ASSUME AirInv, calling # None, IsOpen(p0), NEW b, Touched(air, b),
           NEW at \in DriverCalls, GoesOn(b, at)
    PROVE  AirInv' /\ Disturbs
  BY GoingOnKeeps, HolderCalls
     DEF Disturbs, HolderUndisturbed, ClosedCallsNothing, IsOpen, p0

LEMMA RollbackIsFine ==
    ASSUME AirInv, calling # None, NEW a, Touched(air, a), NEW faults, Rollback(a, faults)
    PROVE  AirInv' /\ Disturbs
  <1> DEFINE undone == [a EXCEPT !.ports[p0].prepared = FALSE]
             off == [undone EXCEPT !.sta = FALSE, !.ports[p0].staOff = TRUE,
                                   !.ports[p0].disconnected = TRUE]
  <1>1. /\ p0 \in WiFiPorts
        /\ a \in Airs
        /\ a.ports[p0] \in PortRecords
        /\ a.ports \in [WiFiPorts -> PortRecords]
    BY HolderCalls DEF Touched, Airs, p0
  <1>2. undone \in Airs /\ Touched(a, undone)
    BY <1>1 DEF Touched, Airs, PortRecords
  <1>3. undone.ports[p0] \in PortRecords /\ undone.ports \in [WiFiPorts -> PortRecords]
    BY <1>1, <1>2 DEF Airs
  <1>4. Touched(undone, off)
    <2> DEFINE port == [undone.ports[p0] EXCEPT !.staOff = TRUE, !.disconnected = TRUE]
    <2> HIDE DEF undone
    <2>1. /\ port \in PortRecords
          /\ port.state = undone.ports[p0].state
          /\ port.owner = undone.ports[p0].owner
          /\ port.finalized = undone.ports[p0].finalized
      BY <1>3 DEF PortRecords
    <2>2. off = [undone EXCEPT !.sta = FALSE, !.ports = [@ EXCEPT ![p0] = port]]
      BY <1>1, <1>2, <1>3 DEF Airs, PortRecords
    <2> QED
      BY <1>1, <1>2, <1>3, <2>1, <2>2 DEF Touched, Airs
  <1>5. \A sta \in {FALSE, a.sta} : Touched(undone, [undone EXCEPT !.sta = sta])
    BY <1>1, <1>2 DEF Touched, Airs
  <1>6. /\ Touched(air, off)
        /\ \A sta \in {FALSE, a.sta} : Touched(air, [undone EXCEPT !.sta = sta])
    BY <1>2, <1>4, <1>5 DEF Touched
  <1>7. CASE \E failed \in 0 .. 1 : CallEnds(off, faults + failed)
    BY <1>6, <1>7, EndIsFine
  <1>8. CASE \E sta \in {FALSE, a.sta} : CallEnds([undone EXCEPT !.sta = sta], faults + 2)
    BY <1>6, <1>8, EndIsFine
  <1> QED
    BY <1>7, <1>8 DEF Rollback

LEMMA ReturnsKeep ==
    ASSUME AirInv, DriverReturns
    PROVE  AirInv' /\ Disturbs
  <1>1. calling # None
    BY DEF DriverReturns, ApConfigReturns, ApOnReturns, StaOnReturns, StaConfigReturns,
       ConnectReturns, DisconnectReturns, Returning
  <1>2. /\ p0 \in WiFiPorts
        /\ air \in Airs
        /\ air.ports[p0] \in PortRecords
        /\ air.ports \in [WiFiPorts -> PortRecords]
        /\ air.ap \in BOOLEAN
        /\ air.sta \in BOOLEAN
    BY <1>1, HolderCalls DEF p0, AirInv, LeaseSound, Airs
  <1>3. Touched(air, air)
    BY <1>2 DEF Touched
  <1>4. CASE ApConfigReturns
    <2>1. Touched(air, [air EXCEPT !.ports[p0].apOff = FALSE])
      BY <1>2 DEF Touched, Airs, PortRecords
    <2>2. CASE CallEnds(air, 1) \/ CallEnds(air, 0)
      BY <2>2, <1>1, <1>3, EndIsFine
    <2>3. CASE IsOpen(p0) /\ GoesOn([air EXCEPT !.ports[p0].apOff = FALSE], "ap_on")
      BY <2>3, <2>1, <1>1, GoingOnIsFine DEF DriverCalls
    <2> QED
      BY <1>4, <2>2, <2>3 DEF ApConfigReturns
  <1>5. CASE ApOnReturns
    <2>1. PICK ap \in SwitchedOn(air.ap) :
              CallEnds([air EXCEPT !.ap = ap.on,
                                   !.ports[p0].apOff = @ /\ ap.failed = 1], ap.failed)
      BY <1>5 DEF ApOnReturns
    <2>2. ap.on \in BOOLEAN
      <3>1. \/ ap = [on |-> TRUE, failed |-> 0]
            \/ ap = [on |-> TRUE, failed |-> 1]
            \/ ap = [on |-> air.ap, failed |-> 1]
        BY <2>1 DEF SwitchedOn
      <3>2. CASE ap = [on |-> TRUE, failed |-> 0]
        BY <3>2
      <3>4. CASE ap = [on |-> TRUE, failed |-> 1]
        BY <3>4
      <3>3. CASE ap = [on |-> air.ap, failed |-> 1]
        BY <3>3, <1>2
      <3> QED
        BY <3>1, <3>2, <3>3, <3>4
    <2>3. Touched(air, [air EXCEPT !.ap = ap.on, !.ports[p0].apOff = @ /\ ap.failed = 1])
      BY <1>2, <2>2 DEF Touched, Airs, PortRecords
    <2> QED
      BY <2>1, <2>3, <1>1, EndIsFine
  <1>6. CASE StaOnReturns
    <2> DEFINE on == [air EXCEPT !.sta = TRUE, !.ports[p0].staOff = FALSE]
    <2>1. Touched(air, on)
      BY <1>2 DEF Touched, Airs, PortRecords
    <2>2. \A sta \in {air.sta, TRUE} : Touched(air, [air EXCEPT !.sta = sta])
      BY <1>2 DEF Touched, Airs
    <2>3. CASE \E sta \in {air.sta, TRUE} : CallEnds([air EXCEPT !.sta = sta], 1)
      BY <2>3, <2>2, <1>1, EndIsFine
    <2>4. CASE CallEnds(on, 0) \/ CallEnds(on, 1)
      BY <2>4, <2>1, <1>1, EndIsFine
    <2>5. CASE Rollback(on, 1)
      BY <2>5, <2>1, <1>1, RollbackIsFine
    <2>6. CASE IsOpen(p0) /\ GoesOn(on, "sta_config")
      BY <2>6, <2>1, <1>1, GoingOnIsFine DEF DriverCalls
    <2> HIDE DEF on
    <2> QED
      BY <1>6, <2>3, <2>4, <2>5, <2>6 DEF StaOnReturns, on
  <1>7. CASE StaConfigReturns
    <2> DEFINE done == [air EXCEPT !.ports[p0].prepared = TRUE, !.ports[p0].staOff = FALSE,
                                   !.ports[p0].disconnected = TRUE]
    <2>1. Touched(air, done)
      BY <1>2 DEF Touched, Airs, PortRecords
    <2>2. CASE Rollback(air, 1)
      BY <2>2, <1>1, <1>3, RollbackIsFine
    <2>3. CASE CallEnds(air, 0)
      BY <2>3, <1>1, <1>3, EndIsFine
    <2>4. CASE CallEnds(done, 0)
      BY <2>4, <2>1, <1>1, EndIsFine
    <2> QED
      BY <1>7, <2>2, <2>3, <2>4 DEF StaConfigReturns
  <1>8. CASE ConnectReturns
    <2> DEFINE done == [air EXCEPT !.ports[p0].disconnected = @ /\ ~IsOpen(p0)]
    <2>1. Touched(air, done)
      BY <1>2 DEF Touched, Airs, PortRecords
    <2> QED
      BY <1>8, <1>1, <1>3, <2>1, EndIsFine DEF ConnectReturns
  <1>9. CASE DisconnectReturns
    <2> DEFINE done == [air EXCEPT !.ports[p0].disconnected = TRUE]
    <2>1. Touched(air, done)
      BY <1>2 DEF Touched, Airs, PortRecords
    <2> QED
      BY <1>9, <1>1, <1>3, <2>1, EndIsFine DEF DisconnectReturns
  <1> QED
    BY <1>4, <1>5, <1>6, <1>7, <1>8, <1>9 DEF DriverReturns

(* Opening takes the lease when nobody has it. *)
LEMMA OpeningKeeps ==
    ASSUME AirInv, NEW p \in WiFiPorts, OpenPort(p)
    PROVE  AirInv' /\ Disturbs
  <1>1. /\ LeaseSound(air)
        /\ \A q \in WiFiPorts : ~air.ports[q].owner
        /\ air.ports[p] \in PortRecords
        /\ air.ports \in [WiFiPorts -> PortRecords]
    BY DEF OpenPort, AirInv, LeaseSound, Airs
  <1>2. calling = None /\ calling' = None
    BY <1>1, HolderCalls DEF AirInv, Callings, OpenPort
  <1>3. ~Holder(p)
    BY <1>1 DEF Holder
  <1>4. Disturbs
    BY <1>1, <1>2 DEF Disturbs, HolderUndisturbed, ClosedCallsNothing, Holder
  <1>5. CASE air' = [air EXCEPT !.poisoned = TRUE]
    BY <1>1, <1>2, <1>4, <1>5 DEF AirInv, LeaseSound, Locked, Airs
  <1>6. CASE air' = [air EXCEPT !.leased = TRUE, !.ports[p].state = "open",
                                !.ports[p].owner = TRUE]
    <2> DEFINE port == [air.ports[p] EXCEPT !.state = "open", !.owner = TRUE]
    <2>1. /\ port \in PortRecords
          /\ port.state = "open"
          /\ port.owner
          /\ port.finalized = air.ports[p].finalized
      BY <1>1 DEF PortRecords
    <2>2. air' = [air EXCEPT !.leased = TRUE, !.ports = [@ EXCEPT ![p] = port]]
      BY <1>1, <1>6 DEF LeaseSound, Airs
    <2> HIDE DEF port
    <2>3. /\ air' \in Airs
          /\ air'.leased
          /\ air'.ports[p] = port
          /\ \A q \in WiFiPorts : q # p => air'.ports[q] = air.ports[q]
      BY <1>1, <2>1, <2>2 DEF LeaseSound, Airs
    <2>4. ~port.finalized
      BY <2>1 DEF OpenPort, LeaseSound, AirInv
    <2>5. LeaseSound(air')
      BY <1>1, <2>1, <2>3, <2>4 DEF LeaseSound
    <2>6. Locked(air')
      BY <1>1, <2>1, <2>3 DEF Locked
    <2> QED
      BY <1>2, <1>4, <2>5, <2>6 DEF AirInv
  <1> QED
    BY <1>5, <1>6 DEF OpenPort

(* An operation of an open port begins with a call or is over at once. *)
LEMMA CallingKeeps ==
    ASSUME AirInv, calling = None, NEW p \in WiFiPorts, IsOpen(p), Touched(air, air'),
           air'.ap = air.ap, air'.sta = air.sta,
           calling' = None \/ \E at \in DriverCalls : Calls(p, at)
    PROVE  AirInv' /\ Disturbs
  <1>1. LeaseSound(air') /\ Locked(air')
    BY TouchedIsSound DEF AirInv
  <1>2. Disturbs
    BY DEF Disturbs, HolderUndisturbed, ClosedCallsNothing, Calls, IsOpen
  <1>3. CASE calling' = None
    BY <1>1, <1>2, <1>3 DEF AirInv
  <1>4. CASE \E at \in DriverCalls : Calls(p, at)
    <2>1. /\ calling' \in Callings
          /\ calling'.port = p
          /\ ~calling'.reentered
      BY <1>4 DEF Calls, Callings
    <2>2. air'.ports[p].owner /\ air'.ports[p].state = "open"
      BY <1>1 DEF IsOpen, Touched, LeaseSound
    <2> QED
      BY <1>1, <1>2, <2>1, <2>2, NoneIsNoCalling DEF AirInv
  <1> QED
    BY <1>3, <1>4

LEMMA OperationsKeep ==
    ASSUME AirInv, NEW p \in WiFiPorts,
           \/ EnsureAccessPoint(p) \/ PortPrepareStation(p)
           \/ PortConnectStation(p) \/ PortDisconnectStation(p)
    PROVE  AirInv' /\ Disturbs
  <1>1. calling = None /\ IsOpen(p)
    BY DEF EnsureAccessPoint, PortPrepareStation, PortConnectStation,
       PortDisconnectStation, Calls
  <1>2. calling' = None \/ \E at \in DriverCalls : Calls(p, at)
    BY <1>1 DEF EnsureAccessPoint, PortPrepareStation, PortConnectStation,
       PortDisconnectStation, DriverCalls
  <1>3. air \in Airs
    BY DEF AirInv, LeaseSound
  <1>4. Touched(air, air') /\ air'.ap = air.ap /\ air'.sta = air.sta
    <2> air.ports[p] \in PortRecords /\ air.ports \in [WiFiPorts -> PortRecords]
      BY <1>3 DEF Airs
    <2>1. CASE air' = air
      BY <2>1, <1>3 DEF Touched
    <2>2. CASE air' = [air EXCEPT !.ports[p].prepared = FALSE, !.ports[p].staOff = FALSE]
      BY <2>2, <1>3 DEF Touched, Airs, PortRecords
    <2>3. CASE air' = [air EXCEPT !.ports[p].disconnected = FALSE]
      BY <2>3, <1>3 DEF Touched, Airs, PortRecords
    <2>4. CASE air' = [air EXCEPT !.ports[p].prepared = FALSE]
      BY <2>4, <1>3 DEF Touched, Airs, PortRecords
    <2>5. CASE air' = [air EXCEPT !.ports[p].disconnected = TRUE]
      BY <2>5, <1>3 DEF Touched, Airs, PortRecords
    <2> QED
      BY <2>1, <2>2, <2>3, <2>4, <2>5 DEF EnsureAccessPoint, PortPrepareStation,
         PortConnectStation, PortDisconnectStation
  <1> QED
    BY <1>1, <1>2, <1>4, CallingKeeps

(* A port that is closed beside another one's call has given everything back already. *)
LEMMA ClosingKeeps ==
    ASSUME AirInv, NEW p \in WiFiPorts, ClosePort(p)
    PROVE  AirInv' /\ Disturbs
  <1>1. LeaseSound(air) /\ DeinitPort(air, p, FALSE, 0) /\ air.ports[p].state # "unopened"
    BY DEF AirInv, ClosePort
  <1>2. /\ LeaseSound(air')
        /\ air'.ports[p].state = "closed"
        /\ \A q \in WiFiPorts : q # p => air'.ports[q] = air.ports[q]
        /\ Locked(air) => Locked(air')
    BY <1>1, DeinitKeeps
  <1>3. CASE calling # None
    <2>1. calling.port # p /\ calling.port \in WiFiPorts /\ calling' = calling
      BY <1>3, HolderCalls DEF ClosePort
    <2>2. Disturbs
      BY <1>3, <2>1, HolderCalls
         DEF Disturbs, HolderUndisturbed, ClosedCallsNothing, p0
    <2> QED
      BY <1>2, <1>3, <2>1, <2>2 DEF AirInv
  <1>4. CASE calling = None
    <2>1. calling' = None /\ Locked(air')
      BY <1>2, <1>4 DEF ClosePort, AirInv
    <2>2. ASSUME NEW q \in WiFiPorts, Holder(q), Holder(q)'
          PROVE  air'.ap = air.ap /\ air'.sta = air.sta
      <3>1. q # p
        BY <1>2, <2>2 DEF Holder, IsOpen
      <3>2. PortReleased(air, p)
        BY <1>1, <2>2, <3>1 DEF PortReleased, LeaseSound, Holder
      <3> QED
        BY <1>1, <3>2 DEF DeinitPort, ClosedPort, LeaseSound, Airs
    <2>3. Disturbs
      BY <2>1, <2>2 DEF Disturbs, HolderUndisturbed, ClosedCallsNothing
    <2> QED
      BY <1>2, <2>1, <2>3 DEF AirInv
  <1> QED
    BY <1>3, <1>4

LEMMA ClosingWithinKeeps ==
    ASSUME AirInv, CloseWithin
    PROVE  AirInv' /\ Disturbs
  <1>1. /\ LeaseSound(air)
        /\ calling # None
        /\ p0 \in WiFiPorts
        /\ calling \in Callings
        /\ DeinitPort(air, p0, TRUE, 0)
        /\ air.ports[p0].owner
        /\ air.ports[p0].state = "open"
    BY HolderCalls DEF AirInv, CloseWithin, p0, IsOpen
  <1>2. /\ LeaseSound(air')
        /\ air'.ports[p0].state = "closed"
        /\ air'.ports[p0].owner
    BY <1>1, DeinitKeeps
  <1>3. /\ calling' \in Callings
        /\ calling'.port = p0
        /\ calling'.at = calling.at
        /\ calling'.reentered
    BY <1>1 DEF CloseWithin, Callings, p0
  <1>4. Disturbs
    BY <1>1, <1>3, HolderCalls DEF Disturbs, HolderUndisturbed, ClosedCallsNothing, p0
  <1> QED
    BY <1>1, <1>2, <1>3, <1>4, NoneIsNoCalling DEF AirInv

-------------------------------------------------------------------------------
LEMMA StepKeeps ==
    ASSUME AirInv, [WiFiNext]_wifiVars
    PROVE  AirInv' /\ (UNCHANGED wifiVars \/ Disturbs)
  <1>1. CASE UNCHANGED wifiVars
    BY <1>1 DEF wifiVars, AirInv
  <1>2. CASE RadioFails
    <2>1. /\ air' \in Airs
          /\ air'.leased = air.leased
          /\ air'.poisoned = air.poisoned
          /\ air'.ports = air.ports
          /\ air'.ap => air.ap
          /\ air'.sta => air.sta
      BY <1>2 DEF RadioFails, AirInv, LeaseSound, Airs
    <2>2. LeaseSound(air') /\ (Locked(air) => Locked(air'))
      BY <2>1, TouchedIsSound DEF AirInv, Touched
    <2>3. HolderUndisturbed
      BY <1>2 DEF HolderUndisturbed
    <2>4. ClosedCallsNothing
      BY <1>2 DEF ClosedCallsNothing, RadioFails
    <2> QED
      BY <1>2, <2>1, <2>2, <2>3, <2>4 DEF AirInv, Disturbs, RadioFails
  <1>3. CASE WiFiNext /\ ~RadioFails
    BY <1>3, OpeningKeeps, ClosingKeeps, OperationsKeep, ClosingWithinKeeps, ReturnsKeep
       DEF WiFiNext
  <1> QED
    BY <1>1, <1>2, <1>3

LEMMA RadioStarts == WiFiInit => AirInv
  <1> SUFFICES ASSUME WiFiInit PROVE AirInv
    OBVIOUS
  <1>1. Unopened \in PortRecords /\ Unopened.state = "unopened" /\ ~Unopened.owner
        /\ ~Unopened.finalized
    BY DEF Unopened, PortRecords
  <1>2. /\ air \in Airs
        /\ ~air.leased
        /\ ~air.ap
        /\ ~air.sta
        /\ \A p \in WiFiPorts : air.ports[p] = Unopened
    BY <1>1 DEF WiFiInit, Airs
  <1> QED
    BY <1>1, <1>2 DEF WiFiInit, AirInv, LeaseSound, Locked

(* The invariant holds throughout, for any number of ports and of faults. *)
THEOREM RadioInvariance == WiFiSpec => []AirInv
  <1>1. AirInv /\ [WiFiNext]_wifiVars => AirInv'
    BY StepKeeps
  <1> QED
    BY <1>1, RadioStarts, PTL DEF WiFiSpec

(* Every way through a call says what it costs. *)
FaultsCounted == radioFaults \in 0 .. MaxRadioFaults

LEMMA CostsAreCounted ==
    ASSUME FaultsCounted, NEW faults \in Nat, Costs(faults)
    PROVE  FaultsCounted'
  BY WiFiAssumption DEF FaultsCounted, Costs

LEMMA DeinitCosts ==
    ASSUME FaultsCounted, NEW a, NEW p, NEW nested, NEW faults \in Nat,
           DeinitPort(a, p, nested, faults)
    PROVE  FaultsCounted'
  <1>1. \A on : \A o \in SwitchedOff(on) : o.failed \in Nat
    BY DEF SwitchedOff
  <1>2. PICK extra \in Nat : Costs(faults + extra)
    <2>1. CASE Costs(faults)
      BY <2>1
    <2>2. CASE \E sta \in SwitchedOff(a.sta), ap \in SwitchedOff(a.ap) :
                 Costs(faults + sta.failed + ap.failed)
      <3>1. PICK sta \in SwitchedOff(a.sta), ap \in SwitchedOff(a.ap) :
                   Costs(faults + sta.failed + ap.failed)
        BY <2>2
      <3>2. sta.failed \in Nat /\ ap.failed \in Nat
        BY <1>1
      <3>3. \A i, j \in Nat : faults + i + j = faults + (i + j) /\ i + j \in Nat
        OBVIOUS
      <3> QED
        BY <3>1, <3>2, <3>3
    <2> QED
      BY <2>1, <2>2 DEF DeinitPort
  <1> QED
    BY <1>2, CostsAreCounted

LEMMA CallCosts ==
    ASSUME FaultsCounted, NEW a, NEW faults \in Nat, CallEnds(a, faults)
    PROVE  FaultsCounted'
  BY DeinitCosts, CostsAreCounted DEF CallEnds

LEMMA RollbackCosts ==
    ASSUME FaultsCounted, NEW a, NEW faults \in Nat, Rollback(a, faults)
    PROVE  FaultsCounted'
  <1>1. \E b, more : more \in 0 .. 2 /\ CallEnds(b, faults + more)
    BY DEF Rollback
  <1> QED
    BY <1>1, CallCosts

LEMMA DriverCosts ==
    ASSUME FaultsCounted, DriverReturns
    PROVE  FaultsCounted'
  <1>1. CASE \E a : \E faults \in 0 .. 1 : CallEnds(a, faults)
    BY <1>1, CallCosts
  <1>2. CASE \E a : Rollback(a, 1)
    BY <1>2, RollbackCosts
  <1>3. CASE UNCHANGED radioFaults
    BY <1>3 DEF FaultsCounted
  <1>4. CASE ApConfigReturns
    BY <1>1, <1>3, <1>4 DEF ApConfigReturns, GoesOn
  <1>5. CASE ApOnReturns
    <2>1. \A o \in SwitchedOn(air.ap) : o.failed \in 0 .. 1
      BY DEF SwitchedOn
    <2> QED
      BY <1>1, <1>5, <2>1 DEF ApOnReturns
  <1>6. CASE StaOnReturns
    BY <1>1, <1>2, <1>3, <1>6 DEF StaOnReturns, GoesOn
  <1>7. CASE StaConfigReturns
    BY <1>1, <1>2, <1>7 DEF StaConfigReturns
  <1>8. CASE ConnectReturns
    BY <1>1, <1>8 DEF ConnectReturns
  <1>9. CASE DisconnectReturns
    BY <1>1, <1>9 DEF DisconnectReturns
  <1> QED
    BY <1>4, <1>5, <1>6, <1>7, <1>8, <1>9 DEF DriverReturns

LEMMA RadioCosts ==
    ASSUME FaultsCounted, [WiFiNext]_wifiVars
    PROVE  FaultsCounted'
  <1>1. CASE UNCHANGED radioFaults
    BY <1>1 DEF FaultsCounted
  <1>2. CASE \E p \in WiFiPorts : OpenPort(p) \/ ClosePort(p)
    BY <1>1, <1>2, CostsAreCounted, DeinitCosts DEF OpenPort, ClosePort
  <1>3. CASE \E p \in WiFiPorts : \/ EnsureAccessPoint(p) \/ PortPrepareStation(p)
                                \/ PortConnectStation(p) \/ PortDisconnectStation(p)
    BY <1>1, <1>3
    DEF EnsureAccessPoint, PortPrepareStation, PortConnectStation, PortDisconnectStation, Calls
  <1>4. CASE CloseWithin \/ RadioFails
    BY <1>4, CostsAreCounted, DeinitCosts DEF CloseWithin, RadioFails
  <1> QED
    BY <1>1, <1>2, <1>3, <1>4, DriverCosts DEF WiFiNext, wifiVars

LEMMA RadioTyped == AirInv /\ FaultsCounted => WiFiTypeOK
BY DEF AirInv, LeaseSound, FaultsCounted, Airs, WiFiTypeOK

(* The radio is on for a port that answers for it or stays locked, and a port that is gone *)
(* leaves its successor's interfaces alone, whenever a port is closed and whatever fails.  *)
THEOREM TheRadioIsAccounted == WiFiSpec => RadioIsAccounted
  <1>1. ASSUME AirInv PROVE Accounted
    <2>1. ASSUME OnAir, calling = None, ~air.poisoned
          PROVE  \E p \in WiFiPorts : Holder(p)
      <3>1. PICK p \in WiFiPorts : air.ports[p].owner
        BY <1>1, <2>1 DEF AirInv, LeaseSound, OnAir
      <3>2. air.ports[p].state # "closed" /\ air.ports[p].state # "unopened"
        BY <1>1, <2>1, <3>1 DEF AirInv, LeaseSound, Locked
      <3>3. air.ports[p].state = "open"
        BY <1>1, <3>1, <3>2 DEF AirInv, LeaseSound, Airs, PortRecords
      <3> QED
        BY <3>1, <3>3 DEF Holder, IsOpen
    <2> QED
      BY <1>1, <2>1 DEF Accounted, AirInv, LeaseSound, OnAir
  <1>2. AirInv /\ AirInv' /\ [WiFiNext]_wifiVars
        => [Accounted' /\ HolderUndisturbed /\ ClosedCallsNothing]_wifiVars
    <2> SUFFICES ASSUME AirInv, AirInv', [WiFiNext]_wifiVars
                 PROVE  [Accounted' /\ HolderUndisturbed /\ ClosedCallsNothing]_wifiVars
      OBVIOUS
    <2>1. AirInv' => Accounted'
      BY <1>1, PTL
    <2> QED
      BY <2>1, StepKeeps DEF Disturbs
  <1> QED
    BY <1>2, RadioInvariance, PTL DEF WiFiSpec, RadioIsAccounted

===============================================================================
