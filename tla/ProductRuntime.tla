----------------------------- MODULE ProductRuntime ----------------------------
(* ProductRuntime and main.py: the owner of every service.  It opens them in a   *)
(* fixed order, advances each once per round, goes on without the optional ones,  *)
(* leaves the loop when a critical one fails, and shuts down.  Of the services    *)
(* only what the owner sees is here; the heater is what HeaterSystem says, with    *)
(* its line reduced to the last status that was read.                            *)
EXTENDS Naturals, Sequences, Absence

CONSTANT Addresses  \* what DHCP may give the station

ASSUME AddressesAssumption == None \notin Addresses

VARIABLES
    product,    \* the owner and what it knows of its services
    burning     \* what the heater really does

productVars == <<product, burning>>

(* How start() goes on: each stage opens one service or waits for it. *)
Stages == <<"sensor", "heater", "network", "access_point", "rest", "web", "timers">>

Lives == {"starting", "running", "stopping", "closed"}

(* A board may be reset while the heater runs. *)
ProductInit ==
    /\ product = [life |-> "starting", opened |-> 0, armed |-> FALSE, restart |-> FALSE,
                  network |-> FALSE, web |-> FALSE, diagnostics |-> FALSE,
                  changed |-> FALSE, uart |-> "closed", stepped |-> FALSE,
                  pending |-> FALSE, wanted |-> FALSE, seen |-> "unknown",
                  heard |-> FALSE, ip |-> None, listener |-> None, failed |-> None]
    /\ burning \in BOOLEAN

-------------------------------------------------------------------------------
(* start(): the heater is not stepped before the last stage is through, which     *)
(* may take STARTUP_TIMEOUT_MS.                                                 *)
Opened(p, stage) ==
    LET next == [p EXCEPT !.opened = @ + 1]
    IN CASE stage = "heater" -> [next EXCEPT !.uart = "open"]
         [] stage = "network" -> [next EXCEPT !.network = TRUE]
         [] stage = "rest" -> [next EXCEPT !.diagnostics = TRUE]
         [] stage = "web" -> [next EXCEPT !.web = TRUE]
         [] stage = "timers" -> [next EXCEPT !.armed = TRUE, !.life = "running"]
         [] OTHER -> next

StartStage ==
    /\ product.life = "starting"
    /\ product' = Opened(product, Stages[product.opened + 1])
    /\ UNCHANGED burning

TornDown(p) == [p EXCEPT !.life = "closed", !.armed = FALSE, !.uart = "closed"]

(* Whatever fails, every service is closed; the heater's owner agrees, because    *)
(* it has not made a step.                                                      *)
StartFails ==
    /\ product.life = "starting"
    /\ product' = TornDown(product)
    /\ UNCHANGED burning

-------------------------------------------------------------------------------
(* The parts of a round, each from a state to the states it may end in.          *)

(* A new configuration generation disarms and keeps sensor and scheduler still.   *)
Fenced(p) ==
    {IF p.changed THEN [p EXCEPT !.restart = TRUE, !.armed = FALSE, !.heard = FALSE]
     ELSE [p EXCEPT !.heard = FALSE]}

(* A network that fails is never stepped again; its last report may be read.      *)
Networked(p) ==
    IF ~p.network THEN {p}
    ELSE LET heard == {[p EXCEPT !.heard = TRUE, !.ip = ip] : ip \in Addresses \cup {None}}
         IN heard \cup {[q EXCEPT !.network = FALSE] : q \in heard \cup {p}}

(* Faulty: only a station without an address loses its listener. *)
DetachedWhenDown(p) ==
    IF p.ip # None THEN p ELSE [p EXCEPT !.listener = None, !.failed = None]

Detached(p) ==
    IF p.listener \in {None, p.ip} THEN p
    ELSE [p EXCEPT !.listener = None, !.failed = None]

(* The station's listener follows its address; an attempt that failed is not       *)
(* repeated for the same address.                                               *)
Synced(p) ==
    IF ~p.heard THEN {p}
    ELSE LET free == Detached(p)
         IN IF p.ip = None THEN {[free EXCEPT !.failed = None]}
            ELSE IF p.ip \in {free.listener, free.failed} THEN {free}
            ELSE {[free EXCEPT !.listener = p.ip, !.failed = None],
                  [free EXCEPT !.failed = p.ip]}

(* Faulty: a start needs no authority. *)
AnyStart(p) == p.life = "running"

(* The gateways' authority (WebControl): the configuration that runs is stored.   *)
MayStart(p) == p.life = "running" /\ ~p.changed

(* A web request, if there is one, saves, starts or stops. *)
Served(p) ==
    {p, [p EXCEPT !.changed = TRUE, !.armed = FALSE],
     [p EXCEPT !.wanted = FALSE], [p EXCEPT !.wanted = @ \/ MayStart(p)]}

(* Any failure of the web, a listener that does not close included, ends it. *)
Webbed(p) ==
    IF ~p.web THEN {p}
    ELSE LET served == UNION {Served(q) : q \in Synced(p)}
         IN served \cup {[q EXCEPT !.web = FALSE] : q \in {p} \cup served}

Scheduled(p) ==
    {p, [p EXCEPT !.wanted = @ \/ (p.armed /\ ~p.restart)]}

(* The heater's owner asks once for OFF when the configuration has changed. *)
AskedToStop(p) ==
    IF p.changed /\ ~p.pending THEN [p EXCEPT !.pending = TRUE, !.wanted = FALSE] ELSE p

Actual == IF burning THEN "on" ELSE "off"

(* One round of the controller: a status is read, is late, or the link fails, and  *)
(* a session may end.                                                           *)
Stepped(p, seen, stays) ==
    [AskedToStop(p) EXCEPT !.stepped = TRUE, !.seen = seen, !.wanted = @ /\ stays]

Heated(p) ==
    {Stepped(p, s, stays) : s \in {p.seen, Actual, "unknown"}, stays \in BOOLEAN}

(* Then it commands what the request and the status call for. *)
Commanded(p) ==
    CASE p.wanted /\ p.seen = "off" -> {burning, TRUE}
      [] ~p.wanted /\ p.seen = "on" -> {burning, FALSE}
      [] OTHER -> {burning}

Diagnosed(p) == {p, [p EXCEPT !.diagnostics = FALSE]}

-------------------------------------------------------------------------------
Stopping(p) == [p EXCEPT !.life = "stopping"]

(* A failing clock, poll or step of the heater's owner closes the UART. *)
HeaterBroken(p) == [AskedToStop(p) EXCEPT !.uart = "closed"]

Before(part) ==
    LET fenced == Fenced(product)
        networked == UNION {Networked(p) : p \in fenced}
        webbed == UNION {Webbed(p) : p \in networked}
        scheduled == UNION {Scheduled(p) : p \in webbed}
    IN CASE part = "sensor" -> {product} \cup fenced
         [] part = "network" -> fenced
         [] part = "web" -> networked
         [] part = "scheduler" -> webbed \cup scheduled
         [] part = "heater" -> scheduled

Round ==
    /\ product.life = "running"
    /\ \E p \in Before("heater") : \E q \in Heated(p) :
          /\ product' \in Diagnosed(q)
          /\ burning' \in Commanded(q)

(* A critical part fails, memory runs out, or the user interrupts: what the round   *)
(* has done so far stays, and the loop is left.                                  *)
RoundFails ==
    /\ product.life = "running"
    /\ \/ /\ \E part \in {"sensor", "network", "web", "scheduler"} :
                \E p \in Before(part) : product' = Stopping(p)
          /\ UNCHANGED burning
       \/ /\ \E p \in Before("heater") : product' = Stopping(HeaterBroken(p))
          /\ UNCHANGED burning
       \/ \E p \in Before("heater") : \E q \in Heated(p) :
             product' = Stopping(q) /\ burning' \in Commanded(q)

(* The heater's owner lets its UART go: it had failed, had never made a step, or    *)
(* read OFF last.                                                               *)
SafeToClose(p) ==
    p.uart = "closed" \/ ~p.stepped \/ (~p.wanted /\ p.seen = "off")

(* shutdown_step(): OFF is asked for, the heater stepped, and all is closed if the  *)
(* heater's owner agrees.                                                       *)
ShutDown ==
    /\ product.life = "stopping"
    /\ LET asked == [product EXCEPT !.armed = FALSE, !.wanted = FALSE]
           Ends(q) == IF SafeToClose(q) THEN TornDown(q) ELSE q
       IN \/ /\ asked.uart = "open"
             /\ \/ \E q \in Heated(asked) : product' = Ends(q) /\ burning' \in Commanded(q)
                \/ product' = Ends(HeaterBroken(asked)) /\ UNCHANGED burning
          \/ /\ asked.uart = "closed"
             /\ product' = Ends(asked) /\ UNCHANGED burning

(* The heater goes off by itself. *)
BurnsOut ==
    /\ burning /\ burning' = FALSE
    /\ UNCHANGED product

ProductNext == StartStage \/ StartFails \/ Round \/ RoundFails \/ ShutDown \/ BurnsOut

ProductSpec == ProductInit /\ [][ProductNext]_productVars

-------------------------------------------------------------------------------
ProductTypeOK ==
    /\ product.life \in Lives
    /\ product.opened \in 0 .. Len(Stages)
    /\ {product.ip, product.listener, product.failed} \subseteq Addresses \cup {None}
    /\ product.seen \in {"unknown", "off", "on"}
    /\ product.uart \in {"closed", "open"}

(* "A successful configuration mutation creates a restart fence": the heater's      *)
(* owner asks only once for OFF, and nothing that starts by web, timer or retry     *)
(* wants heat after that, whichever round fails and however the loop is left.       *)
ChangeEndsHeat == product.pending => ~product.wanted

(* While network and web work, the station's listener is bound to the address that  *)
(* the station has, or there is none.                                           *)
ListenerIsCurrent ==
    product.life = "running" /\ product.network /\ product.web
        => product.listener \in {None, product.ip}

(* PRODUCT_AUTOSTART.md: "Shutdown never abandons the UART while the controller     *)
(* still requests heat or the heater is not confirmed `off`."                      *)
HeaterOpened == product.opened >= 2

StoppedIsSafe == product.life = "closed" /\ HeaterOpened => ~burning
===============================================================================
