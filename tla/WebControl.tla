------------------------------ MODULE WebControl ------------------------------
(* The way a command takes from a browser to the Requested State of the        *)
(* heater or to the stored configuration: the page (web/app.js, web/home.js),   *)
(* RestApplication.handle(), ManualControlGateway and                           *)
(* ConfigurationAPIGateway.  The device handles one request at a time, so a      *)
(* request is one step; the requests of the pages wait in `mail`, where they    *)
(* are overtaken, lost, or handled after their page gave them up.  Timers,       *)
(* sessions that end, and reboots come in between.                              *)
EXTENDS Naturals, FiniteSets, Absence

CONSTANTS
    Pages,          \* browser pages
    Wishes,         \* sets of start parameters, each with its source
    MaxChanges,     \* bound on the changes of the Requested State
    MaxGeneration,  \* bound on the configuration generation
    MaxBoot,        \* bound on the boots
    MaxMail         \* bound on the requests under way

ASSUME WebAssumption ==
    /\ {MaxChanges, MaxGeneration, MaxBoot, MaxMail} \subseteq Nat \ {0}
    /\ {"timer", "adjusted"} \cap Wishes = {}
    /\ None \notin Wishes \cup {"timer", "adjusted", "done", "denied", "stale", "conflict", "failed"}

VARIABLES
    device,     \* Requested State, configuration, latches, boot
    page,       \* what each page has read, and the command it waits for
    mail,       \* requests under way
    answer      \* the outcome of the request just handled

webVars == <<device, page, mail, answer>>

(* `changes` counts the Requested States since the first boot, for the          *)
(* properties only.  While a failed save leaves the stored document `unsure`     *)
(* the start gate is closed.                                                   *)
WebInit ==
    /\ device = [on |-> FALSE, with |-> None, rev |-> 0, changes |-> 0,
                 gen |-> 1, runs |-> 1, unsure |-> FALSE, armed |-> TRUE,
                 manualFaulted |-> FALSE, restFaulted |-> FALSE, boot |-> 1]
    /\ page = [p \in Pages |-> [csrf |-> 0, etag |-> 1, rev |-> 0, boot |-> 1, changes |-> 0,
                                waits |-> None]]
    /\ mail = {}
    /\ answer = None

-------------------------------------------------------------------------------
(* The Requested State. *)

Requesting(d, wish) == [d EXCEPT !.on = TRUE, !.with = wish, !.rev = @ + 1, !.changes = @ + 1]

RequestedOff(d) ==
    [d EXCEPT !.on = FALSE, !.with = None, !.rev = @ + 1, !.changes = @ + 1]

(* Configuration, start gate and running configuration are one. *)
Authority == ~device.unsure /\ device.runs = device.gen

Room(n) == device.changes + n <= MaxChanges

-------------------------------------------------------------------------------
(* The device's answer to each command. *)

Ends(d, status) == device' = d /\ answer' = status

Refused(status) == Ends(device, status)

(* Faulty: the failed start is not stopped. *)
RestNotRolledBack(d) == {[d EXCEPT !.restFaulted = TRUE]}

(* A start fails after it was requested: inside the gateway, which stops it     *)
(* again, or later, when only the REST application notices.  A stop that fails   *)
(* leaves its latch.                                                            *)
RestRolledBack(d) ==
    LET latched == [d EXCEPT !.restFaulted = TRUE]
    IN {RequestedOff(latched), [latched EXCEPT !.manualFaulted = TRUE]}

GatewayRolledBack(d) ==
    LET latched == [d EXCEPT !.manualFaulted = TRUE]
    IN {RequestedOff(latched)} \cup RestRolledBack(latched)

(* The start of a page that repeats what it has already been given. *)
Repeats(m) == device.rev = m.rev + 1 /\ device.on /\ device.with = m.with

(* Faulty: the revision is not compared. *)
ExpectedAnything(m) == TRUE

(* A start is for the revision its page has read. *)
Expected(m) == device.rev = m.rev

Start(m) ==
    /\ m.op = "start"
    /\ \/ (device.manualFaulted \/ ~Authority) /\ Refused("failed")
       \/ /\ ~device.manualFaulted /\ Authority
          /\ \/ ~Expected(m) /\ Refused(IF Repeats(m) THEN "done" ELSE "conflict")
             \/ Expected(m) /\ Refused("conflict")
             \/ /\ Expected(m) /\ ~device.on /\ Room(2)
                /\ LET requested == Requesting(device, m.with)
                   IN \/ Ends(requested, "done")
                      \/ \E d \in GatewayRolledBack(requested) \cup RestRolledBack(requested) :
                            Ends(d, "failed")

(* STOP needs neither generation nor revision, and no latch refuses it.  Its     *)
(* bookkeeping may fail after the request is OFF.                               *)
Stop(m) ==
    /\ m.op = "stop"
    /\ \/ ~device.on /\ Refused("done")
       \/ device.on /\ Room(1) /\ \E status \in {"done", "failed"} :
                                      Ends(RequestedOff(device), status)
       \/ device.on /\ Ends([device EXCEPT !.manualFaulted = TRUE], "failed")

SessionExpected(m) == device.on /\ device.rev = m.rev

(* An adjustment that fails after it was applied is not taken back. *)
Update(m) ==
    /\ m.op = "update"
    /\ \/ (device.manualFaulted \/ ~Authority) /\ Refused("failed")
       \/ /\ ~device.manualFaulted /\ Authority
          /\ \/ Refused("conflict")
             \/ /\ SessionExpected(m)
                /\ \/ Refused("done")
                   \/ Room(1) /\ \E status \in {"done", "failed"} :
                                     Ends(Requesting(device, "adjusted"), status)

Disarmed(d) == [d EXCEPT !.armed = FALSE]

Saved(d) == [d EXCEPT !.gen = @ + 1]

(* Timers are disarmed before a document is written and stay so, whatever the    *)
(* write does: done, with an answer that may fail yet, refused, or failed with    *)
(* the document unsure until the boot.                                          *)
Save(m) ==
    /\ m.op = "save"
    /\ \/ \E status \in {"done", "conflict"} : Refused(status)
       \/ device.unsure /\ Ends(Disarmed(device), "failed")
       \/ /\ ~device.unsure
          /\ \/ device.gen < MaxGeneration /\ \E status \in {"done", "failed"} :
                   Ends(Saved(Disarmed(device)), status)
             \/ Ends(Disarmed(device), "failed")
             \/ device.gen < MaxGeneration /\ Ends([Disarmed(device) EXCEPT !.unsure = TRUE], "failed")

(* The token of this boot, and no latch but for STOP. *)
Admitted(m) == m.csrf = device.boot /\ (m.op = "stop" \/ ~device.restFaulted)

Current(m) == m.op = "stop" \/ m.etag = device.gen

Handle(m) ==
    \/ m.csrf # device.boot /\ Refused("denied")
    \/ m.csrf = device.boot /\ ~Admitted(m) /\ Refused("failed")
    \/ Admitted(m) /\ ~Current(m) /\ Refused("stale")
    \/ Admitted(m) /\ Current(m) /\ (Start(m) \/ Stop(m) \/ Update(m) \/ Save(m))

-------------------------------------------------------------------------------
(* The page. *)

Sees(p, d) == [p EXCEPT !.rev = d.rev, !.boot = d.boot, !.changes = d.changes]

Reads(p, d) == [p EXCEPT !.etag = d.gen]

(* The status poll, and the documents; both wait while a command runs. *)
Poll(p) ==
    /\ page[p].waits = None
    /\ page' = [page EXCEPT ![p] = Sees(@, device)]
    /\ answer' = None
    /\ UNCHANGED <<device, mail>>

Load(p) ==
    /\ page[p].waits = None
    /\ page' = [page EXCEPT ![p] = Reads(@, device)]
    /\ answer' = None
    /\ UNCHANGED <<device, mail>>

(* A command carries what the page knows, however old; a page without a token    *)
(* asks for one first, and does not look again.  `seen` and `boot` say what the   *)
(* user was looking at, `sent` in which boot the request left; history.          *)
Command(p, op, wish) ==
    [page |-> p, op |-> op, with |-> wish,
     csrf |-> IF page[p].csrf = 0 THEN device.boot ELSE page[p].csrf,
     etag |-> IF op = "stop" THEN 0 ELSE page[p].etag,
     rev |-> IF op \in {"start", "update"} THEN page[p].rev ELSE 0,
     seen |-> IF op \in {"start", "update"} THEN page[p].changes ELSE 0,
     boot |-> IF op \in {"start", "update"} THEN page[p].boot ELSE 0,
     sent |-> device.boot]

Submit(p) ==
    /\ page[p].waits = None
    /\ Cardinality(mail) < MaxMail
    /\ \E op \in {"start", "update", "stop", "save"}, wish \in Wishes \cup {None} :
          /\ (op = "start") <=> (wish # None)
          /\ LET m == Command(p, op, wish)
             IN /\ mail' = mail \cup {m}
                /\ page' = [page EXCEPT ![p].waits = m, ![p].csrf = m.csrf]
    /\ answer' = None
    /\ UNCHANGED device

(* The fetch fails: the request may be lost, handled, or still under way. *)
GiveUp(p) ==
    /\ page[p].waits # None
    /\ page' = [page EXCEPT ![p].waits = None]
    /\ answer' = None
    /\ UNCHANGED <<device, mail>>

Lose(m) ==
    /\ mail' = mail \ {m}
    /\ answer' = None
    /\ UNCHANGED <<device, page>>

(* An answer brings its ETag, also a 412; a 403 or 503 drops the token; after a  *)
(* success the page reads what the command was about.                           *)
Tagged(m, status) == status = "stale" \/ (status = "done" /\ m.op # "stop")

Told(p, m, status, d) ==
    LET told == [p EXCEPT !.waits = None,
                          !.csrf = IF status \in {"denied", "failed"} THEN 0 ELSE @,
                          !.etag = IF Tagged(m, status) THEN d.gen ELSE @]
    IN IF status # "done" THEN told
       ELSE Sees(IF m.op = "save" THEN Reads(told, d) ELSE told, d)

Deliver(m) ==
    /\ Handle(m)
    /\ mail' = mail \ {m}
    /\ \/ UNCHANGED page
       \/ /\ page[m.page].waits = m
          /\ page' = [page EXCEPT ![m.page] = Told(@, m, answer', device')]

-------------------------------------------------------------------------------
(* The rest of the device. *)

TimerStarts ==
    /\ device.armed /\ ~device.on /\ Room(1)
    /\ device' = Requesting(device, "timer")
    /\ answer' = None
    /\ UNCHANGED <<page, mail>>

RequestEnds ==
    /\ device.on /\ Room(1)
    /\ device' = RequestedOff(device)
    /\ answer' = None
    /\ UNCHANGED <<page, mail>>

(* A boot reads the documents, finds an unsure one written or not, draws a new    *)
(* token and counts requests from zero.                                         *)
Reboot ==
    /\ device.boot < MaxBoot /\ Room(1)
    /\ \E read \in IF device.unsure THEN {device, Saved(device)} ELSE {device} :
          device' = [read EXCEPT !.on = FALSE, !.with = None, !.rev = 0, !.changes = @ + 1,
                                 !.runs = read.gen, !.unsure = FALSE, !.armed = TRUE,
                                 !.manualFaulted = FALSE, !.restFaulted = FALSE,
                                 !.boot = @ + 1]
    /\ answer' = None
    /\ UNCHANGED <<page, mail>>

WebNext ==
    \/ \E p \in Pages : Poll(p) \/ Load(p) \/ Submit(p) \/ GiveUp(p)
    \/ \E m \in mail : Deliver(m) \/ Lose(m)
    \/ TimerStarts
    \/ RequestEnds
    \/ Reboot

WebSpec == WebInit /\ [][WebNext]_webVars

-------------------------------------------------------------------------------
(* Properties. *)

WebTypeOK ==
    /\ device.with \in Wishes \cup {"timer", "adjusted", None}
    /\ device.on <=> device.with # None
    /\ device.rev <= device.changes /\ device.changes <= MaxChanges
    /\ device.runs <= device.gen /\ device.gen <= MaxGeneration
    /\ Cardinality(mail) <= MaxMail
    /\ answer \in {None, "done", "denied", "stale", "conflict", "failed"}

Handled == mail \ mail'

(* REQUIREMENTS 27.3.  A request sent before a reboot changes nothing after it.     *)
(* And within the boot in which its page has looked, a start or an adjustment       *)
(* never overwrites what another client, a timer or the end of a session has done   *)
(* since, so that a look starts at most once in its boot however often the command  *)
(* is repeated.  A look from before a reboot is left out: see StartsOverwriteNothing. *)
CommandsAreCurrent ==
    [][\A m \in Handled :
          /\ device' # device => m.sent = device.boot
          /\ /\ m.op \in {"start", "update"} /\ device'.changes # device.changes
             /\ m.boot = device.boot
             => m.seen = device.changes]_webVars

(* REQUIREMENTS 27.3, without that exception: whatever has been requested in this    *)
(* boot, a start that takes effect comes from a page that has seen it.  The code       *)
(* compares a number that begins anew with each boot.                              *)
StartsOverwriteNothing ==
    [][\A m \in Handled :
          m.op = "start" /\ device'.changes # device.changes =>
             device.rev = 0 \/ (m.boot = device.boot /\ m.seen = device.changes)]_webVars

(* What the page is told is so: a start it is told succeeded is requested as      *)
(* asked, one it is told failed is OFF unless both latches say that even stopping   *)
(* failed; a STOP this boot admits ends in OFF, or its failure is latched.         *)
AnswersAreTrue ==
    [][\A m \in Handled :
          /\ m.op = "start" /\ answer' = "done" => device'.on /\ device'.with = m.with
          /\ m.op = "start" /\ answer' = "failed" /\ ~device.on =>
                ~device'.on \/ (device'.restFaulted /\ device'.manualFaulted)
          /\ m.op = "stop" /\ m.csrf = device.boot /\ answer' # None =>
                ~device'.on \/ device'.manualFaulted]_webVars

(* A timer never starts the heater from a configuration that has been replaced     *)
(* or that may have been: the scheduler is disarmed before the first write.        *)
TimersRunTheirDocument ==
    [][device'.with = "timer" /\ device.with # "timer" => Authority]_webVars

(* Nothing starts on what its boot has replaced: neither a command by hand nor a     *)
(* timer.                                                                      *)
StartsAreCurrent == CommandsAreCurrent /\ TimersRunTheirDocument
===============================================================================
