----------------------------- MODULE HttpServer -----------------------------
(***************************************************************************)
(* The cooperative HTTP server (adapters/micropython_http_server.py): one  *)
(* listener, a table of two connections and a step that closes what is     *)
(* overdue and then makes one call of accept, recv, send or close, turn    *)
(* and turn about. What comes over a connection is left to the peer, and   *)
(* so is how much of it a call returns; any call may fail.                 *)
(*                                                                         *)
(* The peer's side is the variable "socket": a connection waits in the     *)
(* listener's queue, is open once accepted, and closed in the end. The     *)
(* table is what the server knows of it.                                   *)
(***************************************************************************)
EXTENDS Absence, Integers, FiniteSets, FiniteSetsExt

CONSTANTS
    Sockets,        \* the connections that peers open
    Slots,          \* places in the table (1 .. MAX_CLIENTS)
    IdleTimeout,    \* ticks between two bytes
    TotalTimeout,   \* ticks for the headers, the body or the answer
    MaxChunks,      \* bound: reads that fill a request (MAX_REQUEST_BYTES)
    AnswerChunks,   \* writes that an answer takes
    MaxSocketErrors \* bound: calls that fail

ASSUME HttpAssumption ==
    /\ None \notin Sockets
    /\ Cardinality(Slots) \in Nat \ {0} /\ Slots = 1 .. Cardinality(Slots)
    /\ {IdleTimeout, TotalTimeout, MaxChunks, AnswerChunks} \subseteq Nat \ {0}
    /\ IdleTimeout <= TotalTimeout
    /\ MaxSocketErrors \in Nat

VARIABLES
    listener,       \* "down", "up", "stuck" (its close failed)
    table,          \* what each slot holds
    turn,           \* the actor whose turn it is: 0 accepts
    serverClosed,   \* deinit() was called
    socket,         \* the peer's side of each connection
    handled,        \* requests handed to the application, by connection
    socketErrors    \* calls that failed so far

httpVars == <<listener, table, turn, serverClosed, socket, handled, socketErrors>>

Reading == {"first", "headers", "body"}

FreeSlot == [port |-> None, phase |-> "free", idle |-> 0, total |-> 0, got |-> 0, left |-> 0]

HttpTypeOK ==
    /\ listener \in {"down", "up", "stuck"}
    /\ table \in [Slots -> [port : Sockets \cup {None},
                            phase : Reading \cup {"free", "write", "closing", "rejected"},
                            idle : 0 .. IdleTimeout, total : 0 .. TotalTimeout,
                            got : 0 .. MaxChunks, left : 0 .. AnswerChunks]]
    /\ turn \in {0} \cup Slots
    /\ serverClosed \in BOOLEAN
    /\ socket \in [Sockets -> {"absent", "queued", "open", "closed"}]
    /\ handled \in [Sockets -> 0 .. 2]
    /\ socketErrors \in 0 .. MaxSocketErrors

HttpInit ==
    /\ listener = "down"
    /\ table = [i \in Slots |-> FreeSlot]
    /\ turn = 0
    /\ serverClosed = FALSE
    /\ socket = [s \in Sockets |-> "absent"]
    /\ handled = [s \in Sockets |-> 0]
    /\ socketErrors = 0

Errors(n) ==
    /\ socketErrors + n <= MaxSocketErrors
    /\ socketErrors' = socketErrors + n

-----------------------------------------------------------------------------
(* A slot *)

Entering(c, phase) ==
    [c EXCEPT !.phase = phase, !.idle = IdleTimeout, !.total = TotalTimeout]

Answering(c, chunks) == [Entering(c, "write") EXCEPT !.got = 0, !.left = chunks]

Closing(c) == [FreeSlot EXCEPT !.port = c.port, !.phase = "closing"]

Due(c) == c.idle = 0 \/ c.total = 0

(* What _expire_clients() closes ... *)
TimedOut(c) ==
    \/ c.phase \in {"closing", "rejected"}
    \/ c.phase = "write" /\ Due(c)

(* ... and what it answers with a timeout. *)
LateRequest(c) == c.phase \in Reading /\ Due(c)

(* Faulty: the slot is given up although its connection stays open. *)
AfterCloseForgetful(c, ok) == FreeSlot

(* A close that fails keeps the connection, to be tried again. *)
AfterClose(c, ok) ==
    IF ok THEN FreeSlot
    ELSE IF c.phase = "rejected" THEN c ELSE Closing(c)

Expired(c, ok) ==
    CASE TimedOut(c) -> AfterClose(c, ok)
      [] LateRequest(c) -> Answering(c, 1)
      [] OTHER -> c

Free(t) == {i \in Slots : t[i].phase = "free"}

Eligible(t, actor) ==
    IF actor = 0 THEN Free(t) # {}
    ELSE t[actor].phase \notin {"free", "rejected"}

Actors == {0} \cup Slots

After(actor) == (actor + 1) % Cardinality(Actors)

(* The next in turn that has something to do. *)
Chosen(t) ==
    LET distance(a) == (a - turn) % Cardinality(Actors)
        ready == {a \in Actors : Eligible(t, a)}
    IN CHOOSE a \in ready : \A b \in ready : distance(a) <= distance(b)

-----------------------------------------------------------------------------
(* step(): "fails" are the slots whose connection cannot be closed in this  *)
(* step, "expired" is the table after the overdue were dealt with.          *)

Closed(fails) == {i \in Slots : TimedOut(table[i])} \ fails

PeersSee(slots, accepted) ==
    socket' = [s \in Sockets |->
                 IF \E i \in slots : table[i].port = s THEN "closed"
                 ELSE IF s \in accepted THEN "open" ELSE socket[s]]

Untouched(expired, fails, next) ==
    /\ table' = expired /\ turn' = next
    /\ PeersSee(Closed(fails), {})
    /\ UNCHANGED handled

GaveUp(expired, fails, i) ==
    /\ table' = [expired EXCEPT ![i] = AfterClose(@, i \notin fails)]
    /\ turn' = After(i)
    /\ PeersSee(Closed(fails) \cup ({i} \ fails), {})
    /\ UNCHANGED handled

(* Every connection is closed before an error leaves step(). *)
Panic(expired, fails, next) ==
    /\ table' = [i \in Slots |-> IF expired[i].phase = "free" THEN FreeSlot
                                 ELSE AfterClose(expired[i], i \notin fails)]
    /\ turn' = next
    /\ PeersSee(Slots \ fails, {})

Accept(expired, fails, costs) ==
    \/ /\ \A s \in Sockets : socket[s] # "queued"
       /\ Untouched(expired, fails, After(0))
       /\ Errors(costs)
    \/ Untouched(expired, fails, After(0)) /\ Errors(costs + 1)  \* accept failed
    \/ \E s \in Sockets :
          LET i == Min(Free(expired))
          IN /\ socket[s] = "queued"
             /\ turn' = After(0)
             /\ UNCHANGED handled
             /\ \/ /\ table' = [expired EXCEPT ![i] =
                                  [FreeSlot EXCEPT !.port = s, !.phase = "first",
                                                   !.idle = IdleTimeout, !.total = IdleTimeout]]
                   /\ PeersSee(Closed(fails), {s})
                   /\ Errors(costs)
                \/ /\ table' = [expired EXCEPT ![i] =
                                  AfterClose([FreeSlot EXCEPT !.port = s, !.phase = "rejected"],
                                             i \notin fails)]
                   /\ IF i \in fails THEN PeersSee(Closed(fails), {s})
                      ELSE socket' = [t \in Sockets |->
                              IF t = s \/ \E j \in Closed(fails) : table[j].port = t
                              THEN "closed" ELSE socket[t]]
                   /\ Errors(costs + 1)

(* Faulty: a request is handed on although its connection is read on. *)
(* An application that answers, raises or answers what cannot be encoded. *)
Answered(c, chunks) == Answering(c, chunks)

Receive(expired, fails, i, costs) ==
    LET c == expired[i]
        grown == [c EXCEPT !.got = @ + 1]
        stays(d, next) ==
            /\ table' = [expired EXCEPT ![i] = d]
            /\ turn' = next
            /\ PeersSee(Closed(fails), {})
    IN \/ Untouched(expired, fails, After(i)) /\ Errors(costs)    \* nothing came
       \/ GaveUp(expired, fails, i) /\ Errors(costs)              \* the peer is gone
       \/ Panic(expired, fails, After(i)) /\ UNCHANGED handled /\ Errors(costs + 1)
       \/ /\ c.got = MaxChunks
          /\ stays(Answering(c, 1), i)
          /\ UNCHANGED handled /\ Errors(costs)
       \/ /\ c.got < MaxChunks
          /\ \/ /\ c.phase \in {"first", "headers"}               \* more headers to come
                /\ \/ stays(IF c.phase = "first" THEN Entering(grown, "headers")
                            ELSE [grown EXCEPT !.idle = IdleTimeout], After(i))
                   \/ stays(Entering(grown, "body"), After(i))
                /\ UNCHANGED handled /\ Errors(costs)
             \/ /\ c.phase = "body"
                /\ stays([grown EXCEPT !.idle = IdleTimeout], After(i))
                /\ UNCHANGED handled /\ Errors(costs)
             \/ /\ stays(Answering(grown, 1), i)                  \* malformed
                /\ UNCHANGED handled /\ Errors(costs)
             \/ /\ handled' = [handled EXCEPT ![c.port] = Min({2, @ + 1})]
                /\ \/ /\ stays(Answered(grown, AnswerChunks), i)
                      /\ Errors(costs)
                   \/ /\ \/ stays(Answered(grown, 1), i)
                         \/ /\ table' = [expired EXCEPT ![i] = AfterClose(grown, i \notin fails)]
                            /\ turn' = After(i)
                            /\ PeersSee(Closed(fails) \cup ({i} \ fails), {})
                         \/ Panic(expired, fails, After(i))
                      /\ Errors(costs + 1)

(* A writer that makes progress keeps its turn. *)
Send(expired, fails, i, costs) ==
    \/ Untouched(expired, fails, After(i)) /\ Errors(costs)
    \/ /\ expired[i].left > 1
       /\ table' = [expired EXCEPT ![i].left = @ - 1, ![i].idle = IdleTimeout]
       /\ turn' = i
       /\ PeersSee(Closed(fails), {})
       /\ UNCHANGED handled /\ Errors(costs)
    \/ GaveUp(expired, fails, i) /\ Errors(costs)
    \/ Panic(expired, fails, After(i)) /\ UNCHANGED handled /\ Errors(costs + 1)

Perform(expired, fails, costs) ==
    IF \A a \in Actors : ~Eligible(expired, a)
    THEN Untouched(expired, fails, turn) /\ Errors(costs)
    ELSE LET actor == Chosen(expired)
         IN CASE actor = 0 -> Accept(expired, fails, costs)
              [] actor # 0 /\ expired[actor].phase = "closing" ->
                    GaveUp(expired, fails, actor) /\ Errors(costs)
              [] actor # 0 /\ expired[actor].phase = "write" ->
                    Send(expired, fails, actor, costs)
              [] OTHER -> Receive(expired, fails, actor, costs)

HttpStep ==
    /\ listener = "up" /\ ~serverClosed
    /\ \E fails \in SUBSET Slots :
          Perform([i \in Slots |-> Expired(table[i], i \notin fails)],
                  fails, IF fails = {} THEN 0 ELSE 1)
    /\ UNCHANGED <<listener, serverClosed>>

-----------------------------------------------------------------------------
(* start() and deinit() *)

HttpStart ==
    /\ ~serverClosed /\ listener = "down"
    /\ \A i \in Slots : table[i].phase = "free"
    /\ \/ listener' = "up" /\ turn' = 0 /\ UNCHANGED socketErrors
       \/ listener' \in {"down", "stuck"} /\ Errors(1) /\ UNCHANGED turn
    /\ UNCHANGED <<table, serverClosed, socket, handled>>

ShutSlots(fails) ==
    /\ table' = [i \in Slots |-> IF table[i].phase = "free" THEN FreeSlot
                                 ELSE AfterClose(table[i], i \notin fails)]
    /\ PeersSee(Slots \ fails, {})

(* Tried again as long as something could not be closed. *)
HttpDeinit ==
    /\ serverClosed => listener # "down" \/ \E i \in Slots : table[i].phase # "free"
    /\ serverClosed' = TRUE
    /\ \E fails \in SUBSET Slots, down \in BOOLEAN :
          /\ listener' = IF down \/ listener = "down" THEN "down" ELSE "stuck"
          /\ ShutSlots(fails)
          /\ Errors(IF fails = {} /\ down THEN 0 ELSE 1)
    /\ UNCHANGED <<turn, handled>>

-----------------------------------------------------------------------------
(* The peers and the clock *)

Connect ==
    \E s \in Sockets :
        /\ socket[s] = "absent" /\ listener = "up"
        /\ socket' = [socket EXCEPT ![s] = "queued"]
        /\ UNCHANGED <<listener, table, turn, serverClosed, handled, socketErrors>>

Timed(c) == c.idle > 0 \/ c.total > 0

HttpTick ==
    /\ \E i \in Slots : Timed(table[i])
    /\ table' = [i \in Slots |-> [table[i] EXCEPT !.idle = IF @ > 0 THEN @ - 1 ELSE 0,
                                                  !.total = IF @ > 0 THEN @ - 1 ELSE 0]]
    /\ UNCHANGED <<listener, turn, serverClosed, socket, handled, socketErrors>>

HttpNext ==
    \/ HttpStart
    \/ HttpStep
    \/ HttpDeinit
    \/ Connect
    \/ HttpTick

(* The product steps its server again and again; time passes.               *)
(* A step is told from the other actions by what it changes.                *)
HttpStepped == <<table, turn>>' # <<table, turn>> /\ ~HttpTick

HttpFairness ==
    /\ []<>(listener # "up" \/ serverClosed) \/ []<><<HttpStepped>>_httpVars
    /\ WF_httpVars(HttpTick)

HttpSpec == HttpInit /\ [][HttpNext]_httpVars /\ HttpFairness

-----------------------------------------------------------------------------
(* Properties *)

Owners(s) == {i \in Slots : table[i].port = s}

(* No connection is lost or mixed up, whatever fails: one that is open is    *)
(* held by one slot, one that is not open by none (_close_client(),          *)
(* _reject_accepted(), _close_all_clients()).                                *)
OpenIsOwned ==
    \A s \in Sockets : Cardinality(Owners(s)) = IF socket[s] = "open" THEN 1 ELSE 0

(* A request reaches the application at most once, although its answer may   *)
(* fail, time out or be cut short (_parse_and_route()).                      *)
HandledOnce == \A s \in Sockets : handled[s] <= 1

(* Each connection has one place, and each of its requests is handled once.   *)
ConnectionsAreOwned == OpenIsOwned /\ HandledOnce

(* Slow, silent and vanished peers do not keep the others out: a connection  *)
(* that waits is accepted and closed in the end, while the server runs.      *)
ConnectionsEnd ==
    \A s \in Sockets : []<>(socket[s] \notin {"queued", "open"} \/ serverClosed)
=============================================================================
