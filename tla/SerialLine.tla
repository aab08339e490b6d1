------------------------------ MODULE SerialLine -------------------------------
(* The serial line of the heater below the messages: the framer that finds frames in  *)
(* the bytes received (protocol/autoterm_frames.py), the transport that polls the     *)
(* receiver, gives up a candidate that stays incomplete and latches a receiver        *)
(* that lies (protocol/uart_transport.py).                                         *)
(*                                                                               *)
(* A byte is a number; the third byte of a frame declares how many bytes of payload   *)
(* follow the header, and a payload may hold the start marker.  Whatever goes wrong   *)
(* on the wire, in the driver or in the framer is a fault, at most MaxLineFaults of   *)
(* them.  No validator is given to the framer and no declared length exceeds its       *)
(* limit, as in the product.                                                       *)
EXTENDS Integers, Sequences, SequencesExt

CONSTANTS
    Marker,             \* 0xAA
    Noise,              \* what a damaged byte may turn into
    Answers,            \* the frames the heater sends
    InterByteTimeout,   \* until a candidate is given up
    MaxEmptyReads,      \* until the receiver is taken for broken
    MaxWire,            \* bound: bytes under way
    MaxLineFaults       \* bound: faults of wire, driver and framer

Overhead == 7

WellFramed(f) == Len(f) >= Overhead /\ f[1] = Marker /\ Len(f) = f[3] + Overhead

ASSUME LineAssumption ==
    /\ Marker \in Nat /\ Noise \subseteq Nat
    /\ Answers \subseteq Seq(Nat)
    /\ \A f \in Answers : WellFramed(f)
    /\ {InterByteTimeout, MaxEmptyReads} \subseteq Nat \ {0}
    /\ {MaxWire, MaxLineFaults} \subseteq Nat

VARIABLES
    rx,         \* the receiver: buffer of the framer, age of its last byte, fault
    wire,       \* bytes sent by the heater and not yet read
    heard,      \* what the last step has handed on
    insync,     \* history: nothing went wrong since the line was last silent
    owed,       \* history: the frames sent since, and not handed on
    lineFaults  \* faults so far

lineVars == <<rx, wire, heard, insync, owed, lineFaults>>

LineTypeOK ==
    /\ rx.buffer \in Seq(Nat) /\ rx.age \in 0 .. InterByteTimeout
    /\ rx.empties \in 0 .. MaxEmptyReads /\ rx.faulted \in BOOLEAN
    /\ wire \in Seq(Nat) /\ Len(wire) <= MaxWire
    /\ heard \in Seq(Seq(Nat))
    /\ insync \in BOOLEAN /\ owed \in Seq(Answers)
    /\ lineFaults \in 0 .. MaxLineFaults

LineInit ==
    /\ rx = [buffer |-> <<>>, age |-> 0, empties |-> 0, faulted |-> FALSE]
    /\ wire = <<>> /\ heard = <<>>
    /\ insync = TRUE /\ owed = <<>>
    /\ lineFaults = 0

Fault == lineFaults < MaxLineFaults /\ lineFaults' = lineFaults + 1

-------------------------------------------------------------------------------
(* The framer *)

(* Where the next candidate begins beyond the first n bytes. *)
NextMarker(bytes, n) ==
    LET markers == {i \in n + 1 .. Len(bytes) : bytes[i] = Marker}
    IN IF markers = {} THEN Len(bytes) + 1 ELSE Min(markers)

FrameEnd(bytes, start) == start + bytes[start + 2] + Overhead - 1

(* Its length has not been received, or not all of it. *)
Incomplete(bytes, start) == start + 2 > Len(bytes) \/ FrameEnd(bytes, start) > Len(bytes)

(* _extract_frames(): what is found beyond the first n bytes, hence beyond none. *)
Extract(bytes) ==
    LET found[n \in 0 .. Len(bytes)] ==
            LET start == NextMarker(bytes, n)
                end == FrameEnd(bytes, start)
            IN IF Incomplete(bytes, start)
               THEN [frames |-> <<>>, rest |-> SubSeq(bytes, start, Len(bytes))]
               ELSE [frames |-> <<SubSeq(bytes, start, end)>> \o found[end].frames,
                     rest |-> found[end].rest]
    IN found[0]

(* Faulty: the whole chunk goes with the frame it completes. *)
FedOnce(bytes) ==
    LET found == Extract(bytes)
    IN IF found.frames = <<>> THEN found ELSE [found EXCEPT !.rest = <<>>]

(* feed() *)
Fed(bytes) == Extract(bytes)

(* Faulty: the candidate is tried again instead of being given up. *)
RetriedAsIs(bytes) == Extract(bytes)

(* recover_after_timeout() *)
Resynchronized(bytes) == Extract(Tail(bytes))

-------------------------------------------------------------------------------
(* poll() *)

(* The line is silent and the framer is empty: whatever comes begins a frame. *)
Silent == rx'.buffer = <<>> /\ wire' = <<>>

(* Nothing went wrong; what was handed on is no longer owed. *)
Continue(frames) ==
    /\ heard' = frames
    /\ insync' = (insync \/ Silent)
    /\ owed' = IF insync THEN SubSeq(owed, Len(frames) + 1, Len(owed)) ELSE <<>>
    /\ UNCHANGED lineFaults

Derail(frames) ==
    /\ Fault
    /\ heard' = frames
    /\ insync' = FALSE
    /\ owed' = <<>>

(* What is ready to be read: some of what is under way. *)
Chunks == 1 .. Len(wire)

PollChunk ==
    \E n \in Chunks :
        LET fed == Fed(rx.buffer \o SubSeq(wire, 1, n))
        IN /\ rx' = [rx EXCEPT !.buffer = fed.rest, !.age = 0, !.empties = 0]
           /\ wire' = SubSeq(wire, n + 1, Len(wire))
           /\ Continue(fed.frames)

CandidateExpired == rx.buffer # <<>> /\ rx.age = InterByteTimeout

(* No byte is ready.  Within a frame that lasts only if the heater stalls. *)
PollSilence ==
    LET found == IF CandidateExpired THEN Resynchronized(rx.buffer)
                 ELSE [frames |-> <<>>, rest |-> rx.buffer]
    IN /\ rx' = [rx EXCEPT !.buffer = found.rest, !.empties = 0,
                           !.age = IF CandidateExpired THEN 0 ELSE @]
       /\ UNCHANGED wire
       /\ IF wire # <<>> /\ CandidateExpired THEN Derail(found.frames) ELSE Continue(found.frames)

(* The driver raises, and what it had may be gone. *)
PollRaises ==
    /\ UNCHANGED rx
    /\ \/ UNCHANGED wire /\ Continue(<<>>)
       \/ \E n \in Chunks : wire' = SubSeq(wire, n + 1, Len(wire)) /\ Derail(<<>>)

(* It says that there is something to read, and then there is not. *)
PollEmpty ==
    /\ rx' = [rx EXCEPT !.empties = @ + 1, !.faulted = rx.empties + 1 >= MaxEmptyReads]
    /\ UNCHANGED wire
    /\ Continue(<<>>)

(* The framer raises, over a chunk or while it gives up a candidate, and is reset; if   *)
(* that fails as well, the receiver is not used again.                                *)
FramerRaises ==
    \E n \in Chunks \cup {0}, fails \in BOOLEAN :
        /\ n = 0 => CandidateExpired
        /\ rx' = [rx EXCEPT !.buffer = IF fails THEN @ ELSE <<>>, !.age = 0, !.empties = 0,
                            !.faulted = fails]
        /\ wire' = SubSeq(wire, n + 1, Len(wire))
        /\ Derail(<<>>)

Receiving == ~rx.faulted

PollLine ==
    /\ Receiving
    /\ PollChunk \/ PollSilence \/ PollRaises \/ PollEmpty \/ FramerRaises

(* reset_rx() *)
ResetRx ==
    /\ \E fails \in BOOLEAN :
          rx' = [rx EXCEPT !.buffer = IF fails THEN @ ELSE <<>>,
                           !.empties = IF fails THEN @ ELSE 0,
                           !.faulted = fails]
    /\ UNCHANGED wire
    /\ Derail(<<>>)

-------------------------------------------------------------------------------
(* The wire *)

(* The heater answers. *)
Answer ==
    \E f \in Answers :
        /\ Len(wire) + Len(f) <= MaxWire
        /\ wire' = wire \o f
        /\ owed' = IF insync THEN Append(owed, f) ELSE <<>>
        /\ heard' = <<>>
        /\ UNCHANGED <<rx, insync, lineFaults>>

(* A byte is lost, or damaged. *)
Damage ==
    \E i \in Chunks :
        /\ \/ wire' = RemoveAt(wire, i)
           \/ \E b \in Noise : wire' = [wire EXCEPT ![i] = b]
        /\ UNCHANGED rx
        /\ Derail(<<>>)

LineTick ==
    /\ rx.age < InterByteTimeout
    /\ rx' = [rx EXCEPT !.age = @ + 1]
    /\ heard' = <<>>
    /\ UNCHANGED <<wire, insync, owed, lineFaults>>

LineNext == PollLine \/ ResetRx \/ Answer \/ Damage \/ LineTick

(* The loop goes on, and so does time. *)
LineFairness == WF_lineVars(PollLine) /\ WF_lineVars(LineTick)

LineSpec == LineInit /\ [][LineNext]_lineVars /\ LineFairness

-------------------------------------------------------------------------------
(* Properties *)

(* What the heater sends over a sound wire is handed on frame by frame, complete, in    *)
(* order and nothing else, in whatever pieces it is read and whatever its payload       *)
(* looks like; and this holds again as soon as the line was silent and the framer       *)
(* empty, whatever went wrong before.                                              *)
FramesArrive ==
    [][insync /\ insync' => heard' \o owed' = owed \/ (heard' = <<>> /\ IsPrefix(owed, owed'))]_lineVars

(* ... and this is bound to come: a candidate that a fault has left behind is given up  *)
(* and what is behind it is looked at, until the line is in step, unless the receiver   *)
(* is broken or the heater sends on.                                               *)
LineRecovers == ~insync ~> (insync \/ rx.faulted \/ wire # <<>>)
===============================================================================
