----------------------- MODULE SchedulerGatewayProofs ------------------------
(***************************************************************************)
(* Theorems about SchedulerGateway, for every value of its constants.      *)
(*                                                                         *)
(* The argument is about histories.  LedgerIsMonotone is reflexive but not *)
(* transitive (a record may disappear under the high water and come back   *)
(* below it), so what each operation of the scheduler keeps is stated as   *)
(* Extends(s, q): whatever ledger the history of s continues, the history  *)
(* of q continues.  Backed ties the manager to the disk, and              *)
(* PendingIsStopped says what a pending override is about.                 *)
(*                                                                         *)
(* That timers start in time and alone rests on TimelyInv, which ties what  *)
(* the scheduler observed last to the moment the clock was last set, and on *)
(* the calendar: the offset changes only as a minute begins.               *)
(***************************************************************************)
EXTENDS SchedulerGateway, TLAPS, FiniteSetTheorems

-----------------------------------------------------------------------------
(* The strengthening.                                                      *)

(* No record lies beyond the high water. *)
Bounded(l) ==
    \A t \in TimerIds : l.occ[t] # None => l.occ[t].minute <= l.high

Sound(s) ==
    /\ s \in Schedulers
    /\ Bounded(ExportHistory(s))
    /\ ~s.armed => s.baseline = None

Extends(s, q) ==
    /\ Sound(q)
    /\ q.high >= s.high
    /\ \A l \in Ledgers :
          LedgerIsMonotone(l, ExportHistory(s)) =>
              LedgerIsMonotone(l, ExportHistory(q))

(* The manager holds what is on the disk unless a commit got lost. *)
Backed(m, d) ==
    m.trusted => IF d.ahead THEN m.faulted ELSE m.ledger = d.ledger

PendingIsStopped == gw.pending # None => request.source # "timer"

IInv ==
    /\ TypeOK
    /\ Sound(sch)
    /\ Bounded(disk.ledger)
    /\ Backed(mgr, disk)
    /\ PendingIsStopped
    /\ NoOrphan
    /\ HistoryIsAccepted
    /\ HistoryIsDurable

USE DEF Nowhen

-----------------------------------------------------------------------------
(* Ledgers.                                                                *)

LEMMA MonotoneIsReflexive ==
    ASSUME NEW l \in Ledgers
    PROVE  LedgerIsMonotone(l, l)
BY NoneIsNoValue DEF LedgerIsMonotone, Ledgers, Records, Latches

LEMMA ExportIsLedger ==
    ASSUME NEW s \in Schedulers
    PROVE  /\ ExportHistory(s) \in Ledgers
           /\ ExportHistory(s).occ = s.occ
           /\ ExportHistory(s).high = s.high
BY DEF Schedulers, ExportHistory, Ledgers

LEMMA EmptyIsLedger ==
    /\ EmptyLedger \in Ledgers
    /\ Bounded(EmptyLedger)
    /\ \A l \in Ledgers : LedgerIsMonotone(EmptyLedger, l)
BY DEF EmptyLedger, Ledgers, Records, Bounded, LedgerIsMonotone

(* What a boot restores of a ledger continues it and is continued by it.   *)
LEMMA RestorableKeeps ==
    ASSUME NEW timers \in TimerTables, NEW l \in Ledgers, Bounded(l)
    PROVE  /\ Restorable(timers, l) \in Ledgers
           /\ Bounded(Restorable(timers, l))
           /\ LedgerIsMonotone(l, Restorable(timers, l))
           /\ LedgerIsMonotone(Restorable(timers, l), l)
<1>1. Restorable(timers, l) =
         [high |-> l.high,
          occ |-> [t \in TimerIds |->
                      IF timers[t].configured THEN l.occ[t] ELSE None]]
  BY DEF Restorable, Ledgers
<1> QED
  BY <1>1, NoneIsNoValue
     DEF Ledgers, Records, Latches, Bounded, LedgerIsMonotone

-----------------------------------------------------------------------------
(* The scheduler.                                                          *)

LEMMA ExtendsIsReflexive ==
    ASSUME NEW s, Sound(s)
    PROVE  Extends(s, s)
BY DEF Extends, Sound, Schedulers

LEMMA ExtendsIsTransitive ==
    ASSUME NEW s, NEW q, NEW r, Sound(s), Extends(s, q), Extends(q, r)
    PROVE  Extends(s, r)
BY DEF Extends, Sound, Schedulers

(* Operators that leave the history alone. *)
LEMMA SameHistoryExtends ==
    ASSUME NEW s, NEW q \in Schedulers, Sound(s),
           q.occ = s.occ, q.high = s.high, ~q.armed => q.baseline = None
    PROVE  Extends(s, q)
<1>1. ExportHistory(q) = ExportHistory(s)
  BY DEF ExportHistory
<1> QED
  BY <1>1 DEF Extends, Sound, Schedulers

LEMMA ObserveExtends ==
    ASSUME NEW s, Sound(s), NEW c \in [utc : Nat, rev : Nat, trusted : BOOLEAN,
                                       anchor : Nat]
    PROVE  /\ Extends(s, Observe(s, c))
           /\ Observe(s, c).active = s.active
           /\ Observe(s, c).high = s.high
<1>1. Observation(c) \in Observations
  BY DEF Observation, Observations
<1>2. /\ Observe(s, c) \in Schedulers
      /\ Observe(s, c).occ = s.occ
      /\ Observe(s, c).high = s.high
      /\ Observe(s, c).active = s.active
      /\ ~Observe(s, c).armed => Observe(s, c).baseline = None
  BY <1>1 DEF Observe, Sound, Schedulers
<1> QED
  BY <1>2, SameHistoryExtends

LEMMA ConsumeExtends ==
    ASSUME NEW s, Sound(s), NEW timers \in SUBSET TimerIds, NEW minute \in Nat,
           minute > s.high
    PROVE  /\ Extends(s, Consume(s, timers, minute))
           /\ Consume(s, timers, minute).active = s.active
           /\ Consume(s, timers, minute).high = minute
<1> DEFINE q == Consume(s, timers, minute)
<1>1. [minute |-> minute, overridden |-> FALSE] \in Latches
  BY DEF Latches
<1>2. /\ q \in Schedulers
      /\ q.high = minute
      /\ q.active = s.active
      /\ q.armed = s.armed
      /\ q.baseline = s.baseline
      /\ q.occ = [t \in TimerIds |-> IF t \in timers
                                     THEN [minute |-> minute, overridden |-> FALSE]
                                     ELSE s.occ[t]]
  BY <1>1 DEF Consume, Sound, Schedulers, Records
<1>3. /\ s.high \in Nat \cup {-1}
      /\ s.occ \in Records
      /\ ExportHistory(s).occ = s.occ /\ ExportHistory(s).high = s.high
      /\ ExportHistory(q).occ = q.occ /\ ExportHistory(q).high = q.high
  BY <1>2, ExportIsLedger DEF Sound, Schedulers
<1>4. Bounded(ExportHistory(q))
  BY <1>2, <1>3 DEF Bounded, Sound, Records, Latches
<1>5. ASSUME NEW l \in Ledgers, LedgerIsMonotone(l, ExportHistory(s))
      PROVE  LedgerIsMonotone(l, ExportHistory(q))
  <2>1. l.high \in Nat \cup {-1} /\ l.occ \in Records
    BY DEF Ledgers
  <2>2. q.high >= l.high
    BY <1>2, <1>3, <1>5, <2>1 DEF LedgerIsMonotone
  <2>3. ASSUME NEW t \in TimerIds, l.occ[t] # None
        PROVE  IF q.occ[t] = None THEN q.high >= l.occ[t].minute
               ELSE \/ q.occ[t].minute > l.occ[t].minute
                    \/ /\ q.occ[t].minute = l.occ[t].minute
                       /\ l.occ[t].overridden => q.occ[t].overridden
    <3>1. l.occ[t].minute \in Nat
      BY <2>1, <2>3 DEF Records, Latches
    <3>2. l.occ[t].minute <= s.high
      <4>1. CASE s.occ[t] = None
        BY <4>1, <1>3, <1>5, <2>3, <3>1 DEF LedgerIsMonotone
      <4>2. CASE s.occ[t] # None
        <5>1. s.occ[t] \in Latches /\ s.occ[t].minute <= s.high
          BY <4>2, <1>3 DEF Records, Sound, Bounded
        <5>2. s.occ[t].minute >= l.occ[t].minute
          BY <4>2, <5>1, <1>3, <1>5, <2>3, <3>1 DEF LedgerIsMonotone, Latches
        <5> QED
          BY <5>1, <5>2, <1>3, <3>1 DEF Latches
      <4> QED
        BY <4>1, <4>2
    <3>3. CASE t \in timers
      <4>1. q.occ[t] = [minute |-> minute, overridden |-> FALSE]
        BY <1>2, <3>3
      <4>2. q.occ[t] # None
        BY <4>1, <1>1, NoneIsNoValue
      <4> QED
        BY <4>1, <4>2, <3>1, <3>2, <1>3
    <3>4. CASE t \notin timers
      <4>1. q.occ[t] = s.occ[t]
        BY <1>2, <3>4
      <4> QED
        BY <4>1, <3>1, <3>2, <1>2, <1>3, <1>5, <2>3 DEF LedgerIsMonotone
    <3> QED
      BY <3>3, <3>4
  <2> QED
    BY <2>2, <2>3, <1>3 DEF LedgerIsMonotone
<1> QED
  BY <1>2, <1>3, <1>4, <1>5 DEF Extends, Sound, Schedulers

LEMMA LocalMinuteIsNat ==
    ASSUME NEW u \in Nat
    PROVE  LocalMinute(u) \in Nat
BY ClockAssumption, DstAssumption DEF LocalMinute, Offset

LEMMA StepExtends ==
    ASSUME NEW s, Sound(s), NEW a \in BOOLEAN,
           NEW c \in [utc : Nat, rev : Nat, trusted : BOOLEAN, anchor : Nat]
    PROVE  LET q == StepScheduler(s, c, a)
           IN /\ Extends(s, q.sch)
              /\ q.sch.active = s.active
              /\ q.intent \in {None} \cup Occurrences
              /\ q.intent # None => /\ a
                                    /\ s.active = None
                                    /\ q.sch.high = q.intent.minute
                                    /\ q.sch.high > s.high
<1> DEFINE due == Found(s, c)
           minute == LocalMinute(c.utc)
           o == Observe(s, c)
           q == StepScheduler(s, c, a)
<1>1. minute \in Nat
  BY LocalMinuteIsNat
<1>2. /\ due \subseteq TimerIds
      /\ due # {} => minute > s.high
  BY DEF Found, Due, Unspent
<1>3. Extends(s, o) /\ Sound(o) /\ o.active = s.active /\ o.high = s.high
  BY ObserveExtends DEF Extends
<1>4. CASE due = {}
  <2>1. Cardinality(due) = 0
    BY <1>4, FS_EmptySet
  <2>2. q.sch = o /\ q.intent = None
    BY <1>4, <2>1 DEF StepScheduler, IsAlone
  <2> QED
    BY <2>2, <1>3
<1>5. CASE due # {}
  <2>1. q.sch = Consume(o, due, minute)
    BY <1>5 DEF StepScheduler
  <2>2. /\ Extends(o, q.sch)
        /\ q.sch.active = s.active
        /\ q.sch.high = minute
    BY <1>1, <1>2, <1>3, <1>5, <2>1, ConsumeExtends
  <2>3. Extends(s, q.sch)
    BY <2>2, <1>3, ExtendsIsTransitive
  <2>4. (CHOOSE t \in due : TRUE) \in TimerIds
    BY <1>2, <1>5
  <2>5. /\ q.intent \in {None} \cup Occurrences
        /\ q.intent # None => /\ a /\ s.active = None
                              /\ q.intent.minute = minute
    BY <1>1, <2>4 DEF StepScheduler, Occurrences
  <2> QED
    BY <2>2, <2>3, <2>5, <1>2, <1>5
<1> QED
  BY <1>4, <1>5

LEMMA OverrideExtends ==
    ASSUME NEW s, Sound(s), s.active # None
    PROVE  /\ Extends(s, MarkManualOverride(s))
           /\ MarkManualOverride(s).active = None
           /\ MarkManualOverride(s).high = s.high
<1> DEFINE q == MarkManualOverride(s)
           id == s.active.timer
<1>1. s.active \in Occurrences /\ id \in TimerIds /\ s.occ \in Records
  BY DEF Sound, Schedulers, Occurrences
<1>2. /\ q \in Schedulers
      /\ q.high = s.high /\ q.active = None
      /\ q.armed = s.armed /\ q.baseline = s.baseline
      /\ \A t \in TimerIds :
            /\ q.occ[t] = None <=> s.occ[t] = None
            /\ s.occ[t] # None => /\ q.occ[t].minute = s.occ[t].minute
                                  /\ s.occ[t].overridden => q.occ[t].overridden
  <2>1. CASE s.occ[id] # None /\ s.occ[id].minute = s.active.minute
    <3> DEFINE marked == [s.occ[id] EXCEPT !.overridden = TRUE]
    <3>1. s.occ[id] \in Latches
      BY <1>1, <2>1 DEF Records
    <3>2. marked \in Latches /\ marked.minute = s.occ[id].minute
          /\ marked.overridden
      BY <3>1 DEF Latches
    <3>3. q = [s EXCEPT !.active = None, !.occ = [s.occ EXCEPT ![id] = marked]]
      BY <2>1, <1>1 DEF MarkManualOverride, Sound, Schedulers, Records
    <3>4. [s.occ EXCEPT ![id] = marked] \in Records
      BY <1>1, <3>2 DEF Records
    <3>5. /\ q \in Schedulers /\ q.high = s.high /\ q.active = None
          /\ q.armed = s.armed /\ q.baseline = s.baseline
          /\ q.occ = [s.occ EXCEPT ![id] = marked]
      BY <3>3, <3>4 DEF Sound, Schedulers
    <3>6. marked # None
      BY <3>2, NoneIsNoValue
    <3> QED
      BY <3>2, <3>5, <3>6, <1>1, <2>1 DEF Records
  <2>2. CASE ~(s.occ[id] # None /\ s.occ[id].minute = s.active.minute)
    <3>1. q = [s EXCEPT !.active = None, !.occ = [s.occ EXCEPT ![id] = @]]
      BY <2>2 DEF MarkManualOverride, Sound, Schedulers
    <3>2. [s.occ EXCEPT ![id] = @] = s.occ
      BY <1>1 DEF Records
    <3> QED
      BY <3>1, <3>2 DEF Sound, Schedulers
  <2> QED
    BY <2>1, <2>2
<1>3. /\ ExportHistory(s).occ = s.occ /\ ExportHistory(s).high = s.high
      /\ ExportHistory(q).occ = q.occ /\ ExportHistory(q).high = q.high
  BY <1>2, ExportIsLedger DEF Sound
<1>4. Bounded(ExportHistory(q))
  BY <1>2, <1>3 DEF Bounded, Sound
<1>5. ASSUME NEW l \in Ledgers, LedgerIsMonotone(l, ExportHistory(s))
      PROVE  LedgerIsMonotone(l, ExportHistory(q))
  BY <1>2, <1>3, <1>5 DEF LedgerIsMonotone
<1> QED
  BY <1>2, <1>4, <1>5 DEF Extends, Sound, Schedulers

LEMMA CompleteExtends ==
    ASSUME NEW s, Sound(s)
    PROVE  /\ Extends(s, MarkActiveComplete(s))
           /\ MarkActiveComplete(s).active = None
           /\ MarkActiveComplete(s).high = s.high
<1>1. /\ MarkActiveComplete(s) \in Schedulers
      /\ MarkActiveComplete(s).occ = s.occ
      /\ MarkActiveComplete(s).high = s.high
      /\ MarkActiveComplete(s).active = None
      /\ MarkActiveComplete(s).armed = s.armed
      /\ MarkActiveComplete(s).baseline = s.baseline
  BY DEF MarkActiveComplete, Sound, Schedulers
<1> QED
  BY <1>1, SameHistoryExtends DEF Sound

LEMMA AuthorizeKeepsHistory ==
    ASSUME NEW s, Sound(s), NEW c, NEW d
    PROVE  /\ AuthorizeIntent(s, c, d) \in Schedulers
           /\ AuthorizeIntent(s, c, d).occ = s.occ
           /\ AuthorizeIntent(s, c, d).high = s.high
           /\ AuthorizeIntent(s, c, d).active = s.active
           /\ Sound(AuthorizeIntent(s, c, d))
<1> DEFINE q == AuthorizeIntent(s, c, d)
<1>1. /\ q \in Schedulers /\ q.occ = s.occ /\ q.high = s.high
      /\ q.active = s.active
      /\ ~q.armed => q.baseline = None
  BY DEF AuthorizeIntent, Sound, Schedulers
<1>2. Extends(s, q)
  BY <1>1, SameHistoryExtends
<1> QED
  BY <1>1, <1>2 DEF Extends

LEMMA AssociateKeepsHistory ==
    ASSUME NEW s, Sound(s), NEW o \in Occurrences
    PROVE  /\ CompleteIntent(s, o).occ = s.occ
           /\ CompleteIntent(s, o).high = s.high
           /\ CompleteIntent(s, o).active = o
           /\ Sound(CompleteIntent(s, o))
<1> DEFINE q == CompleteIntent(s, o)
<1>1. /\ q \in Schedulers /\ q.occ = s.occ /\ q.high = s.high
      /\ q.active = o /\ q.armed = s.armed /\ q.baseline = s.baseline
  BY DEF CompleteIntent, Sound, Schedulers
<1>2. Extends(s, q)
  BY <1>1, SameHistoryExtends DEF Sound
<1> QED
  BY <1>1, <1>2 DEF Extends

LEMMA DisarmKeepsHistory ==
    ASSUME NEW s, Sound(s)
    PROVE  /\ Disarm(s).occ = s.occ
           /\ Disarm(s).high = s.high
           /\ Disarm(s).active = s.active
           /\ ~Disarm(s).armed
           /\ Sound(Disarm(s))
<1> DEFINE q == Disarm(s)
<1>1. /\ q \in Schedulers /\ q.occ = s.occ /\ q.high = s.high
      /\ q.active = s.active /\ ~q.armed /\ q.baseline = None
  BY DEF Disarm, Sound, Schedulers
<1>2. Extends(s, q)
  BY <1>1, SameHistoryExtends
<1> QED
  BY <1>1, <1>2 DEF Extends

LEMMA BuildIsSound ==
    ASSUME NEW timers \in TimerTables, NEW l \in Ledgers, Bounded(l)
    PROVE  /\ Sound(BuildScheduler(timers, l))
           /\ ExportHistory(BuildScheduler(timers, l)).occ = l.occ
           /\ ExportHistory(BuildScheduler(timers, l)).high = l.high
           /\ BuildScheduler(timers, l).armed
           /\ BuildScheduler(timers, l).active = None
<1>1. /\ BuildScheduler(timers, l) \in Schedulers
      /\ BuildScheduler(timers, l).occ = l.occ
      /\ BuildScheduler(timers, l).high = l.high
      /\ BuildScheduler(timers, l).armed
      /\ BuildScheduler(timers, l).active = None
  BY DEF BuildScheduler, Schedulers, Ledgers
<1> QED
  BY <1>1 DEF Sound, Bounded, ExportHistory

-----------------------------------------------------------------------------
(* The manager and the disk.                                               *)

(* What a checkpoint may come to, whatever is submitted. *)
LEMMA CheckpointFacts ==
    ASSUME IInv, NEW l \in Ledgers, Bounded(l), NEW r \in Checkpoints(l)
    PROVE  /\ r.mgr \in [ledger : Ledgers, trusted : BOOLEAN, faulted : BOOLEAN]
           /\ r.disk \in [ledger : Ledgers, ahead : BOOLEAN]
           /\ r.done \in BOOLEAN
           /\ Bounded(r.disk.ledger)
           /\ Backed(r.mgr, r.disk)
           /\ r.mgr.trusted = mgr.trusted
           /\ r.mgr.ledger \in {mgr.ledger, l}
           /\ r.disk.ledger \in {disk.ledger, l}
           /\ r.disk.ledger # disk.ledger => mgr.trusted
           /\ LedgerIsMonotone(disk.ledger, r.disk.ledger)
           /\ r.done => /\ r.disk.ledger = l
                        /\ mgr.trusted
                        /\ mgr.ledger = disk.ledger
<1>1. /\ mgr \in [ledger : Ledgers, trusted : BOOLEAN, faulted : BOOLEAN]
      /\ disk \in [ledger : Ledgers, ahead : BOOLEAN]
      /\ Backed(mgr, disk)
      /\ Bounded(disk.ledger)
  BY DEF IInv, TypeOK
<1>2. LedgerIsMonotone(disk.ledger, disk.ledger)
  BY <1>1, MonotoneIsReflexive
<1> DEFINE failed(d) == [done |-> FALSE, mgr |-> [mgr EXCEPT !.faulted = TRUE],
                         disk |-> d]
           written == [done |-> Restorable(conf.timers, l) = l,
                       mgr |-> [mgr EXCEPT !.ledger = l, !.faulted = FALSE],
                       disk |-> [ledger |-> l, ahead |-> FALSE]]
<1>3. CASE Refuses(l)
  <2>1. r = [done |-> FALSE, mgr |-> mgr, disk |-> disk]
    BY <1>3 DEF Checkpoints
  <2> QED
    BY <2>1, <1>1, <1>2
<1>4. CASE ~Refuses(l) /\ l = mgr.ledger
  <2>1. r = [done |-> Restorable(conf.timers, l) = l /\ ~mgr.faulted,
             mgr |-> mgr, disk |-> disk]
    BY <1>4 DEF Checkpoints
  <2>2. mgr.trusted
    BY <1>4 DEF Refuses
  <2>3. r.done => mgr.ledger = disk.ledger
    BY <2>1, <2>2, <1>1 DEF Backed
  <2> QED
    BY <2>1, <2>2, <2>3, <1>1, <1>2, <1>4
<1>5. CASE ~Refuses(l) /\ l # mgr.ledger
  <2>1. mgr.trusted /\ LedgerIsMonotone(mgr.ledger, l)
    BY <1>5 DEF Refuses
  <2>2. \/ r = failed(disk)
        \/ ~disk.ahead /\ r = failed([ledger |-> l, ahead |-> TRUE])
        \/ ~disk.ahead /\ r = written
    BY <1>5 DEF Checkpoints
  <2>3. ~disk.ahead => mgr.ledger = disk.ledger
    BY <1>1, <2>1 DEF Backed
  <2>4. CASE r = failed(disk)
    BY <2>1, <2>4, <1>1, <1>2 DEF Backed
  <2>5. CASE ~disk.ahead /\ r = failed([ledger |-> l, ahead |-> TRUE])
    BY <2>1, <2>3, <2>5, <1>1 DEF Backed
  <2>6. CASE ~disk.ahead /\ r = written
    <3>1. /\ r.mgr = [ledger |-> l, trusted |-> mgr.trusted, faulted |-> FALSE]
          /\ r.disk = [ledger |-> l, ahead |-> FALSE]
          /\ r.done \in BOOLEAN
      BY <2>6, <1>1
    <3> QED
      BY <3>1, <2>1, <2>3, <2>6, <1>1 DEF Backed
  <2> QED
    BY <2>2, <2>4, <2>5, <2>6
<1> QED
  BY <1>3, <1>4, <1>5

(* What the manager would accept continues what it holds afterwards. *)
LEMMA CheckpointAccepts ==
    ASSUME IInv, NEW s, Extends(sch, s),
           NEW r \in Checkpoints(ExportHistory(s))
    PROVE  r.mgr.trusted => LedgerIsMonotone(r.mgr.ledger, ExportHistory(s))
<1>1. /\ ExportHistory(s) \in Ledgers
      /\ Bounded(ExportHistory(s))
  BY ExportIsLedger DEF Extends, Sound
<1>2. /\ mgr.ledger \in Ledgers
      /\ mgr.trusted => LedgerIsMonotone(mgr.ledger, ExportHistory(sch))
  BY DEF IInv, TypeOK, HistoryIsAccepted
<1>3. r.mgr.trusted = mgr.trusted
      /\ r.mgr.ledger \in {mgr.ledger, ExportHistory(s)}
  BY <1>1, CheckpointFacts
<1>4. mgr.trusted => LedgerIsMonotone(mgr.ledger, ExportHistory(s))
  BY <1>2 DEF Extends
<1> QED
  BY <1>1, <1>3, <1>4, MonotoneIsReflexive

(* Power loss leaves one of the outcomes of the checkpoint. *)
LEMMA SurvivorFacts ==
    ASSUME IInv, NEW l \in Ledgers, Bounded(l), NEW d \in Survivors(l)
    PROVE  /\ d \in [ledger : Ledgers, ahead : BOOLEAN]
           /\ Bounded(d.ledger)
           /\ LedgerIsMonotone(disk.ledger, d.ledger)
<1>1. CASE d = disk
  BY <1>1, MonotoneIsReflexive DEF IInv, TypeOK
<1>2. CASE \E r \in Checkpoints(l) : d = r.disk
  BY <1>2, CheckpointFacts
<1> QED
  BY <1>1, <1>2 DEF Survivors

-----------------------------------------------------------------------------
(* The steps.                                                              *)

Running(q) == IF q.source = "timer" THEN q.occurrence.minute ELSE Nowhen

(* A minute is spent and starts something in the same step. *)
Fires ==
    /\ Running(request) = Nowhen
    /\ Running(request') = disk'.ledger.high
    /\ disk'.ledger.high > disk.ledger.high

(* What every step keeps. *)
Kept ==
    /\ IInv'
    /\ LedgerIsMonotone(disk.ledger, disk'.ledger)
    /\ Running(request') \in {Running(request), Nowhen} \/ Fires

LEMMA PreparedFacts ==
    ASSUME IInv, NEW repairs \in BOOLEAN
    PROVE  LET p == Prepared(repairs)
           IN /\ Extends(sch, p.sch)
              /\ Sound(p.sch)
              /\ p.sch.high = sch.high
              /\ p.gw \in [faulted : BOOLEAN, pending : {None} \cup Occurrences]
              /\ p.gw.pending \in {gw.pending, None}
              /\ request.source = "timer" => p.sch.active = sch.active
<1> DEFINE p0 == [sch |-> sch, gw |-> gw]
           p1 == RepairOverride(p0, repairs)
           p == Prepared(repairs)
<1>1. /\ gw \in [faulted : BOOLEAN, pending : {None} \cup Occurrences]
      /\ Sound(sch)
      /\ gw.pending # None => request.source # "timer"
      /\ Extends(sch, sch)
  BY ExtendsIsReflexive DEF IInv, TypeOK, PendingIsStopped
<1>2. /\ Extends(sch, p1.sch)
      /\ Sound(p1.sch)
      /\ p1.sch.high = sch.high
      /\ p1.gw \in [faulted : BOOLEAN, pending : {None} \cup Occurrences]
      /\ p1.gw.pending \in {gw.pending, None}
      /\ request.source = "timer" => p1.sch.active = sch.active
  <2>1. CASE gw.pending = None
    BY <2>1, <1>1 DEF RepairOverride
  <2>2. CASE gw.pending # None /\ sch.active # gw.pending
    <3>1. p1 = [sch |-> sch, gw |-> [gw EXCEPT !.pending = None]]
      BY <2>2 DEF RepairOverride
    <3> QED
      BY <3>1, <1>1
  <2>3. CASE gw.pending # None /\ sch.active = gw.pending /\ ~repairs
    <3>1. p1 = p0
      BY <2>3 DEF RepairOverride
    <3> QED
      BY <3>1, <1>1
  <2>4. CASE gw.pending # None /\ sch.active = gw.pending /\ repairs
    <3>1. p1 = [sch |-> MarkManualOverride(sch),
                gw |-> [gw EXCEPT !.pending = None]]
      BY <2>4 DEF RepairOverride
    <3>2. /\ Extends(sch, MarkManualOverride(sch))
          /\ Sound(MarkManualOverride(sch))
          /\ MarkManualOverride(sch).high = sch.high
      BY <2>4, <1>1, OverrideExtends DEF Extends
    <3>3. p1.gw \in [faulted : BOOLEAN, pending : {None} \cup Occurrences]
          /\ p1.gw.pending = None
      BY <3>1, <1>1
    <3>4. p1.sch = MarkManualOverride(sch)
      BY <3>1
    <3>5. request.source # "timer"
      BY <2>4, <1>1
    <3> HIDE DEF p1
    <3> QED
      BY <3>2, <3>3, <3>4, <3>5
  <2> QED
    BY <2>1, <2>2, <2>3, <2>4
<1>3. CASE p1.gw.pending = None /\ p1.sch.active # None /\ SessionComplete
  <2>1. p1 = [sch |-> p1.sch, gw |-> p1.gw]
    BY DEF RepairOverride
  <2>2. p = [sch |-> MarkActiveComplete(p1.sch), gw |-> p1.gw]
    BY <1>3, <2>1 DEF Prepared, ReconcileActive
  <2>3. /\ Extends(p1.sch, MarkActiveComplete(p1.sch))
        /\ MarkActiveComplete(p1.sch).high = sch.high
    BY <1>2, CompleteExtends
  <2>4. Extends(sch, MarkActiveComplete(p1.sch))
    BY <1>1, <1>2, <2>3, ExtendsIsTransitive
  <2>5. request.source # "timer"
    BY <1>3 DEF SessionComplete, Off
  <2> QED
    BY <2>2, <2>3, <2>4, <2>5, <1>2 DEF Extends
<1>4. CASE ~(p1.gw.pending = None /\ p1.sch.active # None /\ SessionComplete)
  <2>1. p = p1
    BY <1>4 DEF Prepared, ReconcileActive
  <2> QED
    BY <2>1, <1>2
<1> QED
  BY <1>3, <1>4

LEMMA EndRoundFacts ==
    ASSUME NEW s, Sound(s), NEW m, EndRound(s, m)
    PROVE  /\ Sound(sch')
           /\ sch'.occ = s.occ /\ sch'.high = s.high /\ sch'.active = s.active
           /\ restart' \in BOOLEAN
           /\ restart' => ~sch'.armed
BY DisarmKeepsHistory DEF EndRound, RestartRequired

(* The histories agree after a checkpoint of the scheduler's history. *)
LEMMA CheckpointKeeps ==
    ASSUME IInv, NEW s, Extends(sch, s),
           NEW r \in Checkpoints(ExportHistory(s)),
           mgr' = r.mgr, disk' = r.disk,
           Sound(sch'), sch'.occ = s.occ, sch'.high = s.high,
           ~gw'.faulted => r.done
    PROVE  /\ mgr' \in [ledger : Ledgers, trusted : BOOLEAN, faulted : BOOLEAN]
           /\ disk' \in [ledger : Ledgers, ahead : BOOLEAN]
           /\ Bounded(disk'.ledger)
           /\ Backed(mgr', disk')
           /\ HistoryIsAccepted'
           /\ HistoryIsDurable'
           /\ LedgerIsMonotone(disk.ledger, disk'.ledger)
<1>1. ExportHistory(s) \in Ledgers /\ Bounded(ExportHistory(s))
  BY ExportIsLedger DEF Extends, Sound
<1>2. ExportHistory(sch') = ExportHistory(s)
  BY DEF ExportHistory
<1>3. /\ r.mgr \in [ledger : Ledgers, trusted : BOOLEAN, faulted : BOOLEAN]
      /\ r.disk \in [ledger : Ledgers, ahead : BOOLEAN]
      /\ Bounded(r.disk.ledger)
      /\ Backed(r.mgr, r.disk)
      /\ LedgerIsMonotone(disk.ledger, r.disk.ledger)
      /\ r.done => r.disk.ledger = ExportHistory(s)
  BY <1>1, CheckpointFacts
<1>4. HistoryIsAccepted'
  <2>1. r.mgr.trusted => LedgerIsMonotone(r.mgr.ledger, ExportHistory(s))
    BY CheckpointAccepts
  <2>2. \A t \in TimerIds : sch'.occ[t] # None =>
            sch'.occ[t].minute <= sch'.high
    BY <1>2, ExportIsLedger DEF Sound, Bounded
  <2> QED
    BY <1>2, <2>1, <2>2 DEF HistoryIsAccepted
<1>5. HistoryIsDurable'
  <2>1. LedgerIsMonotone(ExportHistory(s), ExportHistory(s))
    BY <1>1, MonotoneIsReflexive
  <2> QED
    BY <1>2, <1>3, <2>1 DEF HistoryIsDurable
<1> QED
  BY <1>3, <1>4, <1>5

LEMMA GatewayStepKeeps ==
    ASSUME IInv, NEW repairs \in BOOLEAN, GatewayStep(repairs)
    PROVE  Kept
<1> DEFINE p == Prepared(repairs)
           step == StepScheduler(p.sch, clock, Available(p))
<1>1. /\ clock \in [utc : Nat, rev : Nat, trusted : BOOLEAN, anchor : Nat]
      /\ request \in Requests
      /\ heater \in Heaters
      /\ NoOrphan
      /\ PendingIsStopped
      /\ Sound(sch)
      /\ mgr.ledger \in Ledgers
      /\ mgr.trusted => LedgerIsMonotone(mgr.ledger, ExportHistory(sch))
      /\ disk.ledger \in Ledgers
  BY DEF IInv, TypeOK, HistoryIsAccepted
<1>2. /\ Extends(sch, p.sch)
      /\ Sound(p.sch)
      /\ p.sch.high = sch.high
      /\ p.gw \in [faulted : BOOLEAN, pending : {None} \cup Occurrences]
      /\ p.gw.pending \in {gw.pending, None}
      /\ request.source = "timer" => p.sch.active = sch.active
  BY PreparedFacts
<1>3. Available(p) \in BOOLEAN
  BY DEF Available
<1>4. /\ Extends(p.sch, step.sch)
      /\ step.sch.active = p.sch.active
      /\ step.intent \in {None} \cup Occurrences
      /\ step.intent # None => /\ Available(p)
                               /\ step.sch.high = step.intent.minute
                               /\ step.sch.high > p.sch.high
  BY <1>1, <1>2, <1>3, StepExtends
<1>5. Extends(sch, step.sch) /\ Sound(step.sch)
  BY <1>1, <1>2, <1>4, ExtendsIsTransitive DEF Extends
<1>6. PICK r \in Checkpoints(ExportHistory(step.sch)) :
         /\ mgr' = r.mgr
         /\ disk' = r.disk
         /\ IF r.done /\ step.intent # None
            THEN ApplyIntent(step.sch, p.gw, r, step.intent)
            ELSE NoStart(step.sch, p.gw, r)
  BY DEF GatewayStep
<1>7. conf' = conf /\ conf \in [timers : TimerTables, changed : BOOLEAN]
  BY DEF GatewayStep, IInv, TypeOK
<1>8. /\ ExportHistory(step.sch) \in Ledgers
      /\ Bounded(ExportHistory(step.sch))
      /\ ExportHistory(step.sch).high = step.sch.high
      /\ ExportHistory(sch).high = sch.high
  BY <1>1, <1>5, ExportIsLedger DEF Sound
<1>9. r.done => /\ r.disk.ledger = ExportHistory(step.sch)
                /\ mgr.trusted
                /\ mgr.ledger = disk.ledger
  BY <1>8, CheckpointFacts
<1>10. r.done \in BOOLEAN
  BY <1>8, CheckpointFacts
<1> HIDE DEF p, step
(* The history is continued in every case. *)
<1>11. ASSUME Sound(sch'), sch'.occ = step.sch.occ, sch'.high = step.sch.high,
              restart' \in BOOLEAN, restart' => ~sch'.armed,
              clock' \in [utc : Nat, rev : Nat, trusted : BOOLEAN, anchor : Nat],
              gw' \in [faulted : BOOLEAN, pending : {None} \cup Occurrences],
              ~gw'.faulted => r.done,
              request' \in Requests, heater' \in Heaters,
              NoOrphan', PendingIsStopped',
              Running(request') \in {Running(request), Nowhen} \/ Fires
       PROVE  Kept
  <2>1. /\ mgr' \in [ledger : Ledgers, trusted : BOOLEAN, faulted : BOOLEAN]
        /\ disk' \in [ledger : Ledgers, ahead : BOOLEAN]
        /\ Bounded(disk'.ledger)
        /\ Backed(mgr', disk')
        /\ HistoryIsAccepted'
        /\ HistoryIsDurable'
        /\ LedgerIsMonotone(disk.ledger, disk'.ledger)
    BY <1>5, <1>6, <1>11, CheckpointKeeps
  <2>2. TypeOK'
    BY <1>7, <1>11, <2>1 DEF TypeOK, Sound
  <2> QED
    BY <1>11, <2>1, <2>2 DEF Kept, IInv
<1>12. CASE ~(r.done /\ step.intent # None)
  <2>1. NoStart(step.sch, p.gw, r)
    BY <1>6, <1>12
  <2>2. /\ clock' = clock /\ request' = request /\ heater' = heater
        /\ gw' = [p.gw EXCEPT !.faulted = @ \/ ~r.done]
        /\ EndRound(step.sch, r.mgr)
    BY <2>1 DEF NoStart
  <2>3. /\ Sound(sch')
        /\ sch'.occ = step.sch.occ /\ sch'.high = step.sch.high
        /\ sch'.active = step.sch.active
        /\ restart' \in BOOLEAN
        /\ restart' => ~sch'.armed
    BY <2>2, <1>5, EndRoundFacts
  <2>4. /\ gw' = [faulted |-> p.gw.faulted \/ ~r.done, pending |-> p.gw.pending]
    BY <2>2, <1>2
  <2>5. /\ gw' \in [faulted : BOOLEAN, pending : {None} \cup Occurrences]
        /\ ~gw'.faulted => r.done
        /\ gw'.pending = p.gw.pending
    BY <2>4, <1>2, <1>10
  <2>6. NoOrphan' /\ PendingIsStopped'
    BY <2>2, <2>3, <2>5, <1>1, <1>2, <1>4 DEF NoOrphan, PendingIsStopped
  <2> QED
    BY <2>2, <2>3, <2>5, <2>6, <1>1, <1>11
<1>13. CASE r.done /\ step.intent # None
  <2>1. ApplyIntent(step.sch, p.gw, r, step.intent)
    BY <1>6, <1>13
  <2>2. /\ Available(p)
        /\ step.intent \in Occurrences
        /\ step.sch.high = step.intent.minute
        /\ step.sch.high > sch.high
    BY <1>2, <1>4, <1>13
  <2>3. request = Off /\ p.gw.pending = None /\ p.sch.active = None
    BY <2>2 DEF Available
  <2>4. gw' = p.gw
    BY <2>1 DEF ApplyIntent
  <2>5. clock' \in [utc : Nat, rev : Nat, trusted : BOOLEAN, anchor : Nat]
    <3>1. PICK delay \in 0 .. MaxDelay : TimePasses(delay)
      BY <2>1 DEF ApplyIntent
    <3>2. PICK trusted \in {clock.trusted, FALSE} :
             clock' = [clock EXCEPT !.utc = @ + delay, !.trusted = trusted]
      BY <3>1 DEF TimePasses
    <3>3. clock.utc + delay \in Nat
      BY BoundsAssumption, <1>1
    <3>4. trusted \in BOOLEAN
      BY <1>1
    <3>5. clock' = [utc |-> clock.utc + delay, rev |-> clock.rev,
                    trusted |-> trusted, anchor |-> clock.anchor]
      BY <3>2, <1>1
    <3> QED
      BY <3>3, <3>4, <3>5, <1>1
  <2>6. CASE /\ \E q \in {step.sch, AuthorizeIntent(step.sch, clock, clock')} :
                   EndRound(q, r.mgr)
             /\ request' = request /\ heater' = heater
    <3>1. PICK q \in {step.sch, AuthorizeIntent(step.sch, clock, clock')} :
             EndRound(q, r.mgr)
      BY <2>6
    <3>2. /\ Sound(sch')
          /\ sch'.occ = step.sch.occ /\ sch'.high = step.sch.high
          /\ restart' \in BOOLEAN
          /\ restart' => ~sch'.armed
      <4>1. Sound(q) /\ q.occ = step.sch.occ /\ q.high = step.sch.high
        BY <1>5, AuthorizeKeepsHistory
      <4> QED
        BY <3>1, <4>1, EndRoundFacts
    <3>3. NoOrphan' /\ PendingIsStopped'
      BY <2>3, <2>4, <2>6, <1>2 DEF NoOrphan, PendingIsStopped, Off
    <3> QED
      BY <3>2, <3>3, <2>4, <2>5, <2>6, <1>1, <1>2, <1>11, <1>13
  <2>7. CASE /\ EndRound(CompleteIntent(step.sch, step.intent), r.mgr)
             /\ request' = Timer(step.intent) /\ heater' = "busy"
    <3>1. /\ CompleteIntent(step.sch, step.intent).occ = step.sch.occ
          /\ CompleteIntent(step.sch, step.intent).high = step.sch.high
          /\ CompleteIntent(step.sch, step.intent).active = step.intent
          /\ Sound(CompleteIntent(step.sch, step.intent))
      BY <1>5, <2>2, AssociateKeepsHistory
    <3>2. /\ Sound(sch')
          /\ sch'.occ = step.sch.occ /\ sch'.high = step.sch.high
          /\ sch'.active = step.intent
          /\ restart' \in BOOLEAN
          /\ restart' => ~sch'.armed
      BY <3>1, <2>7, EndRoundFacts
    <3>3. /\ request'.source = "timer" /\ request'.occurrence = step.intent
          /\ request' \in Requests /\ heater' \in Heaters
      BY <2>2, <2>7 DEF Timer, Requests, Heaters
    <3>4. NoOrphan' /\ PendingIsStopped'
      BY <3>2, <3>3, <2>3, <2>4 DEF NoOrphan, PendingIsStopped
    <3>5. Fires
      <4>1. Running(request) = Nowhen
        BY <2>3 DEF Running, Off
      <4>2. disk'.ledger.high = step.sch.high
        BY <1>6, <1>8, <1>9, <1>13
      <4>3. sch.high >= disk.ledger.high
        BY <1>1, <1>8, <1>9, <1>13 DEF LedgerIsMonotone
      <4>4. Running(request') = step.intent.minute
        BY <3>3 DEF Running
      <4>5. /\ sch.high \in Nat \cup {-1}
            /\ step.sch.high \in Nat \cup {-1}
            /\ disk.ledger.high \in Nat \cup {-1}
        BY <1>1, <1>5 DEF Sound, Schedulers, Ledgers
      <4> QED
        BY <4>1, <4>2, <4>3, <4>4, <4>5, <2>2 DEF Fires
    <3> QED
      BY <3>2, <3>3, <3>4, <3>5, <2>4, <2>5, <1>2, <1>11, <1>13
  <2> QED
    BY <2>1, <2>6, <2>7 DEF ApplyIntent
<1> QED
  BY <1>12, <1>13

(* A stop by hand. *)
LEMMA ManualStopKeeps ==
    ASSUME IInv, NEW marks \in BOOLEAN, RequestManualStop(marks)
    PROVE  Kept
<1> DEFINE overrides == request.source = "timer" /\ sch.active # None
           s == IF overrides /\ marks THEN MarkManualOverride(sch) ELSE sch
<1>1. /\ request' = Off /\ sch' = s
      /\ clock' = clock /\ conf' = conf /\ restart' = restart
      /\ heater' = heater
  BY DEF RequestManualStop
<1>2. /\ request' \in Requests
      /\ NoOrphan' /\ PendingIsStopped'
      /\ Running(request') = Nowhen
  BY <1>1 DEF Off, Requests, NoOrphan, PendingIsStopped, Running
<1>3. Sound(sch) /\ Extends(sch, sch)
  BY ExtendsIsReflexive DEF IInv
<1>4. CASE ~(overrides /\ marks)
  <2>1. sch' = sch
    BY <1>1, <1>4
  <2>2. mgr' = mgr /\ disk' = disk
    BY <1>4 DEF RequestManualStop
  <2>3. /\ gw' \in [faulted : BOOLEAN, pending : {None} \cup Occurrences]
        /\ ~gw'.faulted => ~gw.faulted
    <3>1. CASE ~overrides
      <4>1. gw' = gw
        BY <3>1 DEF RequestManualStop
      <4> QED
        BY <4>1 DEF IInv, TypeOK
    <3>2. CASE overrides /\ ~marks
      <4>1. gw' = [faulted |-> TRUE, pending |-> sch.active]
        BY <3>2 DEF RequestManualStop
      <4>2. sch.active \in {None} \cup Occurrences
        BY <1>3 DEF Sound, Schedulers
      <4> QED
        BY <4>1, <4>2
    <3> QED
      BY <1>4, <3>1, <3>2
  <2>4. TypeOK'
    BY <1>1, <1>2, <2>1, <2>2, <2>3 DEF IInv, TypeOK
  <2>5. /\ HistoryIsAccepted' /\ HistoryIsDurable'
        /\ Sound(sch)' /\ Bounded(disk.ledger)' /\ Backed(mgr, disk)'
    BY <2>1, <2>2, <2>3 DEF IInv, HistoryIsAccepted, HistoryIsDurable
  <2>6. LedgerIsMonotone(disk.ledger, disk'.ledger)
    BY <2>2, MonotoneIsReflexive DEF IInv, TypeOK
  <2> QED
    BY <1>2, <2>4, <2>5, <2>6 DEF IInv, Kept
<1>5. CASE overrides /\ marks
  <2>1. s = MarkManualOverride(sch)
    BY <1>5
  <2>2. Extends(sch, s) /\ Sound(s)
    BY <1>3, <1>5, <2>1, OverrideExtends DEF Extends
  <2>3. PICK r \in Checkpoints(ExportHistory(s)) :
           /\ mgr' = r.mgr
           /\ disk' = r.disk
           /\ gw' = [gw EXCEPT !.faulted = @ \/ ~r.done]
    BY <1>5 DEF RequestManualStop
  <2>4. ExportHistory(s) \in Ledgers /\ Bounded(ExportHistory(s))
    BY <2>2, ExportIsLedger DEF Sound
  <2>5. r.done \in BOOLEAN
    BY <2>4, CheckpointFacts
  <2> HIDE DEF s
  <2>6. gw' = [faulted |-> gw.faulted \/ ~r.done, pending |-> gw.pending]
    BY <2>3 DEF IInv, TypeOK
  <2>7. /\ gw' \in [faulted : BOOLEAN, pending : {None} \cup Occurrences]
        /\ ~gw'.faulted => r.done
    BY <2>5, <2>6 DEF IInv, TypeOK
  <2>8. /\ Sound(sch') /\ sch'.occ = s.occ /\ sch'.high = s.high
    BY <1>1, <2>2
  <2>9. /\ mgr' \in [ledger : Ledgers, trusted : BOOLEAN, faulted : BOOLEAN]
        /\ disk' \in [ledger : Ledgers, ahead : BOOLEAN]
        /\ Bounded(disk'.ledger)
        /\ Backed(mgr', disk')
        /\ HistoryIsAccepted'
        /\ HistoryIsDurable'
        /\ LedgerIsMonotone(disk.ledger, disk'.ledger)
    BY <2>2, <2>3, <2>7, <2>8, CheckpointKeeps
  <2>10. sch'.armed = sch.armed
    BY <1>1, <1>3, <2>1 DEF MarkManualOverride, Sound, Schedulers
  <2>11. TypeOK'
    BY <1>1, <1>2, <2>7, <2>8, <2>9, <2>10 DEF IInv, TypeOK, Sound
  <2> QED
    BY <1>2, <2>8, <2>9, <2>11 DEF IInv, Kept
<1> QED
  BY <1>4, <1>5

LEMMA ResetFaultKeeps ==
    ASSUME IInv, ResetFault
    PROVE  Kept
<1>1. /\ clock' = clock /\ conf' = conf /\ sch' = sch /\ restart' = restart
      /\ request' = request /\ heater' = heater
  BY DEF ResetFault
<1>2. PICK r \in Checkpoints(ExportHistory(sch)) :
         /\ mgr' = r.mgr
         /\ disk' = r.disk
         /\ gw' = [gw EXCEPT !.faulted =
                      ~(r.done /\ r.mgr.trusted /\ ~r.mgr.faulted)]
  BY DEF ResetFault
<1>3. Sound(sch) /\ Extends(sch, sch)
  BY ExtendsIsReflexive DEF IInv
<1>4. ExportHistory(sch) \in Ledgers /\ Bounded(ExportHistory(sch))
  BY <1>3, ExportIsLedger DEF Sound
<1>5. /\ r.done \in BOOLEAN
      /\ r.mgr \in [ledger : Ledgers, trusted : BOOLEAN, faulted : BOOLEAN]
  BY <1>4, CheckpointFacts
<1>6. gw' = [faulted |-> ~(r.done /\ r.mgr.trusted /\ ~r.mgr.faulted),
             pending |-> gw.pending]
  BY <1>2 DEF IInv, TypeOK
<1>7. /\ gw' \in [faulted : BOOLEAN, pending : {None} \cup Occurrences]
      /\ ~gw'.faulted => r.done
      /\ gw'.pending = gw.pending
  BY <1>5, <1>6 DEF IInv, TypeOK
<1>8. /\ mgr' \in [ledger : Ledgers, trusted : BOOLEAN, faulted : BOOLEAN]
      /\ disk' \in [ledger : Ledgers, ahead : BOOLEAN]
      /\ Bounded(disk'.ledger)
      /\ Backed(mgr', disk')
      /\ HistoryIsAccepted'
      /\ HistoryIsDurable'
      /\ LedgerIsMonotone(disk.ledger, disk'.ledger)
  BY <1>1, <1>2, <1>3, <1>7, CheckpointKeeps
<1>9. TypeOK' /\ NoOrphan' /\ PendingIsStopped' /\ Sound(sch')
  BY <1>1, <1>3, <1>7, <1>8 DEF IInv, TypeOK, NoOrphan, PendingIsStopped
<1> QED
  BY <1>1, <1>8, <1>9 DEF IInv, Kept

(* What leaves the history, the gateway and the ledger alone. *)
LEMMA SurroundingsKeep ==
    ASSUME IInv, ManualStart \/ HeaterStep \/ CommitTimers \/ Tick
                 \/ SetClock \/ ChangeTrust
    PROVE  Kept
<1>1. /\ mgr' = mgr /\ disk' = disk /\ sch' = sch /\ gw' = gw
      /\ restart' = restart
  BY DEF ManualStart, HeaterStep, CommitTimers, Tick, SetClock, ChangeTrust
<1>2. /\ request' \in {request, Off, Manual}
      /\ heater' \in Heaters
  BY DEF ManualStart, HeaterStep, CommitTimers, Tick, SetClock, ChangeTrust,
         IInv, TypeOK, Heaters
<1>3. clock' \in [utc : Nat, rev : Nat, trusted : BOOLEAN, anchor : Nat]
  <2>1. clock \in [utc : Nat, rev : Nat, trusted : BOOLEAN, anchor : Nat]
    BY DEF IInv, TypeOK
  <2>2. CASE ManualStart \/ HeaterStep \/ CommitTimers
    BY <2>1, <2>2 DEF ManualStart, HeaterStep, CommitTimers
  <2>3. CASE Tick
    BY <2>1, <2>3 DEF Tick
  <2>4. CASE SetClock
    <3>1. PICK utc \in 0 .. MaxUtc :
             clock' = [utc |-> utc, rev |-> clock.rev + 1, trusted |-> TRUE,
                       anchor |-> utc]
      BY <2>4 DEF SetClock
    <3>2. utc \in Nat /\ clock.rev + 1 \in Nat
      BY <2>1, BoundsAssumption
    <3> QED
      BY <3>1, <3>2
  <2>5. CASE ChangeTrust
    <3>1. clock' = [utc |-> clock.utc, rev |-> clock.rev,
                    trusted |-> ~clock.trusted, anchor |-> clock.anchor]
      BY <2>1, <2>5 DEF ChangeTrust
    <3> QED
      BY <3>1, <2>1
  <2> QED
    BY <2>2, <2>3, <2>4, <2>5
<1>4. conf' \in [timers : TimerTables, changed : BOOLEAN]
  <2>1. CASE CommitTimers
    <3>1. PICK timers \in Tables :
             conf' = [timers |-> timers, changed |-> TRUE]
      BY <2>1 DEF CommitTimers
    <3> QED
      BY <3>1, TablesAssumption
  <2>2. CASE ManualStart \/ HeaterStep \/ Tick \/ SetClock \/ ChangeTrust
    <3>1. conf' = conf
      BY <2>2 DEF ManualStart, HeaterStep, Tick, SetClock, ChangeTrust
    <3> QED
      BY <3>1 DEF IInv, TypeOK
  <2> QED
    BY <2>1, <2>2
<1>5. /\ request' \in Requests
      /\ Running(request') \in {Running(request), Nowhen}
      /\ NoOrphan' /\ PendingIsStopped'
  BY <1>1, <1>2 DEF Off, Manual, Requests, Running, NoOrphan, PendingIsStopped,
                    IInv, TypeOK
<1>6. TypeOK'
  BY <1>1, <1>2, <1>3, <1>4, <1>5 DEF IInv, TypeOK
<1>7. /\ HistoryIsAccepted' /\ HistoryIsDurable'
      /\ Sound(sch)' /\ Bounded(disk.ledger)' /\ Backed(mgr, disk)'
  BY <1>1 DEF IInv, HistoryIsAccepted, HistoryIsDurable
<1>8. LedgerIsMonotone(disk.ledger, disk'.ledger)
  BY <1>1, MonotoneIsReflexive DEF IInv, TypeOK
<1> QED
  BY <1>5, <1>6, <1>7, <1>8 DEF IInv, Kept

(* A boot from whatever a loss of power left behind. *)
LEMMA BootKeeps ==
    ASSUME IInv, NEW d \in [ledger : Ledgers, ahead : BOOLEAN],
           Bounded(d.ledger), LedgerIsMonotone(disk.ledger, d.ledger), Boot(d)
    PROVE  Kept
<1>1. PICK trusted \in BOOLEAN, clockTrusted \in BOOLEAN :
        LET ledger == IF trusted THEN d.ledger ELSE EmptyLedger
        IN /\ mgr' = [ledger |-> ledger, trusted |-> trusted,
                      faulted |-> ~trusted]
           /\ sch' = BuildScheduler(conf.timers,
                                    Restorable(conf.timers, ledger))
           /\ clock' = [clock EXCEPT !.trusted = clockTrusted,
                                     !.anchor = clock.utc]
  BY DEF Boot
<1>2. /\ disk' = [d EXCEPT !.ahead = FALSE]
      /\ conf' = [conf EXCEPT !.changed = FALSE]
      /\ gw' = [faulted |-> FALSE, pending |-> None]
      /\ restart' = FALSE
      /\ request' = Off
      /\ heater' = "busy"
  BY DEF Boot
<1> DEFINE ledger == IF trusted THEN d.ledger ELSE EmptyLedger
           kept == Restorable(conf.timers, ledger)
<1>3. ledger \in Ledgers /\ Bounded(ledger)
  BY EmptyIsLedger
<1>4. /\ conf \in [timers : TimerTables, changed : BOOLEAN]
      /\ clock \in [utc : Nat, rev : Nat, trusted : BOOLEAN, anchor : Nat]
  BY DEF IInv, TypeOK
<1>5. /\ kept \in Ledgers /\ Bounded(kept)
      /\ LedgerIsMonotone(ledger, kept)
      /\ LedgerIsMonotone(kept, ledger)
  BY <1>3, <1>4, RestorableKeeps
<1>6. /\ mgr' = [ledger |-> ledger, trusted |-> trusted, faulted |-> ~trusted]
      /\ sch' = BuildScheduler(conf.timers, kept)
      /\ disk' = [ledger |-> d.ledger, ahead |-> FALSE]
  BY <1>1, <1>2
<1> HIDE DEF kept
<1>7. /\ Sound(sch') /\ sch'.armed
      /\ ExportHistory(sch').occ = kept.occ
      /\ ExportHistory(sch').high = kept.high
  BY <1>4, <1>5, <1>6, BuildIsSound
<1>8. /\ clock' \in [utc : Nat, rev : Nat, trusted : BOOLEAN, anchor : Nat]
      /\ conf' \in [timers : TimerTables, changed : BOOLEAN]
  <2>1. clock' = [utc |-> clock.utc, rev |-> clock.rev,
                  trusted |-> clockTrusted, anchor |-> clock.utc]
    BY <1>1, <1>4
  <2> QED
    BY <2>1, <1>2, <1>4
<1>9. /\ mgr' \in [ledger : Ledgers, trusted : BOOLEAN, faulted : BOOLEAN]
      /\ disk' \in [ledger : Ledgers, ahead : BOOLEAN]
  BY <1>3, <1>6
<1>10. TypeOK'
  <2>1. /\ gw' \in [faulted : BOOLEAN, pending : {None} \cup Occurrences]
        /\ request' \in Requests
        /\ heater' \in Heaters
    BY <1>2 DEF Off, Requests, Heaters
  <2> QED
    BY <2>1, <1>2, <1>7, <1>8, <1>9 DEF TypeOK, Sound
<1>11. Bounded(disk'.ledger) /\ Backed(mgr', disk')
  BY <1>6 DEF Backed
<1>12. /\ NoOrphan' /\ PendingIsStopped'
       /\ Running(request') = Nowhen
  BY <1>2 DEF NoOrphan, PendingIsStopped, Off, Running
<1>13. HistoryIsAccepted'
  <2>1. LedgerIsMonotone(ledger, ExportHistory(sch'))
    BY <1>5, <1>7 DEF LedgerIsMonotone
  <2>2. \A t \in TimerIds : sch'.occ[t] # None =>
            sch'.occ[t].minute <= sch'.high
    BY <1>7, ExportIsLedger DEF Sound, Bounded
  <2> QED
    BY <2>1, <2>2, <1>6 DEF HistoryIsAccepted
<1>14. HistoryIsDurable'
  <2>1. LedgerIsMonotone(ExportHistory(sch'), ledger)
    BY <1>5, <1>7 DEF LedgerIsMonotone
  <2>2. CASE trusted
    BY <2>1, <2>2, <1>6 DEF HistoryIsDurable
  <2>3. CASE ~trusted
    <3>1. ledger = EmptyLedger
      BY <2>3
    <3>2. LedgerIsMonotone(kept, EmptyLedger)
      BY <3>1, <1>5
    <3>3. /\ \A t \in TimerIds : EmptyLedger.occ[t] = None
          /\ EmptyLedger.high = -1
      BY DEF EmptyLedger
    <3>4. kept = EmptyLedger
      <4>1. kept = [EmptyLedger EXCEPT !.occ = [t \in TimerIds |-> None]]
        BY <3>1 DEF kept, Restorable, EmptyLedger
      <4> QED
        BY <4>1 DEF EmptyLedger
    <3>5. LedgerIsMonotone(EmptyLedger, disk'.ledger)
      BY <1>6, EmptyIsLedger
    <3> QED
      BY <3>4, <3>5, <1>7 DEF HistoryIsDurable, LedgerIsMonotone
  <2> QED
    BY <2>2, <2>3
<1>15. LedgerIsMonotone(disk.ledger, disk'.ledger)
  BY <1>6
<1> QED
  BY <1>7, <1>10, <1>11, <1>12, <1>13, <1>14, <1>15 DEF IInv, Kept

LEMMA CrashKeeps ==
    ASSUME IInv, (\E repairs \in BOOLEAN : CrashInStep(repairs))
                 \/ CrashInStop \/ Reboot
    PROVE  Kept
<1>1. /\ Sound(sch)
      /\ disk \in [ledger : Ledgers, ahead : BOOLEAN]
      /\ Bounded(disk.ledger)
      /\ clock \in [utc : Nat, rev : Nat, trusted : BOOLEAN, anchor : Nat]
  BY DEF IInv, TypeOK
<1>2. ASSUME NEW s, Sound(s), NEW d \in Survivors(ExportHistory(s)), Boot(d)
      PROVE  Kept
  <2>1. ExportHistory(s) \in Ledgers /\ Bounded(ExportHistory(s))
    BY <1>2, ExportIsLedger DEF Sound
  <2>2. /\ d \in [ledger : Ledgers, ahead : BOOLEAN]
        /\ Bounded(d.ledger)
        /\ LedgerIsMonotone(disk.ledger, d.ledger)
    BY <2>1, SurvivorFacts
  <2> QED
    BY <1>2, <2>2, BootKeeps
<1>3. ASSUME NEW repairs \in BOOLEAN, CrashInStep(repairs)
      PROVE  Kept
  <2> DEFINE p == Prepared(repairs)
             step == StepScheduler(p.sch, clock, Available(p))
  <2>1. Sound(p.sch)
    BY PreparedFacts
  <2>2. Available(p) \in BOOLEAN
    BY DEF Available
  <2>3. Extends(p.sch, step.sch)
    BY <1>1, <2>1, <2>2, StepExtends
  <2>4. Sound(step.sch)
    BY <2>3 DEF Extends
  <2>5. PICK d \in Survivors(ExportHistory(step.sch)) : Boot(d)
    BY <1>3 DEF CrashInStep
  <2> QED
    BY <2>4, <2>5, <1>2
<1>4. CASE CrashInStop
  <2>1. sch.active # None
    BY <1>4 DEF CrashInStop
  <2>2. Sound(MarkManualOverride(sch))
    BY <1>1, <2>1, OverrideExtends DEF Extends
  <2>3. PICK d \in Survivors(ExportHistory(MarkManualOverride(sch))) : Boot(d)
    BY <1>4 DEF CrashInStop
  <2> QED
    BY <2>2, <2>3, <1>2
<1>5. CASE Reboot
  BY <1>1, <1>5, BootKeeps, MonotoneIsReflexive DEF Reboot
<1> QED
  BY <1>3, <1>4, <1>5

LEMMA NextKeeps ==
    ASSUME IInv, [Next]_vars
    PROVE  Kept
<1>1. ASSUME NEW repairs \in BOOLEAN, GatewayStep(repairs)
      PROVE  Kept
  BY <1>1, GatewayStepKeeps
<1>2. ASSUME NEW marks \in BOOLEAN, RequestManualStop(marks)
      PROVE  Kept
  BY <1>2, ManualStopKeeps
<1>3. CASE ResetFault
  BY <1>3, ResetFaultKeeps
<1>4. CASE ManualStart \/ HeaterStep \/ CommitTimers \/ Tick
           \/ SetClock \/ ChangeTrust
  BY <1>4, SurroundingsKeep
<1>5. CASE (\E repairs \in BOOLEAN : CrashInStep(repairs))
           \/ CrashInStop \/ Reboot
  BY <1>5, CrashKeeps
<1>6. CASE UNCHANGED vars
  <2>1. IInv'
    BY <1>6 DEF vars, IInv, TypeOK, Sound, Bounded, Backed, PendingIsStopped,
                NoOrphan, HistoryIsAccepted, HistoryIsDurable
  <2>2. LedgerIsMonotone(disk.ledger, disk'.ledger)
    BY <1>6, MonotoneIsReflexive DEF vars, IInv, TypeOK
  <2>3. Running(request') = Running(request)
    BY <1>6 DEF vars
  <2> QED
    BY <2>1, <2>2, <2>3 DEF Kept
<1> QED
  BY <1>1, <1>2, <1>3, <1>4, <1>5, <1>6 DEF Next

LEMMA InitEstablishes ==
    ASSUME Init
    PROVE  IInv
<1>1. /\ EmptyLedger \in Ledgers /\ Bounded(EmptyLedger)
      /\ LedgerIsMonotone(EmptyLedger, EmptyLedger)
  BY EmptyIsLedger
<1>2. /\ mgr = [ledger |-> EmptyLedger, trusted |-> TRUE, faulted |-> FALSE]
      /\ disk = [ledger |-> EmptyLedger, ahead |-> FALSE]
      /\ gw = [faulted |-> FALSE, pending |-> None]
      /\ restart = FALSE /\ request = Off /\ heater = "busy"
      /\ sch = BuildScheduler(conf.timers, EmptyLedger)
  BY DEF Init
<1>3. /\ conf \in [timers : TimerTables, changed : BOOLEAN]
      /\ clock \in [utc : Nat, rev : Nat, trusted : BOOLEAN, anchor : Nat]
  BY TablesAssumption, BoundsAssumption DEF Init
<1>4. /\ Sound(sch) /\ sch.armed
      /\ ExportHistory(sch).occ = EmptyLedger.occ
      /\ ExportHistory(sch).high = EmptyLedger.high
  BY <1>1, <1>2, <1>3, BuildIsSound
<1>5. /\ request \in Requests /\ heater \in Heaters
      /\ NoOrphan /\ PendingIsStopped
  BY <1>2 DEF Off, Requests, Heaters, NoOrphan, PendingIsStopped
<1>6. TypeOK
  BY <1>1, <1>2, <1>3, <1>4, <1>5 DEF TypeOK, Sound
<1>7. HistoryIsAccepted
  <2>1. LedgerIsMonotone(EmptyLedger, ExportHistory(sch))
    BY <1>1, <1>4 DEF LedgerIsMonotone
  <2>2. \A t \in TimerIds : sch.occ[t] # None => sch.occ[t].minute <= sch.high
    BY <1>4, ExportIsLedger DEF Sound, Bounded
  <2> QED
    BY <2>1, <2>2, <1>2 DEF HistoryIsAccepted
<1>8. HistoryIsDurable
  BY <1>1, <1>2, <1>4 DEF HistoryIsDurable, LedgerIsMonotone
<1>9. Bounded(disk.ledger) /\ Backed(mgr, disk)
  BY <1>1, <1>2 DEF Backed
<1> QED
  BY <1>4, <1>5, <1>6, <1>7, <1>8, <1>9 DEF IInv

LEMMA Invariance == Spec => []IInv
<1>1. IInv /\ [Next]_vars => IInv'
  BY NextKeeps DEF Kept
<1> QED
  BY <1>1, InitEstablishes, PTL DEF Spec

-----------------------------------------------------------------------------
(* The calendar.                                                           *)

LEMMA Division ==
    ASSUME NEW n \in Nat
    PROVE  /\ n \div MinuteTicks \in Nat
           /\ (n \div MinuteTicks) * MinuteTicks <= n
           /\ n < (n \div MinuteTicks) * MinuteTicks + MinuteTicks
<1>1. MinuteTicks \in Nat \ {0}
  BY ClockAssumption
<1>2. /\ n \div MinuteTicks \in Int /\ n \div MinuteTicks >= 0
      /\ MinuteTicks * (n \div MinuteTicks) <= n
      /\ n < MinuteTicks * (n \div MinuteTicks) + MinuteTicks
  BY <1>1
<1> QED
  BY <1>1, <1>2

LEMMA Multiples ==
    ASSUME NEW j \in Int, NEW k \in Int, j < k
    PROVE  j * MinuteTicks + MinuteTicks <= k * MinuteTicks
<1>1. MinuteTicks \in Nat \ {0}
  BY ClockAssumption
<1>2. PICK d \in Nat : k = j + 1 + d
  BY k - j - 1 \in Nat
<1>3. k * MinuteTicks = j * MinuteTicks + MinuteTicks + d * MinuteTicks
  BY <1>1, <1>2
<1>4. d * MinuteTicks \in Nat
  BY <1>1
<1> QED
  BY <1>1, <1>3, <1>4

(* The minute of a tick is the one whose beginning it follows most closely. *)
LEMMA DivisionIsUnique ==
    ASSUME NEW n \in Nat, NEW k \in Int,
           k * MinuteTicks <= n, n < k * MinuteTicks + MinuteTicks
    PROVE  n \div MinuteTicks = k
<1> DEFINE q == n \div MinuteTicks
<1>1. /\ MinuteTicks \in Nat \ {0} /\ q \in Int
      /\ q * MinuteTicks <= n /\ n < q * MinuteTicks + MinuteTicks
      /\ q * MinuteTicks \in Int /\ k * MinuteTicks \in Int
  BY ClockAssumption, Division
<1> HIDE DEF q
<1>2. ~(q < k)
  BY <1>1, Multiples
<1>3. ~(k < q)
  BY <1>1, Multiples
<1> QED
  BY <1>1, <1>2, <1>3 DEF q


(* What is a whole number of minutes is reached in a minute only as it begins. *)
LEMMA EdgesAreBeginnings ==
    ASSUME NEW j \in Int, NEW k \in Int, NEW n \in Int,
           k * MinuteTicks <= n, n < k * MinuteTicks + MinuteTicks
    PROVE  j * MinuteTicks <= n <=> j * MinuteTicks <= k * MinuteTicks
<1>1. /\ MinuteTicks \in Nat \ {0} /\ j * MinuteTicks \in Int /\ k * MinuteTicks \in Int
  BY ClockAssumption
<1>2. CASE j <= k
  <2>1. j * MinuteTicks <= k * MinuteTicks
    BY <1>1, <1>2, Multiples
  <2> QED
    BY <1>1, <2>1
<1>3. CASE k < j
  <2>1. k * MinuteTicks + MinuteTicks <= j * MinuteTicks
    BY <1>3, Multiples
  <2> QED
    BY <1>1, <2>1
<1> QED
  BY <1>2, <1>3

(* The offset changes, and the repeated hour ends, as a minute begins. *)
LEMMA CalendarIsAligned ==
    ASSUME NEW k \in Nat, NEW n \in Nat,
           k * MinuteTicks <= n, n < k * MinuteTicks + MinuteTicks
    PROVE  /\ Offset(k * MinuteTicks) = Offset(n)
           /\ Fold(k * MinuteTicks) <=> Fold(n)
<1>1. PICK s \in Nat, e \in Nat : DstStart = s * MinuteTicks /\ DstEnd = e * MinuteTicks
  BY DstAssumption
<1>2. /\ MinuteTicks \in Nat \ {0} /\ DstShift \in Nat /\ k * MinuteTicks \in Nat
      /\ DstStart \in Nat /\ DstEnd \in Nat /\ DstShift * MinuteTicks \in Nat
  BY ClockAssumption, DstAssumption
<1>3. DstEnd + DstShift * MinuteTicks = (e + DstShift) * MinuteTicks
  BY <1>1, <1>2
<1>4. /\ DstStart <= n <=> DstStart <= k * MinuteTicks
      /\ DstEnd <= n <=> DstEnd <= k * MinuteTicks
  BY <1>1, EdgesAreBeginnings
<1>5. (e + DstShift) * MinuteTicks <= n <=> (e + DstShift) * MinuteTicks <= k * MinuteTicks
  BY <1>2, EdgesAreBeginnings
<1>6. Offset(k * MinuteTicks) = Offset(n)
  BY <1>2, <1>4 DEF Offset
<1>7. DstEnd + DstShift * MinuteTicks <= n
         <=> DstEnd + DstShift * MinuteTicks <= k * MinuteTicks
  BY <1>3, <1>5
<1>8. Fold(k * MinuteTicks) <=> Fold(n)
  <2> DEFINE over == DstEnd + DstShift * MinuteTicks
  <2>1. over \in Nat /\ (over <= n <=> over <= k * MinuteTicks)
    BY <1>2, <1>7
  <2>2. /\ Fold(k * MinuteTicks) <=> (DstEnd <= k * MinuteTicks /\ k * MinuteTicks < over)
        /\ Fold(n) <=> (DstEnd <= n /\ n < over)
    BY DEF Fold
  <2> HIDE DEF over
  <2> QED
    BY <1>2, <1>4, <2>1, <2>2
<1> QED
  BY <1>6, <1>8

(* A minute that opens between two steps began between them, for the first time and not at  *)
(* a change of the offset.                                                                *)
LEMMA OpenedMinuteBegan ==
    ASSUME NEW b, NEW c, b.utc \in Nat, c.utc \in Nat, OpensMinute(b, c)
    PROVE  \E begin \in Beginnings(LocalMinute(c.utc)) :
              /\ b.utc < begin /\ begin <= c.utc /\ c.utc < begin + MinuteTicks
              /\ \A u \in Beginnings(LocalMinute(c.utc)) : begin <= u
              /\ ~Fold(begin) /\ ~IsTransition(begin)
<1> DEFINE k == c.utc \div MinuteTicks
           j == b.utc \div MinuteTicks
           begin == k * MinuteTicks
           off == Offset(c.utc)
           minute == LocalMinute(c.utc)
<1>1. /\ MinuteTicks \in Nat \ {0} /\ DstShift \in Nat
      /\ DstStart \in Nat /\ DstEnd \in Nat /\ DstShift * MinuteTicks \in Nat
      /\ DstStart <= DstEnd /\ (DstStart < DstEnd => DstShift > 0)
  BY ClockAssumption, DstAssumption
<1>2. /\ k \in Nat /\ begin \in Nat /\ begin <= c.utc /\ c.utc < begin + MinuteTicks
      /\ j \in Nat /\ j * MinuteTicks \in Nat /\ b.utc < j * MinuteTicks + MinuteTicks
  BY <1>1, Division
<1>3. off \in {DstShift, 0} /\ Offset(b.utc) = off
  BY DEF Offset, OpensMinute, Fenced
<1>4. minute = k + off /\ LocalMinute(b.utc) = j + off
  BY <1>3 DEF LocalMinute
<1>5. (k + off) - (j + off) = 1 /\ ~Fold(c.utc)
  BY <1>4 DEF OpensMinute
<1>6. k = j + 1
  BY <1>1, <1>2, <1>3, <1>5
<1> HIDE DEF k, j
<1>7. b.utc < begin
  <2>1. begin = j * MinuteTicks + MinuteTicks
    BY <1>1, <1>2, <1>6
  <2> QED
    BY <1>2, <2>1
<1>8. Offset(begin) = off /\ ~Fold(begin)
  BY <1>2, <1>5, CalendarIsAligned
<1>9. begin \in Beginnings(minute)
  <2>1. begin \div MinuteTicks = k
    BY <1>1, <1>2, DivisionIsUnique
  <2>2. LocalMinute(begin) = minute
    BY <1>4, <1>8, <2>1 DEF LocalMinute
  <2>3. minute - off = k
    BY <1>1, <1>2, <1>3, <1>4
  <2> QED
    BY <1>2, <1>3, <2>2, <2>3 DEF Beginnings
<1>10. ~IsTransition(begin)
  <2>1. CASE begin = DstStart /\ DstStart # DstEnd
    <3>1. DstStart < DstEnd /\ DstShift > 0
      BY <1>1, <2>1
    <3>2. Offset(b.utc) = 0 /\ Offset(begin) = DstShift
      BY <1>1, <1>2, <1>7, <2>1, <3>1 DEF Offset
    <3> QED
      BY <1>1, <1>3, <1>8, <3>1, <3>2
  <2>2. CASE begin = DstEnd /\ DstStart # DstEnd
    <3>1. DstShift * MinuteTicks > 0
      <4>1. DstShift > 0
        BY <1>1, <2>2
      <4> QED
        BY <1>1, <4>1
    <3>2. DstEnd <= DstEnd /\ DstEnd < DstEnd + DstShift * MinuteTicks
      BY <1>1, <3>1
    <3>3. Fold(DstEnd)
      BY <3>2 DEF Fold
    <3> QED
      BY <1>8, <2>2, <3>3
  <2> QED
    BY <2>1, <2>2 DEF IsTransition
<1>11. ASSUME NEW u \in Beginnings(minute)
       PROVE  begin <= u
  <2>1. PICK o \in {DstShift, 0} : u = (minute - o) * MinuteTicks /\ u >= 0
                                   /\ LocalMinute(u) = minute
    BY <1>11 DEF Beginnings
  <2>2. minute \in Nat /\ minute - o \in Int
    BY <1>1, <1>2, <1>3, <1>4, <2>1
  <2>3. CASE k <= minute - o
    BY <1>1, <1>2, <2>1, <2>2, <2>3, Multiples
  <2>4. CASE minute - o < k
    <3>1. off = 0 /\ o = DstShift /\ DstShift > 0
      BY <1>1, <1>2, <1>3, <1>4, <2>1, <2>4
    <3>2. u \in Nat
      BY <1>1, <2>1, <2>2
    <3>3. u \div MinuteTicks = minute - o
      BY <1>1, <2>1, <2>2, <3>2, DivisionIsUnique
    <3>4. Offset(u) = DstShift
      <4>1. (minute - o) + Offset(u) = minute
        BY <2>1, <3>3 DEF LocalMinute
      <4>2. Offset(u) \in {DstShift, 0}
        BY DEF Offset
      <4> QED
        BY <1>1, <2>2, <3>1, <4>1, <4>2
    <3>5. DstStart <= u /\ u < DstEnd
      BY <3>1, <3>4 DEF Offset
    <3>6. begin = u + DstShift * MinuteTicks
      <4>1. k = (minute - o) + DstShift
        BY <1>1, <1>2, <1>4, <3>1
      <4> QED
        BY <1>1, <2>1, <2>2, <4>1
    <3>7. begin >= DstStart /\ begin < DstEnd + DstShift * MinuteTicks
      BY <1>1, <3>2, <3>5, <3>6
    <3>8. begin >= DstEnd
      BY <1>1, <1>2, <1>8, <3>1, <3>7 DEF Offset
    <3> QED
      BY <1>8, <3>7, <3>8 DEF Fold
  <2> QED
    BY <1>2, <2>2, <2>3, <2>4
<1> QED
  BY <1>2, <1>7, <1>8, <1>9, <1>10, <1>11

-----------------------------------------------------------------------------
(* Timers that start.                                                                     *)

Clocks == [utc : Nat, rev : Nat, trusted : BOOLEAN, anchor : Nat]

(* What the scheduler observed of the clock it observed since the clock was last set. *)
ObservedSince(b, c) ==
    b # None => /\ b \in Observations
                /\ b.rev <= c.rev
                /\ b.rev = c.rev => c.anchor <= b.utc

TimelyInv ==
    /\ clock.anchor <= clock.utc
    /\ ObservedSince(sch.baseline, clock)

(* The round before the step of the scheduler changes its history only. *)
LEMMA PreparedKeepsClock ==
    ASSUME IInv, NEW repairs \in BOOLEAN
    PROVE  LET p == Prepared(repairs)
           IN p.sch.timers = sch.timers /\ p.sch.baseline = sch.baseline
<1> DEFINE p0 == [sch |-> sch, gw |-> gw]
           p1 == RepairOverride(p0, repairs)
           p == Prepared(repairs)
<1>1. sch \in Schedulers
  BY DEF IInv, Sound
<1>2. p1.sch.timers = sch.timers /\ p1.sch.baseline = sch.baseline /\ p1.sch \in Schedulers
  <2>1. p1.sch \in {sch, MarkManualOverride(sch)} /\ (p1.sch # sch => sch.active # None)
    BY DEF RepairOverride
  <2>2. /\ MarkManualOverride(sch).timers = sch.timers
        /\ MarkManualOverride(sch).baseline = sch.baseline
    BY <1>1 DEF MarkManualOverride, Schedulers
  <2>3. sch.active # None => MarkManualOverride(sch) \in Schedulers
    BY OverrideExtends DEF IInv, Extends, Sound
  <2> QED
    BY <1>1, <2>1, <2>2, <2>3
<1>3. p.sch \in {p1.sch, MarkActiveComplete(p1.sch)}
  BY DEF Prepared, ReconcileActive
<1>4. /\ MarkActiveComplete(p1.sch).timers = p1.sch.timers
      /\ MarkActiveComplete(p1.sch).baseline = p1.sch.baseline
  BY <1>2 DEF MarkActiveComplete, Schedulers
<1> QED
  BY <1>2, <1>3, <1>4

(* What a step of the scheduler observes. *)
LEMMA StepObserves ==
    ASSUME NEW s, Sound(s), NEW c \in Clocks, NEW a \in BOOLEAN
    PROVE  StepScheduler(s, c, a).sch.baseline \in {None, Observation(c)}
<1> DEFINE o == Observe(s, c)
           due == Found(s, c)
           q == StepScheduler(s, c, a)
<1>1. s \in Schedulers /\ (~s.armed => s.baseline = None)
  BY DEF Sound
<1>2. o.baseline \in {None, Observation(c)} /\ o \in Schedulers
  <2>1. Observation(c) \in Observations
    BY DEF Observation, Observations, Clocks
  <2> QED
    BY <1>1, <2>1 DEF Observe, Schedulers
<1>3. q.sch \in {o, Consume(o, due, LocalMinute(c.utc))}
  BY DEF StepScheduler
<1>4. Consume(o, due, LocalMinute(c.utc)).baseline = o.baseline
  BY <1>2 DEF Consume, Schedulers
<1> QED
  BY <1>2, <1>3, <1>4

(* Why an intent comes about: its minute opened since the scheduler last looked, and nobody *)
(* else has it.                                                                           *)
LEMMA IntentIsTimely ==
    ASSUME NEW s, Sound(s), NEW c \in Clocks, NEW a \in BOOLEAN,
           StepScheduler(s, c, a).intent # None
    PROVE  LET o == StepScheduler(s, c, a).intent
           IN /\ o \in Occurrences /\ o.minute = LocalMinute(c.utc)
              /\ c.trusted /\ s.baseline \in Observations /\ OpensMinute(s.baseline, c)
              /\ o.minute > s.high
              /\ {t \in TimerIds : o.minute \in s.timers[t].minutes} = {o.timer}
<1> DEFINE due == Found(s, c)
           minute == LocalMinute(c.utc)
           o == StepScheduler(s, c, a).intent
<1>1. IsAlone(due) /\ o = [timer |-> CHOOSE t \in due : TRUE, minute |-> minute]
  BY DEF StepScheduler
<1>2. due \subseteq TimerIds
  BY DEF Found, Due
<1>3. PICK t \in TimerIds : due = {t}
  <2>1. IsFiniteSet(due)
    BY <1>2, TimersAssumption, FS_Subset
  <2>2. \E t : due = {t}
    BY <1>1, <2>1, FS_Singleton DEF IsAlone
  <2> QED
    BY <1>2, <2>2
<1>4. o = [timer |-> t, minute |-> minute]
  BY <1>1, <1>3
<1>5. minute \in Nat
  BY LocalMinuteIsNat DEF Clocks
<1>6. /\ c.trusted /\ s.baseline # None /\ OpensMinute(s.baseline, c)
      /\ due = Due(s, minute)
  BY <1>3 DEF Found
<1>7. minute > s.high
  BY <1>3, <1>6 DEF Due, Unspent
<1>8. \A r \in TimerIds : Unspent(s, r, minute)
  <2>1. \A r \in TimerIds : s.occ[r] # None => s.occ[r].minute \in Nat /\ s.occ[r].minute <= s.high
    <3>1. /\ s \in Schedulers /\ Bounded(ExportHistory(s))
          /\ ExportHistory(s).occ = s.occ /\ ExportHistory(s).high = s.high
      BY ExportIsLedger DEF Sound
    <3>2. s.occ \in Records
      BY <3>1 DEF Schedulers
    <3>3. \A r \in TimerIds : s.occ[r] # None => s.occ[r].minute <= s.high
      BY <3>1 DEF Bounded
    <3>4. \A r \in TimerIds : s.occ[r] # None => s.occ[r] \in Latches
      BY <3>2 DEF Records
    <3> QED
      BY <3>3, <3>4 DEF Latches
  <2>2. s.high \in Nat \cup {-1}
    BY DEF Sound, Schedulers
  <2>3. \A r \in TimerIds : s.occ[r] # None => minute > s.occ[r].minute
    BY ONLY <1>5, <1>7, <2>1, <2>2
  <2> QED
    BY <1>7, <2>3 DEF Unspent
<1>9. due = {r \in TimerIds : minute \in s.timers[r].minutes}
  BY <1>6, <1>8 DEF Due, Matches
<1>10. s.baseline \in Observations
  BY <1>6 DEF Sound, Schedulers
<1> QED
  BY <1>3, <1>4, <1>5, <1>6, <1>7, <1>9, <1>10 DEF Occurrences

(* Only the step of the gateway starts a timer, for the intent of its scheduler. *)
LEMMA OnlyStepsStartTimers ==
    ASSUME IInv, [Next]_vars, TimerStarts
    PROVE  \E repairs \in BOOLEAN :
              LET p == Prepared(repairs)
                  step == StepScheduler(p.sch, clock, Available(p))
              IN /\ step.intent # None
                 /\ Authorizes(clock, clock')
                 /\ request' = Timer(step.intent)
<1>1. request' # request /\ request'.source = "timer"
  BY DEF TimerStarts
<1>2. Off.source = "off" /\ Manual.source = "manual"
  BY DEF Off, Manual
<1>3. ASSUME NEW d, Boot(d)
      PROVE  FALSE
  BY <1>1, <1>2, <1>3 DEF Boot
<1>4. PICK repairs \in BOOLEAN : GatewayStep(repairs)
  <2>1. ~UNCHANGED vars
    BY <1>1 DEF vars
  <2>2. ~(\E marks \in BOOLEAN : RequestManualStop(marks))
    BY <1>1, <1>2 DEF RequestManualStop
  <2>3. ~(ResetFault \/ ManualStart \/ HeaterStep \/ CommitTimers \/ Tick \/ SetClock \/ ChangeTrust)
    BY <1>1, <1>2 DEF ResetFault, ManualStart, HeaterStep, CommitTimers, Tick, SetClock,
                      ChangeTrust
  <2>4. ~(Reboot \/ CrashInStop \/ \E repairs \in BOOLEAN : CrashInStep(repairs))
    BY <1>3 DEF Reboot, CrashInStop, CrashInStep
  <2> QED
    BY <2>1, <2>2, <2>3, <2>4 DEF Next
<1> DEFINE p == Prepared(repairs)
           step == StepScheduler(p.sch, clock, Available(p))
<1>5. PICK r \in Checkpoints(ExportHistory(step.sch)) :
         IF r.done /\ step.intent # None
         THEN ApplyIntent(step.sch, p.gw, r, step.intent)
         ELSE NoStart(step.sch, p.gw, r)
  BY <1>4 DEF GatewayStep
<1> HIDE DEF p, step
<1>6. step.intent # None /\ Authorizes(clock, clock') /\ request' = Timer(step.intent)
  BY <1>1, <1>5 DEF ApplyIntent, NoStart
<1> QED
  BY <1>6 DEF p, step

(* The scheduler never holds an observation of before the clock was last set for one after. *)
LEMMA StepStaysTimely ==
    ASSUME IInv, TimelyInv, NEW repairs \in BOOLEAN, GatewayStep(repairs)
    PROVE  TimelyInv'
<1> DEFINE p == Prepared(repairs)
           step == StepScheduler(p.sch, clock, Available(p))
           obs == Observation(clock)
<1>1. clock \in Clocks /\ clock.anchor <= clock.utc
  BY DEF IInv, TypeOK, Clocks, TimelyInv
<1>2. Sound(p.sch) /\ Available(p) \in BOOLEAN
  BY PreparedFacts DEF Available
<1>3. step.sch.baseline \in {None, obs} /\ Sound(step.sch)
  BY <1>1, <1>2, StepObserves, StepExtends DEF Extends, Clocks
<1>4. PICK r \in Checkpoints(ExportHistory(step.sch)) :
         IF r.done /\ step.intent # None
         THEN ApplyIntent(step.sch, p.gw, r, step.intent)
         ELSE NoStart(step.sch, p.gw, r)
  BY DEF GatewayStep
<1>5. obs \in Observations /\ obs.utc = clock.utc /\ obs.rev = clock.rev
  BY <1>1 DEF Observation, Observations, Clocks
<1> HIDE DEF p, step, obs
<1>6. /\ clock'.utc >= clock.utc /\ clock'.utc \in Nat
      /\ clock'.rev = clock.rev /\ clock'.anchor = clock.anchor
  <2>1. CASE clock' = clock
    BY <1>1, <2>1 DEF Clocks
  <2>2. CASE \E delay \in 0 .. MaxDelay : TimePasses(delay)
    <3>1. PICK delay \in 0 .. MaxDelay, trusted \in {clock.trusted, FALSE} :
             clock' = [clock EXCEPT !.utc = @ + delay, !.trusted = trusted]
      BY <2>2 DEF TimePasses
    <3>2. clock.utc + delay \in Nat /\ clock.utc + delay >= clock.utc
      BY <1>1, BoundsAssumption DEF Clocks
    <3>3. clock' = [utc |-> clock.utc + delay, rev |-> clock.rev,
                    trusted |-> trusted, anchor |-> clock.anchor]
      BY <1>1, <3>1 DEF Clocks
    <3> QED
      BY <3>2, <3>3
  <2> QED
    BY <1>4, <2>1, <2>2 DEF ApplyIntent, NoStart
<1>7. sch'.baseline \in {None, obs}
  <2>1. ASSUME NEW s, Sound(s), s.baseline \in {None, obs}, EndRound(s, r.mgr)
        PROVE  sch'.baseline \in {None, obs}
    BY <2>1 DEF EndRound, Disarm, Sound, Schedulers
  <2>2. AuthorizeIntent(step.sch, clock, clock').baseline \in {None, obs}
        /\ Sound(AuthorizeIntent(step.sch, clock, clock'))
    <3>1. Sound(AuthorizeIntent(step.sch, clock, clock'))
      BY <1>3, AuthorizeKeepsHistory
    <3>2. AuthorizeIntent(step.sch, clock, clock').baseline \in {None, step.sch.baseline}
      BY <1>3 DEF AuthorizeIntent, Sound, Schedulers
    <3> QED
      BY <1>3, <3>1, <3>2
  <2>3. CASE NoStart(step.sch, p.gw, r)
    BY <1>3, <2>1, <2>3 DEF NoStart
  <2>4. CASE step.intent # None /\ ApplyIntent(step.sch, p.gw, r, step.intent)
    <3>1. CASE \E q \in {step.sch, AuthorizeIntent(step.sch, clock, clock')} : EndRound(q, r.mgr)
      BY <1>3, <2>1, <2>2, <3>1
    <3>2. CASE EndRound(CompleteIntent(step.sch, step.intent), r.mgr)
      <4>1. step.intent \in Occurrences
        BY <1>1, <1>2, <2>4, StepExtends DEF Clocks, step
      <4>2. Sound(CompleteIntent(step.sch, step.intent))
        BY <1>3, <4>1, AssociateKeepsHistory
      <4>3. CompleteIntent(step.sch, step.intent).baseline = step.sch.baseline
        BY <1>3 DEF CompleteIntent, Sound, Schedulers
      <4> QED
        BY <1>3, <2>1, <3>2, <4>2, <4>3
    <3> QED
      BY <2>4, <3>1, <3>2 DEF ApplyIntent
  <2> QED
    BY <1>4, <2>3, <2>4
<1> QED
  BY <1>1, <1>5, <1>6, <1>7 DEF TimelyInv, ObservedSince, Clocks

LEMMA NextStaysTimely ==
    ASSUME IInv, TimelyInv, [Next]_vars
    PROVE  TimelyInv'
<1>1. /\ clock \in Clocks /\ clock.anchor <= clock.utc
      /\ ObservedSince(sch.baseline, clock) /\ sch \in Schedulers
  BY DEF IInv, TypeOK, Clocks, TimelyInv
<1>2. ASSUME NEW d, Boot(d)
      PROVE  TimelyInv'
  <2>1. sch'.baseline = None
    BY <1>2 DEF Boot, BuildScheduler
  <2>2. PICK trusted \in BOOLEAN :
           clock' = [clock EXCEPT !.trusted = trusted, !.anchor = clock.utc]
    BY <1>2 DEF Boot
  <2>3. clock'.anchor = clock.utc /\ clock'.utc = clock.utc /\ clock.utc \in Nat
    BY <1>1, <2>2 DEF Clocks
  <2> QED
    BY <2>1, <2>3 DEF TimelyInv, ObservedSince
<1>3. CASE UNCHANGED <<clock, sch>>
  BY <1>3 DEF TimelyInv
<1>4. ASSUME NEW marks \in BOOLEAN, RequestManualStop(marks)
      PROVE  TimelyInv'
  <2>1. sch' \in {sch, MarkManualOverride(sch)} /\ clock' = clock
    BY <1>4 DEF RequestManualStop
  <2>2. MarkManualOverride(sch).baseline = sch.baseline
    BY <1>1 DEF MarkManualOverride, Schedulers
  <2> QED
    BY <1>1, <2>1, <2>2 DEF TimelyInv
<1>5. CASE Tick
  <2>1. clock' = [clock EXCEPT !.utc = clock.utc + 1] /\ sch' = sch
    BY <1>5 DEF Tick
  <2>2. /\ clock'.utc = clock.utc + 1 /\ clock'.rev = clock.rev /\ clock'.anchor = clock.anchor
        /\ clock.utc \in Nat /\ clock.anchor \in Nat
    BY <1>1, <2>1 DEF Clocks
  <2> QED
    BY <1>1, <2>1, <2>2 DEF TimelyInv, ObservedSince
<1>6. CASE SetClock
  <2>1. PICK utc \in 0 .. MaxUtc :
           clock' = [utc |-> utc, rev |-> clock.rev + 1, trusted |-> TRUE, anchor |-> utc]
    BY <1>6 DEF SetClock
  <2>2. /\ clock'.utc = clock'.anchor /\ clock'.anchor \in Nat
        /\ clock'.rev = clock.rev + 1 /\ clock.rev \in Nat /\ sch' = sch
    BY <1>1, <1>6, <2>1, BoundsAssumption DEF Clocks, SetClock
  <2>3. sch.baseline # None => sch.baseline.rev \in Nat /\ sch.baseline.rev <= clock.rev
                               /\ sch.baseline \in Observations
    BY <1>1 DEF ObservedSince, Observations
  <2>4. sch.baseline # None => sch.baseline.rev < clock'.rev
    BY <2>2, <2>3
  <2> QED
    BY <2>2, <2>3, <2>4 DEF TimelyInv, ObservedSince
<1>7. CASE ChangeTrust
  <2>1. /\ clock'.utc = clock.utc /\ clock'.rev = clock.rev /\ clock'.anchor = clock.anchor
        /\ sch' = sch
    BY <1>1, <1>7 DEF ChangeTrust, Clocks
  <2> QED
    BY <1>1, <2>1 DEF TimelyInv, ObservedSince
<1>8. CASE \E repairs \in BOOLEAN : GatewayStep(repairs)
  BY <1>8, StepStaysTimely
<1> QED
  BY <1>2, <1>3, <1>4, <1>5, <1>6, <1>7, <1>8
     DEF Next, vars, ResetFault, ManualStart, HeaterStep, CommitTimers, Reboot, CrashInStop,
         CrashInStep

LEMMA InitIsTimely ==
    ASSUME Init
    PROVE  TimelyInv
<1>1. sch.baseline = None
  BY DEF Init, BuildScheduler
<1>2. clock.anchor = clock.utc /\ clock.utc \in Nat
  BY BoundsAssumption DEF Init
<1> QED
  BY <1>1, <1>2 DEF TimelyInv, ObservedSince

LEMMA TimelyInvariance == Spec => [](IInv /\ TimelyInv)
<1>1. Init => IInv /\ TimelyInv
  BY InitEstablishes, InitIsTimely
<1>2. (IInv /\ TimelyInv) /\ [Next]_vars => (IInv /\ TimelyInv)'
  BY NextKeeps, NextStaysTimely DEF Kept
<1> QED
  BY <1>1, <1>2, PTL DEF Spec

Alone(o) == {t \in TimerIds : o.minute \in sch.timers[t].minutes} = {o.timer}

Timely(o) ==
    \E begin \in Beginnings(o.minute) :
       /\ clock.anchor < begin
       /\ begin <= clock.utc
       /\ clock.utc < begin + MinuteTicks
       /\ clock'.trusted
       /\ clock'.utc <= clock.utc + IntentValid

Announced(o) == o \in NextOccurrences(sch, [clock EXCEPT !.utc = sch.baseline.utc])

LEMMA StartsAreDue ==
    ASSUME IInv, TimelyInv, [Next]_vars, TimerStarts
    PROVE  Alone(request'.occurrence) /\ Timely(request'.occurrence)
           /\ Announced(request'.occurrence)
<1>1. PICK repairs \in BOOLEAN :
         LET p == Prepared(repairs)
             step == StepScheduler(p.sch, clock, Available(p))
         IN /\ step.intent # None
            /\ Authorizes(clock, clock')
            /\ request' = Timer(step.intent)
  BY OnlyStepsStartTimers
<1> DEFINE p == Prepared(repairs)
           o == StepScheduler(p.sch, clock, Available(p)).intent
<1>2. o # None /\ Authorizes(clock, clock') /\ request'.occurrence = o
  BY <1>1 DEF Timer
<1>3. /\ Sound(p.sch) /\ p.sch.high = sch.high /\ p.sch.timers = sch.timers
      /\ p.sch.baseline = sch.baseline /\ Available(p) \in BOOLEAN
  BY PreparedFacts, PreparedKeepsClock DEF Available
<1>4. /\ clock \in Clocks /\ ObservedSince(sch.baseline, clock) /\ Sound(sch)
  BY DEF IInv, TypeOK, Clocks, TimelyInv
<1>5. /\ o \in Occurrences /\ o.minute = LocalMinute(clock.utc)
      /\ clock.trusted /\ sch.baseline \in Observations /\ OpensMinute(sch.baseline, clock)
      /\ o.minute > sch.high
      /\ {t \in TimerIds : o.minute \in sch.timers[t].minutes} = {o.timer}
  BY <1>2, <1>3, <1>4, IntentIsTimely
<1> HIDE DEF p, o
<1>6. Alone(o)
  BY <1>5 DEF Alone
<1>7. sch.baseline.utc \in Nat /\ clock.utc \in Nat /\ sch.baseline # None
  BY <1>4, <1>5, NoneIsNoValue DEF Observations, Clocks
<1>8. PICK begin \in Beginnings(o.minute) :
         /\ sch.baseline.utc < begin /\ begin <= clock.utc /\ clock.utc < begin + MinuteTicks
         /\ \A u \in Beginnings(o.minute) : begin <= u
         /\ ~Fold(begin) /\ ~IsTransition(begin)
  BY <1>5, <1>7, OpenedMinuteBegan
<1>9. Timely(o)
  <2>1. clock.anchor <= sch.baseline.utc
    BY <1>4, <1>5, <1>7 DEF ObservedSince, OpensMinute, Fenced
  <2>2. begin \in Int /\ clock.anchor \in Nat
    BY <1>4, <1>7, <1>8, ClockAssumption, DstAssumption, <1>5 DEF Beginnings, Clocks, Occurrences
  <2>3. clock.anchor < begin
    BY <1>7, <1>8, <2>1, <2>2
  <2>4. clock'.trusted /\ clock'.utc <= clock.utc + IntentValid
    <3>1. clock' \in Clocks
      BY NextKeeps DEF Kept, IInv, TypeOK, Clocks
    <3> QED
      BY <1>2, <1>7, <3>1, ClockAssumption
         DEF Authorizes, Expired, SameClock, Clocks
  <2> QED
    BY <1>8, <2>3, <2>4 DEF Timely
<1>10. Announced(o)
  <2> DEFINE c == [clock EXCEPT !.utc = sch.baseline.utc]
  <2>1. c.utc = sch.baseline.utc /\ c.trusted = clock.trusted
    BY <1>4 DEF Clocks
  <2> HIDE DEF c
  <2>2. /\ LocalMinute(sch.baseline.utc) \in Nat /\ o.minute \in Nat
        /\ o.minute = LocalMinute(sch.baseline.utc) + 1
    BY <1>5, <1>7, LocalMinuteIsNat DEF OpensMinute
  <2>3. o.timer \in TimerIds /\ o = [timer |-> o.timer, minute |-> o.minute]
        /\ o.minute \in sch.timers[o.timer].minutes
    BY <1>5 DEF Occurrences
  <2>4. Unspent(sch, o.timer, o.minute)
    <3>1. /\ sch.occ \in Records /\ sch.high \in Nat \cup {-1} /\ Bounded(ExportHistory(sch))
          /\ ExportHistory(sch).occ = sch.occ /\ ExportHistory(sch).high = sch.high
      BY <1>4, ExportIsLedger DEF Sound, Schedulers
    <3>2. sch.occ[o.timer] # None =>
             sch.occ[o.timer] \in Latches /\ sch.occ[o.timer].minute <= sch.high
      BY <2>3, <3>1 DEF Bounded, Records
    <3> QED
      BY <1>5, <2>2, <3>1, <3>2 DEF Unspent, Latches
  <2>5. Candidate(sch, c, o.timer, o.minute)
    BY <1>8, <2>1, <2>2, <2>3, <2>4 DEF Candidate, Matches
  <2>6. ASSUME NEW t \in TimerIds, NEW m \in sch.timers[t].minutes, Candidate(sch, c, t, m)
        PROVE  o.minute <= m
    <3>1. m \in Nat
      BY <1>4 DEF Sound, Schedulers, TimerTables
    <3>2. m > LocalMinute(sch.baseline.utc)
      BY <2>1, <2>6 DEF Candidate
    <3> QED
      BY <2>2, <3>1, <3>2
  <2> DEFINE slots == UNION {[timer : {t}, minute : sch.timers[t].minutes] : t \in TimerIds}
             candidates == {q \in slots : Candidate(sch, c, q.timer, q.minute)}
  <2>7. o \in candidates
    BY <2>3, <2>5
  <2>8. \A q \in candidates : o.minute <= q.minute
    BY <2>6
  <2>9. o \in NextOccurrences(sch, c)
    BY <1>5, <2>1, <2>7, <2>8 DEF NextOccurrences
  <2> QED
    BY <2>9 DEF Announced, c
<1> QED
  BY <1>2, <1>6, <1>9, <1>10

-----------------------------------------------------------------------------
(* The theorems.                                                           *)

(* The state of the gateway, the scheduler and the ledger always has the    *)
(* shape the code gives it (SchedulerGateway!TypeOK).                       *)
THEOREM TimersTypeCorrect == Spec => []TypeOK
<1>1. IInv => TypeOK
  BY DEF IInv
<1> QED
  BY <1>1, Invariance, PTL

(* No call of SchedulerControllerGateway leaves a request for a timer that  *)
(* the scheduler does not hold for active.                                  *)
THEOREM TimersNoOrphan == Spec => []NoOrphan
<1>1. IInv => NoOrphan
  BY DEF IInv
<1> QED
  BY <1>1, Invariance, PTL

(* Unless the gateway faulted, a boot would find all the scheduler consumed *)
(* or overrode: _checkpoint_or_fault() comes before every effect.           *)
THEOREM TimersHistoryIsDurable == Spec => []HistoryIsDurable
<1>1. IInv => HistoryIsDurable
  BY DEF IInv
<1> QED
  BY <1>1, Invariance, PTL

(* The configuration manager never takes a history of the scheduler for a   *)
(* regression, whatever was restored, deleted or lost in between.           *)
THEOREM TimersHistoryIsAccepted == Spec => []HistoryIsAccepted
<1>1. IInv => HistoryIsAccepted
  BY DEF IInv
<1> QED
  BY <1>1, Invariance, PTL

(* The durable ledger never takes anything back, across failed writes,      *)
(* crashes and boots from an untrusted ledger.                              *)
THEOREM TimersLedgerNeverRegresses == Spec => LedgerNeverRegresses
<1>1. IInv /\ [Next]_vars => [LedgerIsMonotone(disk.ledger, disk'.ledger)]_disk
  BY NextKeeps DEF Kept
<1> QED
  BY <1>1, Invariance, PTL DEF Spec, LedgerNeverRegresses

(* Scheduler, manager and disk agree on the history of the timers, and the  *)
(* disk never takes any of it back (SchedulerGateway!HistoryIsKept).        *)
THEOREM TimersHistoryIsKept == Spec => HistoryIsKept
  BY TimersHistoryIsDurable, TimersHistoryIsAccepted, TimersLedgerNeverRegresses,
     PTL DEF HistoryIsKept

(* The gateway, its scheduler and its ledger implement OneShotTimers: each  *)
(* local minute starts at most one session, and never a late one.           *)
THEOREM TimersAreOneShot == Spec => OneShot
<1>1. Init => Promise!OneShotInit
  BY DEF Init, Promise!OneShotInit, Promise!Idle, Off, EmptyLedger
<1>2. IInv /\ IInv' /\ [Next]_vars =>
         [Promise!OneShotNext]_<<disk.ledger.high,
             IF request.source = "timer" THEN request.occurrence.minute
             ELSE Nowhen>>
  <2> SUFFICES ASSUME IInv, IInv', [Next]_vars
               PROVE  [Promise!OneShotNext]_<<disk.ledger.high,
                          IF request.source = "timer"
                          THEN request.occurrence.minute ELSE Nowhen>>
    OBVIOUS
  <2>1. /\ LedgerIsMonotone(disk.ledger, disk'.ledger)
        /\ Running(request') \in {Running(request), Nowhen} \/ Fires
    BY NextKeeps DEF Kept
  <2>2. /\ disk.ledger.high \in Nat \cup {-1}
        /\ disk'.ledger.high \in Nat \cup {-1}
        /\ disk'.ledger.high >= disk.ledger.high
    BY <2>1 DEF IInv, TypeOK, Ledgers, LedgerIsMonotone
  <2>3. CASE disk'.ledger.high = disk.ledger.high
    BY <2>1, <2>2, <2>3 DEF Running, Fires, Promise!OneShotNext, Promise!Stop,
                                  Promise!Idle
  <2>4. CASE disk'.ledger.high > disk.ledger.high
    <3>1. Promise!Spend
      BY <2>2, <2>4 DEF Promise!Spend
    <3> QED
      BY <2>1, <3>1 DEF Running, Fires, Promise!OneShotNext, Promise!Skip,
                        Promise!SkipAndStop, Promise!Fire, Promise!Idle
  <2> QED
    BY <2>2, <2>3, <2>4
<1> QED
  BY <1>1, <1>2, Invariance, PTL DEF Spec, OneShot, Promise!OneShotSpec

(* Timers that meet in one minute start nothing, and a deleted one no more. *)
THEOREM TimersThatMeetStartNothing == Spec => ConflictsStartNothing
<1>1. IInv /\ TimelyInv /\ [Next]_vars =>
         (TimerStarts =>
            LET o == request'.occurrence
            IN {t \in TimerIds : o.minute \in sch.timers[t].minutes} = {o.timer})
  BY StartsAreDue DEF Alone
<1> QED
  BY <1>1, TimelyInvariance, PTL DEF Spec, ConflictsStartNothing

(* step() starts a timer only in the minute it names, in a clock that ran   *)
(* on since before that minute began, and as next_occurrence() announced.   *)
THEOREM TimersStartInTime == Spec => StartsAreTimely
<1>1. IInv /\ TimelyInv /\ [Next]_vars =>
         (TimerStarts =>
            \E begin \in Beginnings(request'.occurrence.minute) :
               /\ clock.anchor < begin
               /\ begin <= clock.utc
               /\ clock.utc < begin + MinuteTicks
               /\ clock'.trusted
               /\ clock'.utc <= clock.utc + IntentValid)
  BY StartsAreDue DEF Timely
<1>2. IInv /\ TimelyInv /\ [Next]_vars =>
         (TimerStarts =>
            request'.occurrence \in
               NextOccurrences(sch, [clock EXCEPT !.utc = sch.baseline.utc]))
  BY StartsAreDue DEF Announced
<1> QED
  BY <1>1, <1>2, TimelyInvariance, PTL
     DEF Spec, StartsAreTimely, NoCatchUp, AnnouncedBeforeStarted

=============================================================================
