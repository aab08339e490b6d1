-------------------------- MODULE ConfigManagerProofs --------------------------
(* Theorems about the two persistence domains, for any documents, any number of minutes  *)
(* and generations, and any medium.  A power loss leaves each slot as the program saw it, *)
(* as it was last synced, or torn; what every invariant below says, it says of all pairs  *)
(* of slots that a power loss at that moment could leave.                                 *)
EXTENDS ConfigManager, FiniteSetTheorems, SequenceTheorems, TLAPS

Present(p) == {s \in Slots : p[s].state \in {"record", "unreadable"}}

-------------------------------------------------------------------------------
(* Payloads. *)

LEMMA ThreeAtMost ==
    ASSUME NEW x, NEW y, NEW z
    PROVE  Cardinality({x, y, z}) \in 0 .. 3
<1>1. IsFiniteSet({x}) /\ Cardinality({x}) = 1
  BY FS_Singleton
<1>2. /\ IsFiniteSet({x} \cup {y})
      /\ Cardinality({x} \cup {y}) \in 1 .. 2
  BY <1>1, FS_AddElement
<1>3. Cardinality(({x} \cup {y}) \cup {z}) \in 1 .. 3
  BY <1>2, FS_AddElement
<1>4. ({x} \cup {y}) \cup {z} = {x, y, z}
  OBVIOUS
<1> QED
  BY <1>3, <1>4

LEMMA PayloadsDiffer ==
    /\ Incomplete # Release1 /\ Incomplete # Foreign /\ Incomplete # None
    /\ Release1 # Foreign /\ Release1 # None /\ Foreign # None
<1> DEFINE all == {Incomplete, Release1, Foreign, None}
<1>1. Cardinality(all) = 4
  BY PayloadsAssumption
<1>2. ASSUME NEW x, NEW y, NEW z, all = {x, y, z}
      PROVE  FALSE
  <2>1. Cardinality({x, y, z}) = 4
    BY <1>1, <1>2
  <2>2. Cardinality({x, y, z}) \in 0 .. 3
    BY ONLY ThreeAtMost
  <2> QED
    BY ONLY <2>1, <2>2, SMT
<1>3. Incomplete = Release1 => all = {Incomplete, Foreign, None}
  OBVIOUS
<1>4. Incomplete = Foreign => all = {Incomplete, Release1, None}
  OBVIOUS
<1>5. Incomplete = None => all = {Incomplete, Release1, Foreign}
  OBVIOUS
<1>6. Release1 = Foreign => all = {Incomplete, Release1, None}
  OBVIOUS
<1>7. Release1 = None => all = {Incomplete, Release1, Foreign}
  OBVIOUS
<1>8. Foreign = None => all = {Incomplete, Release1, Foreign}
  OBVIOUS
<1> QED
  BY <1>2, <1>3, <1>4, <1>5, <1>6, <1>7, <1>8

LEMMA ValuesAreCanonical ==
    ASSUME NEW d \in Domains, NEW v \in Values(d)
    PROVE  v \notin {Release1, Foreign, None} /\ Canonical(v) = v /\ v \in Payloads(d)
  BY PayloadsDiffer, PayloadsAssumption DEF Domains, Values, Payloads, Canonical

LEMMA PayloadsBecomeValues ==
    ASSUME NEW d \in Domains, NEW v \in Payloads(d), v # Foreign
    PROVE  Canonical(v) \in Values(d)
  BY PayloadsDiffer, PayloadsAssumption DEF Domains, Values, Payloads, Canonical

LEMMA MinutesAreNumbers == Minutes \subseteq Nat /\ 0 \in Minutes /\ Values("ledger") = Minutes
                           /\ Payloads("ledger") = Minutes
  BY MinuteAssumption DEF Minutes, Values, Payloads

-------------------------------------------------------------------------------
(* Slots and files. *)

LEMMA TwoSlots ==
    /\ Other("a") = "b" /\ Other("b") = "a"
    /\ \A s \in Slots : Other(s) \in Slots /\ Other(s) # s /\ Other(Other(s)) = s
    /\ \A s, t \in Slots : t = s \/ t = Other(s)
  BY DEF Slots, Other

LEMMA OneSlot ==
    ASSUME NEW r \in SUBSET Slots
    PROVE  /\ (Cardinality(r) = 1) <=> (r # {} /\ r # Slots)
           /\ r = {} \/ r = {"a"} \/ r = {"b"} \/ r = Slots
<1>1. Cardinality({"a"}) = 1 /\ Cardinality({"b"}) = 1 /\ IsFiniteSet({"a"})
  BY FS_Singleton
<1>2. Cardinality({"a"} \cup {"b"}) = 2
  BY <1>1, FS_AddElement
<1>3. {"a"} \cup {"b"} = Slots
  BY DEF Slots
<1>4. r = {} \/ r = {"a"} \/ r = {"b"} \/ r = Slots
  BY DEF Slots
<1>5. Cardinality({}) = 0
  BY FS_EmptySet
<1>6. {"a"} # {} /\ {"b"} # {} /\ {"a"} # Slots /\ {"b"} # Slots /\ Slots # {}
  BY DEF Slots
<1>7. CASE r = {}
  BY <1>4, <1>5, <1>6, <1>7
<1>8. CASE r = {"a"} \/ r = {"b"}
  BY <1>1, <1>4, <1>6, <1>8
<1>9. CASE r = Slots
  BY <1>2, <1>3, <1>4, <1>6, <1>9
<1> QED
  BY <1>4, <1>7, <1>8, <1>9

States == {"absent", "corrupt", "record", "unreadable"}

LEMMA FilesAre ==
    ASSUME NEW d \in Domains, NEW f \in Files(d)
    PROVE  /\ f.state \in States /\ f.gen \in 0 .. MaxGeneration
           /\ f = File(f.state, f.gen, f.val)
           /\ f.state \in {"record", "unreadable"} =>
                f.gen \in 1 .. MaxGeneration /\ f.val \in Payloads(d)
           /\ (f.state = "absent") <=> (f = Absent)
           /\ (f.state = "corrupt") <=> (f = Corrupt)
<1>1. CASE f = Absent \/ f = Corrupt
  BY <1>1, GenerationAssumption DEF File, Absent, Corrupt, States
<1>2. CASE f \notin {Absent, Corrupt}
  <2>1. PICK st \in {"record", "unreadable"}, g \in 1 .. MaxGeneration, v \in Payloads(d) :
           f = File(st, g, v)
    BY <1>2 DEF Files
  <2> QED
    BY <2>1, <1>2, GenerationAssumption DEF File, Absent, Corrupt, States
<1> QED
  BY <1>1, <1>2

LEMMA RecordsAndTheLike ==
    ASSUME NEW d \in Domains, NEW st \in {"record", "unreadable"},
           NEW g \in 1 .. MaxGeneration, NEW v \in Payloads(d)
    PROVE  File(st, g, v) \in Files(d)
<1>1. File(st, g, v) \in {File(x, y, z) : x \in {"record", "unreadable"},
                                        y \in 1 .. MaxGeneration, z \in Payloads(d)}
  OBVIOUS
<1> QED
  BY <1>1 DEF Files

LEMMA MadeFiles ==
    ASSUME NEW d \in Domains
    PROVE  /\ Absent \in Files(d) /\ Corrupt \in Files(d)
           /\ Absent.state = "absent" /\ Corrupt.state = "corrupt"
           /\ \A g \in 1 .. MaxGeneration, v \in Payloads(d) :
                 /\ Record(g, v) \in Files(d)
                 /\ Record(g, v).state = "record" /\ Record(g, v).gen = g
                 /\ Record(g, v).val = v
           /\ EmptyPair \in Pairs(d)
<1>1. Absent \in Files(d) /\ Corrupt \in Files(d)
  BY DEF Files
<1>2. Absent.state = "absent" /\ Corrupt.state = "corrupt"
  BY DEF File, Absent, Corrupt
<1>3. ASSUME NEW g \in 1 .. MaxGeneration, NEW v \in Payloads(d)
      PROVE  /\ Record(g, v) \in Files(d)
             /\ Record(g, v).state = "record" /\ Record(g, v).gen = g
             /\ Record(g, v).val = v
  BY <1>3, RecordsAndTheLike DEF Record, File
<1>4. EmptyPair \in Pairs(d)
  BY <1>1 DEF EmptyPair, Pairs
<1> QED
  BY <1>1, <1>2, <1>3, <1>4

(* A file that is unreadable for now is the record it was, and is that again when it heals. *)
LEMMA Toggled ==
    ASSUME NEW d \in Domains, NEW f \in Files(d), f.state \in {"record", "unreadable"},
           NEW st \in {"record", "unreadable"}
    PROVE  /\ [f EXCEPT !.state = st] \in Files(d)
           /\ [f EXCEPT !.state = st].state = st
           /\ [f EXCEPT !.state = st].gen = f.gen /\ [f EXCEPT !.state = st].val = f.val
<1>1. f = File(f.state, f.gen, f.val) /\ f.gen \in 1 .. MaxGeneration /\ f.val \in Payloads(d)
  BY FilesAre
<1>2. [f EXCEPT !.state = st] = File(st, f.gen, f.val)
  BY <1>1 DEF File
<1>3. File(st, f.gen, f.val) \in Files(d)
  BY <1>1, RecordsAndTheLike
<1> QED
  BY <1>2, <1>3 DEF File

(* What a power loss can leave of a pair of slots that is seen as v and synced as u. *)
Losses(d, v, u) ==
    {p \in Pairs(d) : \A s \in Slots :
        p[s] \in {v[s], u[s]} \/ (v[s] # u[s] /\ p[s] = Corrupt)}

LEMMA LossesAre ==
    ASSUME NEW d \in Domains, NEW v \in Pairs(d), NEW u \in Pairs(d)
    PROVE  /\ v \in Losses(d, v, u) /\ u \in Losses(d, v, u)
           /\ Losses(d, v, v) = {v}
           /\ Losses(d, v, u) \subseteq Pairs(d)
<1>1. \A p \in Pairs(d) : (\A s \in Slots : p[s] = v[s]) => p = v
  BY DEF Pairs
<1> QED
  BY <1>1 DEF Losses

Left(v, u, s) == {v[s], u[s]} \cup (IF v[s] = u[s] THEN {} ELSE {Corrupt})

LEMMA LeftPairs ==
    ASSUME NEW d \in Domains, NEW v \in Pairs(d), NEW u \in Pairs(d)
    PROVE  {p \in [Slots -> Left(v, u, "a") \cup Left(v, u, "b")] :
               \A s \in Slots : p[s] \in Left(v, u, s)} = Losses(d, v, u)
<1> DEFINE files == Left(v, u, "a") \cup Left(v, u, "b")
<1>1. \A s \in Slots : Left(v, u, s) \subseteq files /\ Left(v, u, s) \subseteq Files(d)
  BY MadeFiles DEF Left, Slots, Pairs
<1>2. \A p, s : p[s] \in Left(v, u, s) <=>
          \/ p[s] \in {v[s], u[s]}
          \/ v[s] # u[s] /\ p[s] = Corrupt
  BY DEF Left
<1>3. \A p \in [Slots -> files] : (\A s \in Slots : p[s] \in Left(v, u, s)) => p \in Pairs(d)
  BY <1>1, Zenon DEF Pairs
<1>4. \A p \in Pairs(d) : (\A s \in Slots : p[s] \in Left(v, u, s)) => p \in [Slots -> files]
  BY <1>1, Zenon DEF Pairs
<1> HIDE DEF files
<1> DEFINE all == {p \in [Slots -> files] : \A s \in Slots : p[s] \in Left(v, u, s)}
<1>5. ASSUME NEW p \in all PROVE p \in Losses(d, v, u)
  BY <1>2, <1>3, <1>5 DEF Losses
<1>6. ASSUME NEW p \in Losses(d, v, u) PROVE p \in all
  <2>1. p \in Pairs(d) /\ \A s \in Slots : p[s] \in Left(v, u, s)
    BY <1>2, <1>6 DEF Losses
  <2> QED
    BY <2>1, <1>4
<1>7. all = Losses(d, v, u)
  BY <1>5, <1>6
<1> QED
  BY <1>7 DEF files

LEMMA CrashesAreLosses ==
    ASSUME NEW d \in Domains, visible[d] \in Pairs(d), durable[d] \in Pairs(d)
    PROVE  CrashPairs(d) = Losses(d, visible[d], durable[d])
  BY LeftPairs DEF CrashPairs, CrashFiles, Left

LEMMA CrashesAreLossesNext ==
    ASSUME NEW d \in Domains, visible'[d] \in Pairs(d), durable'[d] \in Pairs(d)
    PROVE  CrashPairs(d)' = Losses(d, visible'[d], durable'[d])
  BY LeftPairs DEF CrashPairs, CrashFiles, Left

-------------------------------------------------------------------------------
(* Loading. *)

LEMMA NewestExists ==
    ASSUME NEW d \in Domains, NEW p \in Pairs(d), NEW among \in SUBSET Slots, among # {}
    PROVE  \E s \in Slots : IsNewest(p, among, s)
<1>1. \A s \in Slots : p[s].gen \in Nat
  BY FilesAre, GenerationAssumption DEF Pairs
<1>2. among = {"a"} \/ among = {"b"} \/ among = {"a", "b"}
  BY DEF Slots
<1>3. p["a"].gen <= p["b"].gen \/ p["b"].gen <= p["a"].gen
  BY <1>1 DEF Slots
<1> QED
  BY <1>1, <1>2, <1>3 DEF IsNewest, Slots

(* Two records in a row that validation accepts. *)
Matched(p) ==
    /\ \A s \in Slots : p[s].state = "record" /\ p[s].val # Foreign
    /\ p["a"].gen - p["b"].gen \in -1 .. 1
    /\ p["a"].gen = p["b"].gen => p["a"].val = p["b"].val

LEMMA TrustedPairs ==
    ASSUME NEW d \in Domains, NEW p \in Pairs(d)
    PROVE  (LoadStatus(p) = "ok") <=> Matched(p)
<1>1. Valid(p) = Slots <=> \A s \in Slots : p[s].state = "record" /\ p[s].val # Foreign
  BY DEF Valid, Readable
<1>2. ASSUME Valid(p) = Slots
      PROVE  SplitBrain(p, Valid(p)) <=>
                p["a"].gen = p["b"].gen /\ p["a"].val # p["b"].val
  BY <1>2 DEF SplitBrain, Slots
<1>3. Slots # {}
  BY DEF Slots
<1> QED
  BY <1>1, <1>2, <1>3 DEF LoadStatus, Matched

LEMMA ChosenIsNewest ==
    ASSUME NEW d \in Domains, NEW p \in Pairs(d), Valid(p) # {}
    PROVE  \E s \in Valid(p) : /\ Chosen(p) = p[s]
                               /\ \A t \in Valid(p) : p[t].gen <= p[s].gen
<1> DEFINE s == CHOOSE s \in Valid(p) : IsNewest(p, Valid(p), s)
<1>1. Valid(p) \subseteq Slots
  BY DEF Valid, Readable
<1>2. \E t \in Valid(p) : IsNewest(p, Valid(p), t)
  BY <1>1, NewestExists DEF IsNewest
<1>3. s \in Valid(p) /\ IsNewest(p, Valid(p), s)
  BY <1>2
<1>4. Chosen(p) = p[s]
  BY DEF Chosen
<1> HIDE DEF s
<1> QED
  BY <1>3, <1>4 DEF IsNewest

(* What the manager trusts is the newer of two such records, and it trusts nothing while  *)
(* the store is unsure.                                                                   *)
LEMMA LoadTrusts ==
    ASSUME NEW d \in Domains, NEW p \in Pairs(d), NEW u \in BOOLEAN,
           Load(d, p, u).status = "ok"
    PROVE  /\ ~u /\ Matched(p)
           /\ \E s \in Slots : /\ \A t \in Slots : p[t].gen <= p[s].gen
                               /\ Load(d, p, u).gen = p[s].gen
                               /\ Load(d, p, u).val = Canonical(p[s].val)
           /\ Load(d, p, u) = Load(d, p, FALSE)
<1>1. TrustedStatus(p, u) = "ok"
  BY DEF Load
<1>2. ~u /\ LoadStatus(p) = "ok"
  BY <1>1 DEF TrustedStatus
<1>3. Matched(p)
  BY <1>2, TrustedPairs
<1>4. Valid(p) = Slots
  BY <1>3 DEF Matched, Valid, Readable
<1>5. PICK s \in Slots : Chosen(p) = p[s] /\ \A t \in Slots : p[t].gen <= p[s].gen
  BY <1>4, ChosenIsNewest DEF Slots
<1>6. Load(d, p, u).gen = p[s].gen /\ Load(d, p, u).val = Canonical(p[s].val)
  BY <1>1, <1>5 DEF Load
<1> QED
  BY <1>2, <1>3, <1>5, <1>6

LEMMA LoadsWhatMatches ==
    ASSUME NEW d \in Domains, NEW p \in Pairs(d), Matched(p)
    PROVE  Load(d, p, FALSE).status = "ok"
  BY TrustedPairs DEF Load, TrustedStatus

LEMMA LoadIsManager ==
    ASSUME NEW d \in Domains, NEW p \in Pairs(d), NEW u \in BOOLEAN
    PROVE  /\ Load(d, p, u) \in Managers(d)
           /\ Load(d, p, u).status = "ok" => Load(d, p, u).gen > 0
           /\ Load(d, p, u).status = "first_boot" => /\ ~u /\ p = EmptyPair
                                                    /\ Load(d, p, u).gen = 0
           /\ (Load(d, p, u).faulted) <=>
                (Load(d, p, u).status \in {"recovery_required", "invalid"})
<1> DEFINE status == TrustedStatus(p, u)
           shown == status = "ok" \/ (d = "config" /\ status = "recovery_required")
<1>1. LoadStatus(p) \in Statuses /\ (LoadStatus(p) = "first_boot" => p = EmptyPair)
      /\ (LoadStatus(p) \in {"ok", "recovery_required"} => Valid(p) # {})
      /\ (LoadStatus(p) = "ok" => Valid(p) = Slots)
  BY DEF LoadStatus, Statuses
<1>2. status \in Statuses /\ (status = "first_boot" => ~u /\ p = EmptyPair)
      /\ (shown => Valid(p) # {})
      /\ (status = "ok" => Valid(p) = Slots)
  BY <1>1 DEF TrustedStatus, Statuses
<1>3. ASSUME Valid(p) # {}
      PROVE  /\ Chosen(p).gen \in 1 .. MaxGeneration
             /\ Canonical(Chosen(p).val) \in Values(d)
  <2>1. PICK s \in Valid(p) : Chosen(p) = p[s]
    BY <1>3, ChosenIsNewest
  <2>2. s \in Slots /\ p[s].state = "record" /\ p[s].val # Foreign /\ p[s] \in Files(d)
    BY <2>1 DEF Valid, Readable, Pairs
  <2> QED
    BY <2>1, <2>2, FilesAre, PayloadsBecomeValues
<1>4. Default(d) \in Values(d) /\ Slots # {}
  BY MinutesAreNumbers DEF Default, Values, Domains, Slots
<1>5. Load(d, p, u) =
        [status |-> status, gen |-> IF shown THEN Chosen(p).gen ELSE 0,
         val |-> IF status = "ok" THEN Canonical(Chosen(p).val) ELSE Default(d),
         faulted |-> status \in {"recovery_required", "invalid"},
         migration |-> shown /\ Chosen(p).val = Release1]
  BY DEF Load
<1> HIDE DEF status
<1>6. (IF shown THEN Chosen(p).gen ELSE 0) \in 0 .. MaxGeneration
  BY <1>2, <1>3, GenerationAssumption
<1>7. (IF status = "ok" THEN Canonical(Chosen(p).val) ELSE Default(d)) \in Values(d)
  BY <1>2, <1>3, <1>4
<1>8. Load(d, p, u) \in Managers(d)
  BY <1>2, <1>5, <1>6, <1>7 DEF Managers
<1>9. status = "ok" => Load(d, p, u).gen > 0
  BY <1>2, <1>3, <1>4, <1>5
<1>10. status = "first_boot" => Load(d, p, u).gen = 0
  BY <1>5
<1>11. Load(d, p, u).status = status
  BY <1>5
<1>12. Load(d, p, u).faulted = (status \in {"recovery_required", "invalid"})
  <2> DEFINE flag == status \in {"recovery_required", "invalid"}
             moved == shown /\ Chosen(p).val = Release1
             gen == IF shown THEN Chosen(p).gen ELSE 0
             val == IF status = "ok" THEN Canonical(Chosen(p).val) ELSE Default(d)
  <2>1. Load(d, p, u) = [status |-> status, gen |-> gen, val |-> val, faulted |-> flag,
                         migration |-> moved]
    BY <1>5
  <2> HIDE DEF flag, moved, gen, val
  <2>2. Load(d, p, u).faulted = flag
    BY <2>1
  <2> QED
    BY <2>2 DEF flag
<1> QED
  BY <1>2, <1>8, <1>9, <1>10, <1>11, <1>12, Zenon

-------------------------------------------------------------------------------
(* Plans. *)

Two(s, g) == <<Publish(s, g), Publish(Other(s), g + 1)>>
Rewrite == <<Remove("b"), Publish("a", 1), Publish("b", 2)>>
Wipe == <<Remove("a"), Remove("b"), Publish("a", 1), Publish("b", 2)>>

(* What is left to do: of a commit, of a reseal, or of a reseal that removes first. *)
Planned(w, wipes) ==
    \/ w = <<>>
    \/ \E s \in Slots, g \in 1 .. MaxGeneration :
          w = <<Publish(s, g)>> /\ (wipes => s = "b" /\ g = 2)
    \/ \E s \in Slots, g \in 1 .. MaxGeneration - 1 :
          w = Two(s, g) /\ (wipes => s = "a" /\ g = 1)
    \/ wipes /\ w \in {Rewrite, Wipe}

LEMMA Lists ==
    ASSUME NEW S, NEW x \in S, NEW y \in S, NEW z \in S, NEW u \in S
    PROVE  /\ <<x>> \in Seq(S) /\ Len(<<x>>) = 1 /\ Head(<<x>>) = x /\ Tail(<<x>>) = <<>>
           /\ <<x, y>> \in Seq(S) /\ Len(<<x, y>>) = 2 /\ Head(<<x, y>>) = x
           /\ Tail(<<x, y>>) = <<y>>
           /\ <<x, y, z>> \in Seq(S) /\ Len(<<x, y, z>>) = 3 /\ Head(<<x, y, z>>) = x
           /\ Tail(<<x, y, z>>) = <<y, z>>
           /\ <<x, y, z, u>> \in Seq(S) /\ Len(<<x, y, z, u>>) = 4
           /\ Head(<<x, y, z, u>>) = x /\ Tail(<<x, y, z, u>>) = <<y, z, u>>
  OBVIOUS

LEMMA Joined ==
    ASSUME NEW S, NEW x \in S, NEW y \in S, NEW z \in S, NEW u \in S
    PROVE  <<x, y>> \o <<z, u>> = <<x, y, z, u>>
<1> DEFINE p == <<x, y>>
           q == <<z, u>>
           r == <<x, y, z, u>>
<1>1. p \in Seq(S) /\ q \in Seq(S) /\ r \in Seq(S) /\ Len(p) = 2 /\ Len(q) = 2 /\ Len(r) = 4
      /\ p[1] = x /\ p[2] = y /\ q[1] = z /\ q[2] = u
      /\ r[1] = x /\ r[2] = y /\ r[3] = z /\ r[4] = u
  OBVIOUS
<1> HIDE DEF p, q, r
<1>2. /\ p \o q \in Seq(S) /\ Len(p \o q) = 4
      /\ \A i \in 1 .. 4 : (p \o q)[i] = IF i <= 2 THEN p[i] ELSE q[i - 2]
  <2>1. /\ p \o q \in Seq(S) /\ Len(p \o q) = Len(p) + Len(q)
        /\ \A i \in 1 .. Len(p) + Len(q) :
              (p \o q)[i] = IF i <= Len(p) THEN p[i] ELSE q[i - Len(p)]
    BY <1>1, ConcatProperties, Zenon
  <2>2. Len(p) + Len(q) = 4
    BY <1>1
  <2> QED
    BY <2>1, <2>2, <1>1
<1>3. ASSUME NEW i \in 1 .. 4 PROVE (p \o q)[i] = r[i]
  <2>1. i = 1 \/ i = 2 \/ i = 3 \/ i = 4
    OBVIOUS
  <2>2. (p \o q)[1] = p[1] /\ (p \o q)[2] = p[2] /\ (p \o q)[3] = q[1] /\ (p \o q)[4] = q[2]
    BY <1>2
  <2> QED
    BY <2>1, <2>2, <1>1
<1>4. p \o q = r
  BY <1>1, <1>2, <1>3
<1> QED
  BY <1>4 DEF p, q, r

LEMMA StepsAre ==
    ASSUME NEW s \in Slots, NEW g \in 0 .. MaxGeneration
    PROVE  /\ Publish(s, g) \in Steps /\ Remove(s) \in Steps
           /\ Publish(s, g).kind = "publish" /\ Publish(s, g).slot = s
           /\ Publish(s, g).gen = g
           /\ Remove(s).kind = "remove" /\ Remove(s).slot = s
  BY GenerationAssumption DEF Publish, Remove, Steps

LEMMA PlansAreSteps ==
    ASSUME NEW wipes \in BOOLEAN, NEW w, Planned(w, wipes)
    PROVE  w \in Seq(Steps) /\ Len(w) \in 0 .. 4
<1>1. /\ Publish("a", 1) \in Steps /\ Publish("b", 2) \in Steps
      /\ Remove("a") \in Steps /\ Remove("b") \in Steps
  BY StepsAre, GenerationAssumption DEF Slots
<1>2. Rewrite \in Seq(Steps) /\ Len(Rewrite) = 3
  BY <1>1, Lists DEF Rewrite
<1>3. Wipe \in Seq(Steps) /\ Len(Wipe) = 4
  BY <1>1, Lists DEF Wipe
<1>4. ASSUME NEW s \in Slots, NEW g \in 1 .. MaxGeneration
      PROVE  <<Publish(s, g)>> \in Seq(Steps) /\ Len(<<Publish(s, g)>>) = 1
  <2>1. Publish(s, g) \in Steps
    BY StepsAre
  <2> QED
    BY <2>1, Lists
<1>5. ASSUME NEW s \in Slots, NEW g \in 1 .. MaxGeneration - 1
      PROVE  Two(s, g) \in Seq(Steps) /\ Len(Two(s, g)) = 2
  <2>1. Publish(s, g) \in Steps /\ Publish(Other(s), g + 1) \in Steps
    BY StepsAre, TwoSlots, GenerationAssumption
  <2> QED
    BY <2>1, Lists DEF Two
<1>6. <<>> \in Seq(Steps) /\ Len(<<>>) = 0
  OBVIOUS
<1> QED
  <2>2. 0 \in 0 .. 4 /\ 1 \in 0 .. 4 /\ 2 \in 0 .. 4 /\ 3 \in 0 .. 4 /\ 4 \in 0 .. 4
    OBVIOUS
  <2> QED
    BY <1>2, <1>3, <1>4, <1>5, <1>6, <2>2, Zenon DEF Planned

(* One step after the other: what follows a publication publishes the other slot. *)
GoesOn(w, wipes) ==
    /\ Planned(Tail(w), wipes)
    /\ Head(w) \in Steps /\ Len(Tail(w)) = Len(w) - 1 /\ Len(w) \in 1 .. 4
    /\ Head(w).kind = "publish" =>
         /\ Head(w).gen \in 1 .. MaxGeneration /\ Len(w) <= 2
         /\ wipes => ((Head(w).slot = "a") <=> (Len(w) = 2))
         /\ Tail(w) # <<>> => /\ Head(Tail(w)).kind = "publish"
                              /\ Head(Tail(w)).slot = Other(Head(w).slot)
                              /\ Head(Tail(w)).gen = Head(w).gen + 1
    /\ Head(w).kind = "remove" => \/ w = Rewrite /\ Head(w).slot = "b"
                                  \/ w = Wipe /\ Head(w).slot = "a" /\ Tail(w) = Rewrite
    /\ Len(w) > 2 => wipes /\ Head(w).kind = "remove"

LEMMA PlansGoOn ==
    ASSUME NEW wipes \in BOOLEAN, NEW w, Planned(w, wipes), w # <<>>
    PROVE  GoesOn(w, wipes)
<1>1. ASSUME NEW s \in Slots, NEW g \in 1 .. MaxGeneration, w = <<Publish(s, g)>>,
             wipes => s = "b" /\ g = 2
      PROVE  GoesOn(w, wipes)
  <2>1. Publish(s, g) \in Steps
    BY StepsAre
  <2>2. Head(w) = Publish(s, g) /\ Tail(w) = <<>> /\ Len(w) = 1
    BY <1>1, <2>1, Lists
  <2>3. Planned(Tail(w), wipes) /\ Len(Tail(w)) = 0
    BY <2>2 DEF Planned
  <2> QED
    BY <1>1, <2>1, <2>2, <2>3, StepsAre DEF GoesOn
<1>2. ASSUME NEW s \in Slots, NEW g \in 1 .. MaxGeneration - 1, w = Two(s, g),
             wipes => s = "a" /\ g = 1
      PROVE  GoesOn(w, wipes)
  <2>1. Publish(s, g) \in Steps /\ Publish(Other(s), g + 1) \in Steps
        /\ Other(s) \in Slots /\ g + 1 \in 1 .. MaxGeneration
    BY StepsAre, TwoSlots, GenerationAssumption
  <2>2. Head(w) = Publish(s, g) /\ Tail(w) = <<Publish(Other(s), g + 1)>> /\ Len(w) = 2
    BY <1>2, <2>1, Lists DEF Two
  <2>3. /\ Head(Tail(w)) = Publish(Other(s), g + 1) /\ Len(Tail(w)) = 1
    BY <2>1, <2>2, Lists
  <2>4. Planned(Tail(w), wipes)
    <3>1. wipes => Other(s) = "b" /\ g + 1 = 2
      BY <1>2, TwoSlots
    <3> QED
      BY <3>1, <2>1, <2>2, Zenon DEF Planned
  <2>5. /\ Publish(s, g).kind = "publish" /\ Publish(s, g).slot = s /\ Publish(s, g).gen = g
        /\ Publish(Other(s), g + 1).kind = "publish"
        /\ Publish(Other(s), g + 1).slot = Other(s) /\ Publish(Other(s), g + 1).gen = g + 1
    BY DEF Publish
  <2> QED
    <3> DEFINE h == Head(w)
               n == Head(Tail(w))
    <3>1. /\ h \in Steps /\ Len(w) = 2 /\ Len(Tail(w)) = 1
          /\ h.kind = "publish" /\ h.slot = s /\ h.gen = g
          /\ n.kind = "publish" /\ n.slot = Other(s) /\ n.gen = g + 1
      BY <2>1, <2>2, <2>3, <2>5
    <3>2. g \in 1 .. MaxGeneration
      BY GenerationAssumption
    <3>3. wipes => ((s = "a") <=> (2 = 2))
      BY <1>2
    <3> HIDE DEF h, n
    <3> QED
      BY <1>2, <3>1, <3>2, <3>3, <2>4 DEF GoesOn, h, n
<1>3. ASSUME wipes, w = Rewrite
      PROVE  GoesOn(w, wipes)
  <2>1. Remove("b") \in Steps /\ Publish("a", 1) \in Steps /\ Publish("b", 2) \in Steps
    BY StepsAre, GenerationAssumption DEF Slots
  <2>2. Head(w) = Remove("b") /\ Tail(w) = <<Publish("a", 1), Publish("b", 2)>> /\ Len(w) = 3
        /\ Len(<<Publish("a", 1), Publish("b", 2)>>) = 2
    BY <1>3, <2>1, Lists DEF Rewrite
  <2>3. 1 \in 1 .. MaxGeneration - 1 /\ "a" \in Slots /\ 1 + 1 = 2 /\ "a" = "a"
    BY GenerationAssumption DEF Slots
  <2>4. Tail(w) = Two("a", 1)
    BY <2>2, <2>3, TwoSlots DEF Two
  <2>5. Planned(Tail(w), wipes)
    BY <2>3, <2>4 DEF Planned
  <2>6. Remove("b").kind = "remove" /\ Remove("b").slot = "b"
    BY DEF Remove
  <2> QED
    <3> DEFINE h == Head(w)
    <3>1. h = Remove("b") /\ Len(w) = 3 /\ Len(Tail(w)) = 2 /\ h \in Steps
      BY <2>1, <2>2
    <3>2. h.kind = "remove" /\ h.slot = "b"
      BY <3>1, <2>6
    <3>3. Len(Tail(w)) = Len(w) - 1 /\ Len(w) \in 1 .. 4 /\ h.kind # "publish"
      BY <3>1, <3>2
    <3> HIDE DEF h
    <3> QED
      BY <1>3, <3>1, <3>2, <3>3, <2>5, Zenon DEF GoesOn, h
<1>4. ASSUME wipes, w = Wipe
      PROVE  GoesOn(w, wipes)
  <2>1. Remove("a") \in Steps /\ Remove("b") \in Steps /\ Publish("a", 1) \in Steps
        /\ Publish("b", 2) \in Steps
    BY StepsAre, GenerationAssumption DEF Slots
  <2>2. Head(w) = Remove("a") /\ Tail(w) = Rewrite /\ Len(w) = 4 /\ Len(Rewrite) = 3
    BY <1>4, <2>1, Lists DEF Wipe, Rewrite
  <2>3. Planned(Tail(w), wipes)
    BY <1>4, <2>2 DEF Planned
  <2>4. Remove("a").kind = "remove" /\ Remove("a").slot = "a"
    BY DEF Remove
  <2> QED
    <3> DEFINE h == Head(w)
    <3>1. /\ h = Remove("a") /\ Len(w) = 4 /\ Len(Tail(w)) = 3 /\ h \in Steps
          /\ Tail(w) = Rewrite
      BY <2>1, <2>2
    <3>2. h.kind = "remove" /\ h.slot = "a"
      BY <3>1, <2>4
    <3>3. Len(Tail(w)) = Len(w) - 1 /\ Len(w) \in 1 .. 4 /\ h.kind # "publish"
      BY <3>1, <3>2
    <3> HIDE DEF h
    <3> QED
      BY <1>4, <3>1, <3>2, <3>3, <2>3, Zenon DEF GoesOn, h
<1> QED
  BY <1>1, <1>2, <1>3, <1>4 DEF Planned

-------------------------------------------------------------------------------
(* What a plan leaves beside the slot it writes first: the newest record, or the only one. *)

Keeper(p, o) == o \in Readable(p) /\ \A t \in Readable(p) : p[t].gen <= p[o].gen

LEMMA LatestIs ==
    ASSUME NEW d \in Domains, NEW p \in Pairs(d)
    PROVE  /\ LatestGeneration(p) \in 0 .. MaxGeneration
           /\ Readable(p) = {} => LatestGeneration(p) = 0
           /\ Readable(p) # {} => LatestGeneration(p) > 0
           /\ \A s \in Readable(p) : p[s].gen <= LatestGeneration(p)
<1>1. CASE Readable(p) = {}
  BY <1>1, GenerationAssumption DEF LatestGeneration
<1>2. CASE Readable(p) # {}
  <2> DEFINE s == CHOOSE s \in Readable(p) : IsNewest(p, Readable(p), s)
  <2>1. \E t \in Readable(p) : IsNewest(p, Readable(p), t)
    BY <1>2, NewestExists DEF IsNewest, Readable
  <2>2. s \in Readable(p) /\ IsNewest(p, Readable(p), s)
    BY <2>1
  <2>3. LatestGeneration(p) = p[s].gen
    BY <1>2 DEF LatestGeneration
  <2> HIDE DEF s
  <2>4. p[s] \in Files(d) /\ p[s].state = "record"
    BY <2>2 DEF Readable, Pairs
  <2>5. p[s].gen \in 1 .. MaxGeneration
    BY <2>4, FilesAre
  <2> QED
    BY <1>2, <2>2, <2>3, <2>5, GenerationAssumption DEF IsNewest
<1> QED
  BY <1>1, <1>2

LEMMA CommitTargets ==
    ASSUME NEW d \in Domains, NEW p \in Pairs(d)
    PROVE  /\ TargetSlot(p) \in Slots
           /\ Readable(p) = {} => TargetSlot(p) = "a"
           /\ Readable(p) # {} => Keeper(p, Other(TargetSlot(p)))
<1> DEFINE r == Readable(p)
<1>1. r \in SUBSET Slots
  BY DEF Readable
<1>2. \A s \in Slots : p[s].gen \in Nat
  BY FilesAre, GenerationAssumption DEF Pairs
<1>3. CASE r = {}
  BY <1>3, TwoSlots DEF TargetSlot, Slots
<1>4. CASE r # {} /\ r # Slots
  <2>1. Cardinality(r) = 1
    BY <1>1, <1>4, OneSlot
  <2>2. PICK o \in Slots : r = {o}
    BY <1>1, <1>4, OneSlot DEF Slots
  <2>3. TargetSlot(p) = CHOOSE s \in Slots : s \notin r
    BY <1>4, <2>1 DEF TargetSlot
  <2>4. TargetSlot(p) = Other(o)
    BY <2>2, <2>3, TwoSlots
  <2> QED
    BY <1>2, <1>4, <2>2, <2>4, TwoSlots DEF Keeper
<1>5. CASE r = Slots
  <2>1. Cardinality(r) # 1 /\ r # {}
    BY <1>1, <1>5, OneSlot DEF Slots
  <2>2. TargetSlot(p) = IF p["a"].gen < p["b"].gen THEN "a" ELSE "b"
    BY <2>1 DEF TargetSlot
  <2>3. /\ p["a"].gen < p["b"].gen => Keeper(p, "b")
        /\ ~(p["a"].gen < p["b"].gen) => Keeper(p, "a")
    BY <1>2, <1>5 DEF Keeper, Slots
  <2> QED
    BY <2>1, <2>2, <2>3, TwoSlots DEF Slots
<1> QED
  BY <1>3, <1>4, <1>5

LEMMA CommitPlans ==
    ASSUME NEW d \in Domains, NEW p \in Pairs(d), NEW g \in 0 .. MaxGeneration,
           NEW first \in BOOLEAN, Accepts(p, g), first => g = 0
    PROVE  LET plan == CommitPlan(p, g, first) IN
           /\ Planned(plan, FALSE) /\ plan # <<>> /\ plan[1].kind = "publish"
           /\ Head(plan).kind = "publish" /\ Head(plan).slot = TargetSlot(p)
           /\ Head(plan).gen = g + 1 /\ plan[Len(plan)].gen \in 1 .. MaxGeneration
<1> DEFINE s == TargetSlot(p)
<1>1. s \in Slots /\ Other(s) \in Slots
  BY CommitTargets, TwoSlots
<1> HIDE DEF s
<1>2. g + 1 \in 1 .. MaxGeneration
  BY GenerationAssumption DEF Accepts
<1>3. /\ Publish(s, g + 1) \in Steps /\ Publish(s, g + 1).kind = "publish"
      /\ Publish(s, g + 1).slot = s /\ Publish(s, g + 1).gen = g + 1
  BY <1>1, <1>2, StepsAre
<1>4. CASE ~first
  <2>1. CommitPlan(p, g, first) = <<Publish(s, g + 1)>>
    BY <1>4 DEF CommitPlan, s
  <2>2. Planned(<<Publish(s, g + 1)>>, FALSE)
    BY <1>1, <1>2, Zenon DEF Planned
  <2> QED
    <3> DEFINE plan == CommitPlan(p, g, first)
    <3>1. /\ plan # <<>> /\ plan[1] = Publish(s, g + 1) /\ Head(plan) = Publish(s, g + 1)
          /\ Len(plan) = 1 /\ plan[Len(plan)] = Publish(s, g + 1)
      BY <1>3, <2>1, Lists
    <3>2. Planned(plan, FALSE)
      BY <2>1, <2>2
    <3> HIDE DEF plan
    <3>3. /\ Planned(plan, FALSE) /\ plan # <<>> /\ plan[1].kind = "publish"
          /\ Head(plan).kind = "publish" /\ Head(plan).slot = s
          /\ Head(plan).gen = g + 1 /\ plan[Len(plan)].gen \in 1 .. MaxGeneration
      BY <1>2, <1>3, <3>1, <3>2
    <3> QED
      BY <3>3 DEF plan, s
<1>5. CASE first
  <2>1. CommitPlan(p, g, first) = <<Publish(s, 1), Publish(Other(s), 2)>>
    BY <1>5 DEF CommitPlan, s
  <2>2. g + 1 = 1 /\ 1 + 1 = 2 /\ 1 \in 1 .. MaxGeneration - 1 /\ 2 \in 1 .. MaxGeneration
    BY <1>5, GenerationAssumption
  <2>3. CommitPlan(p, g, first) = Two(s, 1)
    BY <2>1, <2>2 DEF Two
  <2>4. Planned(Two(s, 1), FALSE)
    BY <1>1, <2>2, Zenon DEF Planned
  <2>5. Publish(Other(s), 2) \in Steps /\ Publish(Other(s), 2).gen = 2
    BY <1>1, <2>2, StepsAre
  <2> QED
    <3> DEFINE plan == CommitPlan(p, g, first)
    <3>1. /\ plan # <<>> /\ plan[1] = Publish(s, g + 1) /\ Head(plan) = Publish(s, g + 1)
          /\ Len(plan) = 2 /\ plan[Len(plan)] = Publish(Other(s), 2)
      BY <1>3, <2>1, <2>2, <2>5, Lists
    <3>2. Planned(plan, FALSE)
      BY <2>3, <2>4
    <3> HIDE DEF plan
    <3>3. /\ Planned(plan, FALSE) /\ plan # <<>> /\ plan[1].kind = "publish"
          /\ Head(plan).kind = "publish" /\ Head(plan).slot = s
          /\ Head(plan).gen = g + 1 /\ plan[Len(plan)].gen \in 1 .. MaxGeneration
      BY <1>3, <2>2, <2>5, <3>1, <3>2
    <3> QED
      BY <3>3 DEF plan, s
<1> QED
  BY <1>4, <1>5

LEMMA ResealTargets ==
    ASSUME NEW d \in Domains, NEW p \in Pairs(d), InvalidSlots(p) # Slots
    PROVE  /\ ResealFirst(p) \in Slots
           /\ p[Other(ResealFirst(p))].state \in {"record", "absent"}
           /\ Readable(p) # {} => Keeper(p, Other(ResealFirst(p)))
<1> DEFINE r == Readable(p)
           i == InvalidSlots(p)
<1>1. r \in SUBSET Slots /\ i \in SUBSET Slots /\ r \cap i = {}
  BY DEF Readable, InvalidSlots
<1>2. \A s \in Slots : p[s].gen \in Nat /\ p[s].state \in States
  BY FilesAre, GenerationAssumption DEF Pairs
<1>3. CASE i # {}
  <2>1. PICK o \in Slots : i = {Other(o)}
    BY <1>1, <1>3, OneSlot, TwoSlots DEF Slots
  <2>2. ResealFirst(p) = Other(o)
    BY <1>3, <2>1, TwoSlots DEF ResealFirst, Slots
  <2>3. p[o].state \in {"record", "absent"}
    BY <1>2, <2>1, TwoSlots DEF InvalidSlots, States
  <2>4. r \subseteq {o}
    BY <1>1, <2>1, TwoSlots
  <2> QED
    BY <1>2, <2>2, <2>3, <2>4, TwoSlots DEF Keeper
<1>4. CASE i = {} /\ r # {} /\ r # Slots
  <2>1. Cardinality(r) = 1
    BY <1>1, <1>4, OneSlot
  <2>2. PICK o \in Slots : r = {o}
    BY <1>1, <1>4, OneSlot DEF Slots
  <2>3. ResealFirst(p) = CHOOSE s \in Slots : s \notin r
    BY <1>4, <2>1 DEF ResealFirst
  <2>4. ResealFirst(p) = Other(o)
    BY <2>2, <2>3, TwoSlots
  <2>5. p[o].state = "record"
    BY <2>2 DEF Readable
  <2> QED
    BY <1>2, <2>2, <2>4, <2>5, TwoSlots DEF Keeper
<1>5. CASE i = {} /\ r \in {{}, Slots}
  <2>1. Cardinality(r) # 1
    BY <1>1, <1>5, OneSlot DEF Slots
  <2>2. ResealFirst(p) = IF r # {} /\ p["b"].gen < p["a"].gen THEN "b" ELSE "a"
    BY <1>5, <2>1 DEF ResealFirst
  <2>3. \A s \in Slots : p[s].state \in {"record", "absent"}
    BY <1>2, <1>5 DEF InvalidSlots, States
  <2>4. r # {} => /\ p["b"].gen < p["a"].gen => Keeper(p, "a")
                  /\ ~(p["b"].gen < p["a"].gen) => Keeper(p, "b")
    BY <1>2, <1>5 DEF Keeper, Slots
  <2> QED
    BY <2>2, <2>3, <2>4, TwoSlots DEF Slots
<1> QED
  BY <1>3, <1>4, <1>5

LEMMA ResealPlans ==
    ASSUME NEW d \in Domains, NEW p \in Pairs(d), CanReseal(p)
    PROVE  LET plan == ResealPlan(p)
               wipes == plan[1].kind = "remove"
               g == LatestGeneration(p) + 1 IN
           /\ Planned(plan, wipes) /\ plan # <<>>
           /\ plan[Len(plan)].gen \in 1 .. MaxGeneration
           /\ InvalidSlots(p) = Slots => wipes /\ plan = Wipe
           /\ InvalidSlots(p) # Slots =>
                /\ ~wipes /\ Len(plan) = 2
                /\ Head(plan).kind = "publish" /\ Head(plan).slot = ResealFirst(p)
                /\ Head(plan).gen = g
<1> DEFINE plan == ResealPlan(p)
           wipes == plan[1].kind = "remove"
           l == LatestGeneration(p)
           s == ResealFirst(p)
<1>1. CASE InvalidSlots(p) = Slots
  <2>1. Readable(p) = {}
    BY <1>1 DEF InvalidSlots, Readable
  <2>2. l = 0 /\ l + 1 = 1 /\ l + 2 = 2
    BY <2>1, LatestIs
  <2>3. s = "a" /\ Other(s) = "b"
    BY <1>1, TwoSlots DEF ResealFirst, Slots
  <2>4. plan = <<Remove("a"), Remove("b")>> \o <<Publish("a", 1), Publish("b", 2)>>
    BY <1>1, <2>2, <2>3 DEF ResealPlan
  <2>5. /\ Remove("a") \in Steps /\ Remove("b") \in Steps /\ Publish("a", 1) \in Steps
        /\ Publish("b", 2) \in Steps
    BY StepsAre, GenerationAssumption DEF Slots
  <2>6. plan = Wipe
    BY <2>4, <2>5, Joined DEF Wipe
  <2>7. plan[1] = Remove("a") /\ plan[4] = Publish("b", 2) /\ Len(plan) = 4 /\ plan # <<>>
    BY <2>5, <2>6, Lists DEF Wipe
  <2>8. wipes /\ Publish("b", 2).gen \in 1 .. MaxGeneration
    BY <2>7, GenerationAssumption DEF Remove, Publish
  <2>9. Planned(plan, wipes)
    BY <2>6, <2>8, Zenon DEF Planned
  <2> QED
    BY <1>1, <2>6, <2>7, <2>8, <2>9
<1>2. CASE InvalidSlots(p) # Slots
  <2>1. s \in Slots /\ Other(s) \in Slots
    BY <1>2, ResealTargets, TwoSlots
  <2>2. l \in 0 .. MaxGeneration /\ l <= MaxGeneration - 2
    BY LatestIs DEF CanReseal
  <2> DEFINE g == l + 1
  <2>3. g \in 1 .. MaxGeneration - 1 /\ l + 2 = g + 1
        /\ g + 1 \in 1 .. MaxGeneration /\ g \in 1 .. MaxGeneration
    BY <2>2, GenerationAssumption
  <2>4. plan = <<>> \o <<Publish(s, l + 1), Publish(Other(s), l + 2)>>
    BY <1>2 DEF ResealPlan
  <2>5. plan = <<>> \o <<Publish(s, g), Publish(Other(s), g + 1)>>
    BY <2>3, <2>4
  <2> HIDE DEF g, s
  <2>6. /\ Publish(s, g) \in Steps /\ Publish(Other(s), g + 1) \in Steps
        /\ Publish(s, g).kind = "publish" /\ Publish(s, g).slot = s /\ Publish(s, g).gen = g
        /\ Publish(Other(s), g + 1).gen = g + 1
    BY <2>1, <2>3, StepsAre
  <2>7. plan = Two(s, g)
    BY <2>5, <2>6 DEF Two
  <2>8. /\ plan[1] = Publish(s, g) /\ plan[2] = Publish(Other(s), g + 1) /\ Len(plan) = 2
        /\ Head(plan) = Publish(s, g) /\ plan # <<>>
    BY <2>6, <2>7, Lists DEF Two
  <2>9. ~wipes
    BY <2>6, <2>8
  <2>10. Planned(plan, wipes)
    BY <2>1, <2>3, <2>7, <2>9, Zenon DEF Planned
  <2> QED
    BY <1>2, <2>3, <2>6, <2>8, <2>9, <2>10 DEF g, s
<1> QED
  BY <1>1, <1>2

-------------------------------------------------------------------------------
(* The shape of every state.  Only a store whose last publication is in doubt, or that is  *)
(* between a rename and its sync, has a slot that a power loss can still take back; that   *)
(* slot is a record or removed, and an operation only ever goes on from synced slots.      *)

Running == op # NoOp
Working == op.work # <<>>
Synced(d) == visible[d] = durable[d]
Beside == visible[op.domain][Other(Step.slot)]
Gone(s) == visible[op.domain][s] = Absent /\ durable[op.domain][s] = Absent

Operations == [kind : Kinds, domain : Domains, val : Values("config") \cup Values("ledger"),
               gen : 1 .. MaxGeneration, wipes : BOOLEAN, work : Seq(Steps), step : Stages]

DiskTyped ==
    /\ DOMAIN visible = Domains /\ DOMAIN durable = Domains
    /\ \A d \in Domains : /\ visible[d] \in Pairs(d) /\ durable[d] \in Pairs(d)
                          /\ \E s \in Slots : visible[d][Other(s)] = durable[d][Other(s)]

ManagerTyped ==
    /\ unsure \in [Domains -> BOOLEAN]
    /\ DOMAIN mgr = Domains
    /\ \A d \in Domains : /\ mgr[d] \in Managers(d)
                          /\ mgr[d].status = "ok" => mgr[d].gen > 0
                          /\ mgr[d].status = "first_boot" => mgr[d].gen = 0

HistoryTyped ==
    /\ wear \in [left : Nat, sound : BOOLEAN, since : SUBSET Domains]
    /\ DOMAIN settled = Domains /\ DOMAIN doubt = Domains
    /\ \A d \in Domains : settled[d] \in Values(d) \cup {None} /\ doubt[d] \in SUBSET Values(d)
    /\ fence \in Minutes

OpTyped == Running => op \in Operations /\ op.val \in Values(op.domain)

Typed == DiskTyped /\ ManagerTyped /\ HistoryTyped /\ OpTyped

(* Where an operation is in its plan. *)
Progress ==
    /\ Planned(op.work, op.wipes)
    /\ op.val \in doubt[op.domain]
    /\ ~Working => op.step = "next" /\ visible = durable
    /\ Working => /\ op.step = "staged" => visible = durable /\ Step.kind = "publish"
                  /\ op.step = "published" =>
                        /\ visible[op.domain][Step.slot] = Written
                        /\ Beside = durable[op.domain][Other(Step.slot)]
                  /\ op.step = "next" /\ Step.kind = "remove" => Synced(op.domain)
    /\ op.wipes /\ Len(op.work) = 3 => Gone("a")
    /\ op.wipes /\ (Len(op.work) = 2 \/ (Len(op.work) = 1 /\ op.step # "published")) => Gone("b")

Changing(d) == op.domain = d /\ Working /\ op.step = "published"

Unsettled(d) ==
    /\ \A s \in Slots : visible[d][s] # durable[d][s] =>
                          visible[d][s].state \in {"record", "absent"}
    /\ Synced(d) \/ unsure[d] \/ Changing(d)

ShapeInv == Typed /\ (Running => Progress) /\ \A d \in Domains : Unsettled(d)

LEMMA NoOpIs ==
    /\ NoOp.work = <<>> /\ NoOp.step = "next" /\ NoOp.domain = "none" /\ NoOp.wipes = FALSE
    /\ NoOp.domain \notin Domains
  BY DEF NoOp, Domains

(* The steps of the system, by what they do to it. *)
Grounded == FirstProvision("config") => mgr["ledger"].status = "ok" \/ mgr["config"].faulted

Refuses(d) == Idle /\ Refused(d) /\ (d = "config" => Grounded)

Commits(d, v) ==
    /\ Idle /\ ~Untrusted(d) /\ Accepts(visible[d], mgr[d].gen)
    /\ d = "config" => Grounded
    /\ d = "ledger" => v >= mgr["ledger"].val
    /\ Begin("commit", d, v, CommitPlan(visible[d], mgr[d].gen, FirstProvision(d)))

Recovers(d, v) ==
    /\ Idle /\ CanReseal(visible[d])
    /\ d = "config" => Grounded
    /\ d = "ledger" => v >= SurvivingMinute(visible["ledger"])
    /\ Begin("recover", d, v, ResealPlan(visible[d]))

Begins(d, v) == Commits(d, v) \/ Recovers(d, v)

LEMMA SurvivingMinuteIs ==
    ASSUME NEW p \in Pairs("ledger")
    PROVE  /\ SurvivingMinute(p) \in Minutes
           /\ \A s \in Readable(p) : p[s].val <= SurvivingMinute(p)
           /\ SurvivingMinute(p) = 0 \/ \E s \in Readable(p) : p[s].val = SurvivingMinute(p)
<1> DEFINE marks == {p[s].val : s \in Readable(p)} \cup {0}
           m == CHOOSE m \in marks : \A n \in marks : n <= m
<1>1. \A s \in Readable(p) : s \in Slots /\ p[s].val \in Minutes
  BY FilesAre, MinutesAreNumbers DEF Readable, Pairs, Domains
<1>2. marks \subseteq Minutes
  BY <1>1, MinutesAreNumbers
<1>3. \E x \in marks : \A n \in marks : n <= x
  <2> DEFINE one == IF "a" \in Readable(p) THEN p["a"].val ELSE 0
             two == IF "b" \in Readable(p) THEN p["b"].val ELSE 0
  <2>1. one \in marks /\ two \in marks /\ one \in Nat /\ two \in Nat
    BY <1>1, MinutesAreNumbers
  <2>2. \A n \in marks : n = 0 \/ n = one \/ n = two
    BY <1>1 DEF Slots
  <2> HIDE DEF one, two, marks
  <2>3. CASE one <= two
    BY <2>1, <2>2, <2>3
  <2>4. CASE two <= one
    BY <2>1, <2>2, <2>4
  <2> QED
    BY <2>1, <2>3, <2>4
<1>4. m \in marks /\ \A n \in marks : n <= m
  BY <1>3
<1>5. SurvivingMinute(p) = m
  BY DEF SurvivingMinute
<1> HIDE DEF m
<1> QED
  BY <1>2, <1>4, <1>5

LEMMA NextIs ==
    ASSUME Typed, Next
    PROVE  \/ \E d \in Domains : Reload(d) \/ Refuses(d)
           \/ \E d \in Domains : \E v \in Values(d) : Begins(d, v)
           \/ Operate \/ Fail \/ Suffer
<1>1. ASSUME NEW v \in Values("config"), CommitConfig(v)
      PROVE  Refuses("config") \/ Commits("config", v)
  <2>1. Grounded
    BY <1>1 DEF CommitConfig, Grounded, NeedsLedger
  <2> QED
    BY <1>1, <2>1, Zenon DEF CommitConfig, BeginCommit, Refuses, Commits
<1>2. ASSUME NEW m \in Minutes, Checkpoint(m)
      PROVE  Refuses("ledger") \/ Commits("ledger", m)
  BY <1>2 DEF Checkpoint, BeginCommit, Refuses, Commits
<1>3. ASSUME RecoverConfig
      PROVE  Refuses("config") \/ Recovers("config", Incomplete)
  <2>1. Grounded
    BY <1>3 DEF RecoverConfig, Grounded, FirstProvision, Untrusted
  <2> QED
    BY <1>3, <2>1 DEF RecoverConfig, BeginRecover, Refuses, Recovers
<1>4. ASSUME NEW m \in Minutes, RecoverLedger(m)
      PROVE  Refuses("ledger") \/ (RecoveryMinute(m) \in Minutes
                                   /\ Recovers("ledger", RecoveryMinute(m)))
  <2>1. visible["ledger"] \in Pairs("ledger")
    BY DEF Typed, DiskTyped, Domains
  <2>2. /\ RecoveryMinute(m) \in Minutes
        /\ RecoveryMinute(m) >= SurvivingMinute(visible["ledger"])
    BY <2>1, SurvivingMinuteIs, MinutesAreNumbers DEF RecoveryMinute, Larger
  <2> QED
    BY <1>4, <2>2 DEF RecoverLedger, BeginRecover, Refuses, Recovers
<1>5. "config" \in Domains /\ "ledger" \in Domains /\ Incomplete \in Values("config")
      /\ Values("ledger") = Minutes
  BY MinutesAreNumbers DEF Domains, Values
<1>6. CASE Manage
  BY <1>1, <1>2, <1>3, <1>4, <1>5, <1>6, Zenon DEF Manage, Begins
<1> QED
  BY <1>6 DEF Next

-------------------------------------------------------------------------------
(* What the parts of a step do. *)

LEMMA Faults ==
    ASSUME Typed, NEW d \in Domains, Fault(d)
    PROVE  /\ DOMAIN mgr' = Domains
           /\ \A e \in Domains : e # d => mgr'[e] = mgr[e]
           /\ mgr'[d] \in Managers(d) /\ mgr'[d].faulted = TRUE
           /\ mgr'[d].status = mgr[d].status /\ mgr'[d].gen = mgr[d].gen
           /\ mgr'[d].val = mgr[d].val
<1>1. DOMAIN mgr = Domains /\ mgr[d] \in Managers(d)
  BY DEF Typed, ManagerTyped
<1>2. mgr' = [mgr EXCEPT ![d] = [mgr[d] EXCEPT !.faulted = TRUE]]
  BY DEF Fault
<1>3. mgr'[d] = [mgr[d] EXCEPT !.faulted = TRUE] /\ DOMAIN mgr' = Domains
      /\ \A e \in Domains : e # d => mgr'[e] = mgr[e]
  BY <1>1, <1>2
<1> DEFINE m == mgr[d]
           n == [m EXCEPT !.faulted = TRUE]
<1>4. m \in Managers(d)
  BY <1>1
<1> HIDE DEF m
<1>5. /\ n \in Managers(d) /\ n.faulted = TRUE /\ n.status = m.status
      /\ n.gen = m.gen /\ n.val = m.val
  BY <1>4 DEF Managers
<1> QED
  BY <1>3, <1>5 DEF m

LEMMA Reads ==
    ASSUME Typed, NEW fresh \in SUBSET Domains, Read(fresh)
    PROVE  /\ DOMAIN settled' = Domains /\ DOMAIN doubt' = Domains
           /\ \A d \in Domains :
                 IF d \in fresh /\ mgr'[d].status = "ok"
                 THEN settled'[d] = mgr'[d].val /\ doubt'[d] = {}
                 ELSE settled'[d] = settled[d] /\ doubt'[d] = doubt[d]
           /\ IF "ledger" \in fresh /\ mgr'["ledger"].status = "ok"
              THEN fence' = Larger(fence, mgr'["ledger"].val) ELSE fence' = fence
           /\ wear' \in [left : Nat, sound : BOOLEAN, since : SUBSET Domains]
           /\ wear'.sound = wear.sound /\ wear'.left = wear.left
           /\ wear'.since = wear.since \ fresh
<1>1. wear \in [left : Nat, sound : BOOLEAN, since : SUBSET Domains]
  BY DEF Typed, HistoryTyped
<1>2. wear' = [wear EXCEPT !.since = wear.since \ fresh]
  BY DEF Read
<1>3. /\ wear' \in [left : Nat, sound : BOOLEAN, since : SUBSET Domains]
      /\ wear'.sound = wear.sound /\ wear'.left = wear.left
      /\ wear'.since = wear.since \ fresh
  BY <1>1, <1>2
<1> DEFINE trusted == {d \in fresh : mgr'[d].status = "ok"}
<1>4. /\ settled' = [d \in Domains |-> IF d \in trusted THEN mgr'[d].val ELSE settled[d]]
      /\ doubt' = [d \in Domains |-> IF d \in trusted THEN {} ELSE doubt[d]]
      /\ fence' = IF "ledger" \in trusted THEN Larger(fence, mgr'["ledger"].val) ELSE fence
  BY DEF Read
<1>5. \A d : d \in trusted <=> d \in fresh /\ mgr'[d].status = "ok"
  OBVIOUS
<1> HIDE DEF trusted
<1> QED
  BY <1>3, <1>4, <1>5

LEMMA ReadsHistory ==
    ASSUME Typed, NEW fresh \in SUBSET Domains, Read(fresh),
           \A d \in fresh : mgr'[d] \in Managers(d)
    PROVE  HistoryTyped'
<1>1. \A d \in fresh : mgr'[d].val \in Values(d)
  BY DEF Managers
<1>2. \A d \in Domains : settled'[d] \in Values(d) \cup {None} /\ doubt'[d] \in SUBSET Values(d)
  BY <1>1, Reads DEF Typed, HistoryTyped
<1>3. fence' \in Minutes
  BY <1>1, Reads, MinutesAreNumbers DEF Typed, HistoryTyped, Larger
<1> QED
  BY <1>2, <1>3, Reads DEF HistoryTyped

LEMMA Crashes ==
    ASSUME Typed, Crash
    PROVE  /\ DOMAIN visible' = Domains /\ durable' = visible' /\ op' = NoOp
           /\ \A d \in Domains : /\ visible'[d] \in CrashPairs(d) /\ visible'[d] \in Pairs(d)
                                 /\ unsure'[d] = FALSE
                                 /\ mgr'[d] = Load(d, visible'[d], FALSE)
           /\ DOMAIN mgr' = Domains /\ unsure' \in [Domains -> BOOLEAN]
           /\ Read(Domains)
<1>1. PICK config \in CrashPairs("config"), ledger \in CrashPairs("ledger") :
        visible' = [d \in Domains |-> IF d = "config" THEN config ELSE ledger]
  BY DEF Crash
<1>2. \A d \in Domains : visible'[d] \in CrashPairs(d)
  BY <1>1 DEF Domains
<1>3. \A d \in Domains : CrashPairs(d) \subseteq Pairs(d)
  BY CrashesAreLosses, LossesAre DEF Typed, DiskTyped
<1> QED
  BY <1>1, <1>2, <1>3 DEF Crash

(* One file of one domain has changed, and no store had anything to sync. *)
Changes(d, s) ==
    /\ visible = durable /\ durable' = visible'
    /\ DOMAIN visible' = Domains
    /\ \A e \in Domains : e # d => visible'[e] = visible[e]
    /\ visible'[d] \in Pairs(d)
    /\ visible'[d][Other(s)] = visible[d][Other(s)]

LEMMA OneFileChanges ==
    ASSUME Typed, NEW d \in Domains, NEW s \in Slots, NEW f \in Files(d),
           visible' = [visible EXCEPT ![d][s] = f]
    PROVE  /\ DOMAIN visible' = Domains
           /\ \A e \in Domains : e # d => visible'[e] = visible[e]
           /\ visible'[d] \in Pairs(d) /\ visible'[d][s] = f
           /\ visible'[d][Other(s)] = visible[d][Other(s)]
<1>1. visible[d] \in [Slots -> Files(d)] /\ DOMAIN visible = Domains
  BY DEF Typed, DiskTyped, Pairs
<1>2. visible' = [visible EXCEPT ![d] = [visible[d] EXCEPT ![s] = f]]
  OBVIOUS
<1>3. visible'[d] = [visible[d] EXCEPT ![s] = f] /\ \A e \in Domains : e # d => visible'[e] = visible[e]
  BY <1>1, <1>2
<1>4. DOMAIN visible' = Domains
  BY <1>1, <1>2
<1>5. visible'[d] \in [Slots -> Files(d)] /\ visible'[d][s] = f /\ visible'[d][Other(s)] = visible[d][Other(s)]
  BY <1>1, <1>3, TwoSlots
<1> QED
  BY <1>3, <1>4, <1>5 DEF Pairs

LEMMA WearsOut ==
    ASSUME Typed, NEW d \in Domains, NEW s \in Slots, Wear(d, s)
    PROVE  /\ Changes(d, s)
           /\ visible[d][s].state = "record"
           /\ \/ visible'[d][s] \in {Absent, Corrupt}
              \/ /\ visible'[d][s].state = "unreadable"
                 /\ visible'[d][s].gen = visible[d][s].gen
                 /\ visible'[d][s].val = visible[d][s].val
<1>1. PICK f \in {Absent, Corrupt, [visible[d][s] EXCEPT !.state = "unreadable"]} :
         visible' = [visible EXCEPT ![d][s] = f]
  BY DEF Wear
<1>2. visible[d][s] \in Files(d) /\ visible[d][s].state = "record"
  BY DEF Typed, DiskTyped, Pairs, Wear
<1> DEFINE g == [visible[d][s] EXCEPT !.state = "unreadable"]
<1>3. g \in Files(d) /\ g.state = "unreadable" /\ g.gen = visible[d][s].gen
      /\ g.val = visible[d][s].val
  BY <1>2, Toggled
<1>4. f \in {Absent, Corrupt, g}
  BY <1>1
<1> HIDE DEF g
<1>5. f \in Files(d)
  BY <1>3, <1>4, MadeFiles
<1>6. /\ DOMAIN visible' = Domains
      /\ \A e \in Domains : e # d => visible'[e] = visible[e]
      /\ visible'[d] \in Pairs(d) /\ visible'[d][s] = f
      /\ visible'[d][Other(s)] = visible[d][Other(s)]
  BY <1>1, <1>5, OneFileChanges
<1> QED
  BY <1>2, <1>3, <1>4, <1>6 DEF Changes, Wear

LEMMA Heals ==
    ASSUME Typed, NEW d \in Domains, NEW s \in Slots, Heal(d, s)
    PROVE  /\ Changes(d, s)
           /\ visible[d][s].state = "unreadable" /\ visible'[d][s].state = "record"
           /\ visible'[d][s].gen = visible[d][s].gen
           /\ visible'[d][s].val = visible[d][s].val
<1> DEFINE g == [visible[d][s] EXCEPT !.state = "record"]
<1>1. visible' = [visible EXCEPT ![d][s] = g]
  BY DEF Heal
<1>2. visible[d][s] \in Files(d) /\ visible[d][s].state = "unreadable"
  BY DEF Typed, DiskTyped, Pairs, Heal
<1>3. g \in Files(d) /\ g.state = "record" /\ g.gen = visible[d][s].gen
      /\ g.val = visible[d][s].val
  BY <1>2, Toggled
<1> HIDE DEF g
<1>4. /\ DOMAIN visible' = Domains
      /\ \A e \in Domains : e # d => visible'[e] = visible[e]
      /\ visible'[d] \in Pairs(d) /\ visible'[d][s] = g
      /\ visible'[d][Other(s)] = visible[d][Other(s)]
  BY <1>1, <1>3, OneFileChanges
<1> QED
  BY <1>2, <1>3, <1>4 DEF Changes, Heal

LEMMA ManagerStep ==
    ASSUME Typed, Next
    PROVE  ManagerTyped'
<1> USE DEF Typed
<1>1. ASSUME unsure' \in [Domains -> BOOLEAN], DOMAIN mgr' = Domains,
             \A d \in Domains : \/ mgr'[d] = mgr[d]
                                \/ /\ mgr'[d] \in Managers(d) /\ mgr'[d].status = mgr[d].status
                                   /\ mgr'[d].gen = mgr[d].gen
                                \/ \E p \in Pairs(d), u \in BOOLEAN : mgr'[d] = Load(d, p, u)
      PROVE  ManagerTyped'
  BY <1>1, LoadIsManager DEF ManagerTyped
<1>2. ASSUME UNCHANGED <<mgr, unsure>>
      PROVE  ManagerTyped'
  BY <1>2 DEF ManagerTyped
<1>3. ASSUME NEW d \in Domains, Fault(d), unsure' \in [Domains -> BOOLEAN]
      PROVE  ManagerTyped'
  BY <1>1, <1>3, Faults
<1>4. ASSUME NEW d \in Domains, NEW u \in BOOLEAN, UNCHANGED unsure,
             mgr' = [mgr EXCEPT ![d] = Load(d, visible[d], u)]
      PROVE  ManagerTyped'
  <2>1. visible[d] \in Pairs(d)
    BY DEF DiskTyped
  <2>2. mgr'[d] = Load(d, visible[d], u) /\ \A e \in Domains : e # d => mgr'[e] = mgr[e]
    BY <1>4 DEF ManagerTyped
  <2>3. unsure' \in [Domains -> BOOLEAN] /\ DOMAIN mgr' = Domains
    BY <1>4 DEF ManagerTyped
  <2> QED
    BY <1>1, <2>1, <2>2, <2>3
<1>5. \A d \in Domains : unsure[d] \in BOOLEAN
  BY DEF ManagerTyped
<1>6. ASSUME NEW d \in Domains, NEW v, Begins(d, v)
      PROVE  ManagerTyped'
  BY <1>2, <1>3, <1>6 DEF Begins, Commits, Recovers, Begin, Fault, ManagerTyped
<1>7. Running => op.domain \in Domains
  BY DEF OpTyped, Operations
<1>8. CASE Operate
  <2>1. CASE StageTemp \/ ChangeSlot
    BY <1>2, <2>1 DEF StageTemp, ChangeSlot, Unchanged
  <2>2. CASE SyncSlot
    <3>1. UNCHANGED mgr /\ unsure' \in [Domains -> BOOLEAN]
      BY <2>2 DEF SyncSlot, ManagerTyped
    <3> QED
      BY <1>1, <3>1 DEF ManagerTyped
  <2>3. CASE Confirm
    BY <1>3, <1>4, <1>5, <1>7, <2>3 DEF Confirm, ManagerTyped, Running, Idle
  <2> QED
    BY <1>8, <2>1, <2>2, <2>3 DEF Operate
<1>9. CASE Fail
  <2>1. Fault(op.domain) /\ op.domain \in Domains
    BY <1>7, <1>9 DEF Fail, FailTemp, FailChange, FailSync, FailConfirm, Abort, Running, At, Idle
  <2>2. unsure' \in [Domains -> BOOLEAN]
    BY <1>9 DEF Fail, FailTemp, FailChange, FailSync, FailConfirm, Doubt, ManagerTyped
  <2> QED
    BY <1>3, <2>1, <2>2
<1>10. CASE Suffer
  <2>1. CASE Crash
    BY <1>1, <2>1, Crashes
  <2>2. CASE ~Crash
    BY <1>2, <1>10, <2>2 DEF Suffer, Wear, Heal, history
  <2> QED
    BY <2>1, <2>2
<1>11. ASSUME NEW d \in Domains, Reload(d)
       PROVE  ManagerTyped'
  BY <1>4, <1>5, <1>11 DEF Reload
<1>12. ASSUME NEW d \in Domains, Refuses(d)
       PROVE  ManagerTyped'
  BY <1>3, <1>12 DEF Refuses, Refused, ManagerTyped
<1> QED
  BY <1>6, <1>8, <1>9, <1>10, <1>11, <1>12, NextIs

LEMMA HistoryStep ==
    ASSUME Typed, Next
    PROVE  HistoryTyped'
<1>1. ManagerTyped'
  BY ManagerStep
<1>2. ASSUME NEW fresh \in SUBSET Domains, Read(fresh)
      PROVE  HistoryTyped'
  BY <1>1, <1>2, ReadsHistory DEF ManagerTyped
<1>3. ASSUME UNCHANGED <<wear, settled, doubt, fence>>
      PROVE  HistoryTyped'
  BY <1>3 DEF Typed, HistoryTyped
<1>4. Running => op.domain \in Domains
  BY DEF Typed, OpTyped, Operations
<1>5. ASSUME NEW d \in Domains, Reload(d) \/ Refuses(d)
      PROVE  HistoryTyped'
  BY <1>2, <1>3, <1>5 DEF Reload, Refuses, Refused, history
<1>6. ASSUME NEW d \in Domains, NEW v \in Values(d), Begins(d, v)
      PROVE  HistoryTyped'
  <2>1. /\ doubt' = [doubt EXCEPT ![d] = @ \cup {v}]
        /\ UNCHANGED <<wear, settled, fence>>
    BY <1>6 DEF Begins, Commits, Recovers, Begin
  <2> QED
    BY <2>1 DEF Typed, HistoryTyped
<1>7. CASE Operate \/ Fail
  BY <1>2, <1>3, <1>4, <1>7 DEF Operate, Fail, StageTemp, ChangeSlot, SyncSlot, Confirm, FailTemp,
     FailChange, FailSync, FailConfirm, Abort, Unchanged, history, Running, Idle
<1>8. CASE Suffer
  <2>1. CASE Crash
    BY <1>2, <2>1, Crashes
  <2>2. ASSUME NEW d \in Domains, NEW s \in Slots, Wear(d, s)
        PROVE  HistoryTyped'
    <3>1. /\ wear' = [left |-> wear.left - 1, sound |-> FALSE, since |-> wear.since \cup {d}]
          /\ wear.left > 0 /\ UNCHANGED <<settled, doubt>>
      BY <2>2 DEF Wear
    <3>2. wear' \in [left : Nat, sound : BOOLEAN, since : SUBSET Domains]
      BY <3>1 DEF Typed, HistoryTyped
    <3>3. fence' \in Minutes
      <4>1. CASE d = "config"
        BY <2>2, <4>1 DEF Wear, Typed, HistoryTyped
      <4>2. CASE d = "ledger"
        <5>1. SurvivingMinute(visible'["ledger"]) \in Minutes
          BY <2>2, <4>2, WearsOut, SurvivingMinuteIs DEF Changes
        <5>2. fence' \in {fence, SurvivingMinute(visible'["ledger"])}
          BY <2>2, <4>2 DEF Wear
        <5> QED
          BY <5>1, <5>2 DEF Typed, HistoryTyped
      <4> QED
        BY <4>1, <4>2 DEF Domains
    <3> QED
      BY <3>1, <3>2, <3>3 DEF Typed, HistoryTyped
  <2>3. ASSUME NEW d \in Domains, NEW s \in Slots, Heal(d, s)
        PROVE  HistoryTyped'
    BY <2>3 DEF Heal, history, Typed, HistoryTyped
  <2> QED
    BY <1>8, <2>1, <2>2, <2>3 DEF Suffer
<1> QED
  BY <1>5, <1>6, <1>7, <1>8, NextIs

-------------------------------------------------------------------------------
(* The shape is kept. *)

LEMMA WipeSteps ==
    ASSUME NEW w, GoesOn(w, TRUE)
    PROVE  /\ Len(w) = 4 => Head(w).kind = "remove" /\ Head(w).slot = "a"
           /\ Len(w) = 3 => Head(w).kind = "remove" /\ Head(w).slot = "b"
           /\ Len(w) = 2 => Head(w).slot = "a"
<1>1. Len(Rewrite) = 3 /\ Len(Wipe) = 4
  BY StepsAre, Lists, GenerationAssumption DEF Rewrite, Wipe, Slots
<1>2. Head(w).kind \in {"publish", "remove"}
  BY DEF GoesOn, Steps
<1>3. Head(w).kind = "remove" =>
        (w = Rewrite /\ Head(w).slot = "b") \/ (w = Wipe /\ Head(w).slot = "a")
  BY DEF GoesOn
<1>4. Head(w).kind = "publish" => Len(w) <= 2 /\ (Len(w) = 2 => Head(w).slot = "a")
  BY DEF GoesOn
<1>5. \/ Head(w).kind = "remove" /\ Len(w) = 3 /\ Head(w).slot = "b"
      \/ Head(w).kind = "remove" /\ Len(w) = 4 /\ Head(w).slot = "a"
      \/ Len(w) <= 2 /\ (Len(w) = 2 => Head(w).slot = "a")
  BY <1>1, <1>2, <1>3, <1>4
<1>6. Len(w) \in 1 .. 4
  BY DEF GoesOn
<1> DEFINE n == Len(w)
           removes == Head(w).kind = "remove"
           first == Head(w).slot = "a"
           second == Head(w).slot = "b"
<1>7. /\ (removes /\ n = 3 /\ second) \/ (removes /\ n = 4 /\ first)
           \/ (n <= 2 /\ (n = 2 => first))
      /\ n \in 1 .. 4
  BY <1>5, <1>6
<1> HIDE DEF n, removes, first, second
<1>8. (n = 4 => removes /\ first) /\ (n = 3 => removes /\ second) /\ (n = 2 => first)
  BY <1>7
<1> QED
  BY <1>8 DEF n, removes, first, second

LEMMA StepIs ==
    ASSUME Typed, Running, Progress, Working
    PROVE  /\ op \in Operations /\ op.domain \in Domains /\ op.val \in Values(op.domain)
           /\ GoesOn(op.work, op.wipes)
           /\ Step \in Steps /\ Step.slot \in Slots /\ Step.kind \in {"publish", "remove"}
           /\ Written \in Files(op.domain)
           /\ Step.kind = "remove" => Written = Absent
           /\ Step.kind = "publish" =>
                /\ Step.gen \in 1 .. MaxGeneration
                /\ Written = Record(Step.gen, op.val) /\ Written.state = "record"
                /\ Written.gen = Step.gen /\ Written.val = op.val
<1>1. op \in Operations /\ op.val \in Values(op.domain)
  BY DEF Typed, OpTyped
<1>2. op.domain \in Domains /\ op.wipes \in BOOLEAN
  BY <1>1 DEF Operations
<1>3. GoesOn(op.work, op.wipes)
  BY <1>2, PlansGoOn DEF Progress, Working
<1>4. Step \in Steps
  BY <1>3 DEF GoesOn, Step
<1>5. Step.slot \in Slots /\ Step.kind \in {"publish", "remove"}
  BY <1>4 DEF Steps
<1>6. Step.kind = "publish" => Step.gen \in 1 .. MaxGeneration
  BY <1>3 DEF GoesOn, Step
<1>7. op.val \in Payloads(op.domain)
  BY <1>1, <1>2, ValuesAreCanonical
<1>8. Step.kind = "publish" => Written = Record(Step.gen, op.val)
  BY <1>5 DEF Written
<1>9. Step.kind = "remove" => Written = Absent
  BY DEF Written
<1> QED
  BY <1>1, <1>2, <1>3, <1>4, <1>5, <1>6, <1>7, <1>8, <1>9, MadeFiles

LEMMA IdleHasNoWork == Idle => ~Working /\ op.domain \notin Domains /\ op.step = "next"
  BY NoOpIs DEF Idle, Working

LEMMA DiskRests ==
    ASSUME DiskTyped, visible' = visible, durable' \in {durable, visible}
    PROVE  DiskTyped'
  BY TwoSlots DEF DiskTyped, Slots

LEMMA SlotChanges ==
    ASSUME Typed, Running, Progress, Working, Synced(op.domain), visible' = Renamed,
           durable' = durable
    PROVE  /\ DiskTyped'
           /\ \A e \in Domains : e # op.domain => visible'[e] = visible[e]
           /\ visible'[op.domain][Step.slot] = Written
           /\ visible'[op.domain][Other(Step.slot)] = Beside
           /\ Beside = durable[op.domain][Other(Step.slot)]
<1> DEFINE d == op.domain
           s == Step.slot
           f == Written
<1>1. d \in Domains /\ s \in Slots /\ f \in Files(d)
  BY StepIs
<1>2. visible' = [visible EXCEPT ![d][s] = f]
  BY DEF Renamed
<1>3. Beside = visible[d][Other(s)]
  BY DEF Beside
<1> HIDE DEF d, s, f
<1>4. /\ DOMAIN visible' = Domains
      /\ \A e \in Domains : e # d => visible'[e] = visible[e]
      /\ visible'[d] \in Pairs(d) /\ visible'[d][s] = f
      /\ visible'[d][Other(s)] = visible[d][Other(s)]
  BY <1>1, <1>2, OneFileChanges
<1>5. durable[d][Other(s)] = visible[d][Other(s)]
  BY DEF Synced, d
<1>6. DiskTyped'
  <2>1. \A e \in Domains : \E t \in Slots : visible'[e][Other(t)] = durable'[e][Other(t)]
    BY <1>1, <1>4, <1>5 DEF Typed, DiskTyped
  <2> QED
    BY <1>1, <1>4, <2>1 DEF Typed, DiskTyped
<1> QED
  BY <1>3, <1>4, <1>5, <1>6 DEF d, s, f

LEMMA BegunProgresses ==
    ASSUME ShapeInv, NEW d \in Domains, NEW v \in Values(d), Begins(d, v)
    PROVE  /\ OpTyped' /\ Progress' /\ Running' /\ Working'
           /\ UNCHANGED <<visible, durable, unsure, wear, settled, fence>>
           /\ op'.domain = d /\ op'.val = v /\ op'.step = "next"
           /\ doubt' = [doubt EXCEPT ![d] = @ \cup {v}]
           /\ \/ op'.work = CommitPlan(visible[d], mgr[d].gen, FirstProvision(d))
                 /\ Commits(d, v) /\ mgr' = mgr
              \/ op'.work = ResealPlan(visible[d]) /\ Recovers(d, v)
                 /\ mgr' = [mgr EXCEPT ![d].faulted = TRUE]
<1>1. visible[d] \in Pairs(d) /\ mgr[d].gen \in 0 .. MaxGeneration
  BY DEF ShapeInv, Typed, DiskTyped, ManagerTyped, Managers
<1>2. ASSUME NEW kind \in Kinds, NEW plan, Begin(kind, d, v, plan), plan # <<>>,
             Planned(plan, plan[1].kind = "remove"),
             plan[Len(plan)].gen \in 1 .. MaxGeneration,
             Head(plan).kind = "remove" => Synced(d),
             (plan[1].kind = "remove") => Len(plan) = 4
      PROVE  /\ OpTyped' /\ Progress' /\ Running' /\ Working'
             /\ UNCHANGED <<visible, durable, unsure, wear, settled, fence>>
             /\ op'.domain = d /\ op'.val = v /\ op'.step = "next" /\ op'.work = plan
             /\ doubt' = [doubt EXCEPT ![d] = @ \cup {v}]
             /\ mgr' = IF kind = "recover" THEN [mgr EXCEPT ![d].faulted = TRUE] ELSE mgr
  <2> DEFINE wipes == plan[1].kind = "remove"
             gen == plan[Len(plan)].gen
  <2>1. /\ op' = [kind |-> kind, domain |-> d, val |-> v, gen |-> gen, wipes |-> wipes,
                  work |-> plan, step |-> "next"]
        /\ doubt' = [doubt EXCEPT ![d] = @ \cup {v}]
        /\ UNCHANGED <<visible, durable, unsure, wear, settled, fence>>
        /\ mgr' = IF kind = "recover" THEN [mgr EXCEPT ![d].faulted = TRUE] ELSE mgr
    BY <1>2 DEF Begin
  <2>2. wipes \in BOOLEAN /\ gen \in 1 .. MaxGeneration /\ Planned(plan, wipes)
        /\ (wipes => Len(plan) = 4)
    BY <1>2
  <2> HIDE DEF wipes, gen
  <2>3. plan \in Seq(Steps) /\ Len(plan) \in 0 .. 4
    BY <2>2, PlansAreSteps
  <2>4. v \in Values("config") \cup Values("ledger")
    BY DEF Domains
  <2>5. op' \in Operations
    BY <2>1, <2>2, <2>3, <2>4 DEF Operations, Stages
  <2>6. /\ op'.domain = d /\ op'.val = v /\ op'.step = "next" /\ op'.work = plan
        /\ op'.wipes = wipes
    BY <2>1
  <2>7. Running' /\ Working'
    BY <1>2, <2>6, NoOpIs DEF Running, Working
  <2>8. v \in doubt'[d]
    BY <2>1 DEF ShapeInv, Typed, HistoryTyped
  <2>9. Step' = Head(plan)
    BY <2>6 DEF Step
  <2>10. Progress'
    BY <1>2, <2>1, <2>2, <2>3, <2>6, <2>7, <2>8, <2>9 DEF Progress, Synced
  <2> QED
    BY <2>1, <2>5, <2>6, <2>7, <2>10 DEF OpTyped
<1>3. ASSUME Commits(d, v)
      PROVE  LET plan == CommitPlan(visible[d], mgr[d].gen, FirstProvision(d)) IN
             /\ Begin("commit", d, v, plan) /\ plan # <<>>
             /\ Planned(plan, plan[1].kind = "remove")
             /\ plan[Len(plan)].gen \in 1 .. MaxGeneration
             /\ Head(plan).kind = "remove" => Synced(d)
             /\ (plan[1].kind = "remove") => Len(plan) = 4
  <2> DEFINE plan == CommitPlan(visible[d], mgr[d].gen, FirstProvision(d))
  <2>1. Begin("commit", d, v, plan) /\ Accepts(visible[d], mgr[d].gen)
    BY <1>3 DEF Commits
  <2>2. FirstProvision(d) \in BOOLEAN /\ (FirstProvision(d) => mgr[d].gen = 0)
    BY DEF FirstProvision
  <2>3. /\ Planned(plan, FALSE) /\ plan # <<>> /\ plan[1].kind = "publish"
        /\ Head(plan).kind = "publish" /\ plan[Len(plan)].gen \in 1 .. MaxGeneration
    BY <1>1, <2>1, <2>2, CommitPlans
  <2> HIDE DEF plan
  <2>4. (plan[1].kind = "remove") = FALSE
    BY <2>3
  <2>5. Planned(plan, plan[1].kind = "remove")
    BY <2>3, <2>4
  <2> QED
    BY <2>1, <2>3, <2>4, <2>5 DEF plan
<1>4. ASSUME Recovers(d, v)
      PROVE  LET plan == ResealPlan(visible[d]) IN
             /\ Begin("recover", d, v, plan) /\ plan # <<>>
             /\ Planned(plan, plan[1].kind = "remove")
             /\ plan[Len(plan)].gen \in 1 .. MaxGeneration
             /\ Head(plan).kind = "remove" => Synced(d)
             /\ (plan[1].kind = "remove") => Len(plan) = 4
  <2> DEFINE plan == ResealPlan(visible[d])
  <2>1. Begin("recover", d, v, plan) /\ CanReseal(visible[d])
    BY <1>4 DEF Recovers
  <2>2. /\ Planned(plan, plan[1].kind = "remove") /\ plan # <<>>
        /\ plan[Len(plan)].gen \in 1 .. MaxGeneration
        /\ InvalidSlots(visible[d]) = Slots => plan = Wipe
        /\ InvalidSlots(visible[d]) # Slots =>
              plan[1].kind # "remove" /\ Head(plan).kind = "publish"
    BY <1>1, <2>1, ResealPlans
  <2>3. InvalidSlots(visible[d]) = Slots => Synced(d)
    <3>1. InvalidSlots(visible[d]) = Slots => \A s \in Slots : visible[d][s] = durable[d][s]
      BY DEF InvalidSlots, ShapeInv, Unsettled
    <3> QED
      BY <3>1 DEF Synced, ShapeInv, Typed, DiskTyped, Pairs
  <2>4. Len(Wipe) = 4
    BY StepsAre, Lists, GenerationAssumption DEF Wipe, Slots
  <2> HIDE DEF plan
  <2> QED
    BY <2>1, <2>2, <2>3, <2>4 DEF plan
<1>5. "commit" \in Kinds /\ "recover" \in Kinds /\ "commit" # "recover"
  BY DEF Kinds
<1>6. CASE Commits(d, v)
  <2> DEFINE plan == CommitPlan(visible[d], mgr[d].gen, FirstProvision(d))
  <2>1. /\ Begin("commit", d, v, plan) /\ plan # <<>>
        /\ Planned(plan, plan[1].kind = "remove")
        /\ plan[Len(plan)].gen \in 1 .. MaxGeneration
        /\ Head(plan).kind = "remove" => Synced(d)
        /\ (plan[1].kind = "remove") => Len(plan) = 4
    BY <1>3, <1>6
  <2> HIDE DEF plan
  <2> QED
    BY <1>2, <1>5, <1>6, <2>1 DEF plan
<1>7. CASE Recovers(d, v)
  <2> DEFINE plan == ResealPlan(visible[d])
  <2>1. /\ Begin("recover", d, v, plan) /\ plan # <<>>
        /\ Planned(plan, plan[1].kind = "remove")
        /\ plan[Len(plan)].gen \in 1 .. MaxGeneration
        /\ Head(plan).kind = "remove" => Synced(d)
        /\ (plan[1].kind = "remove") => Len(plan) = 4
    BY <1>4, <1>7
  <2> HIDE DEF plan
  <2> QED
    BY <1>2, <1>5, <1>7, <2>1 DEF plan
<1> QED
  BY <1>6, <1>7 DEF Begins

LEMMA StagedProgresses ==
    ASSUME ShapeInv, StageTemp
    PROVE  /\ Running /\ Working /\ Progress /\ Running' /\ Working'
           /\ OpTyped' /\ Progress' /\ Step' = Step /\ Step.kind = "publish"
           /\ op'.domain = op.domain /\ op'.val = op.val /\ op'.work = op.work
           /\ visible' = visible /\ durable' = visible
           /\ UNCHANGED <<unsure, mgr, wear, settled, doubt, fence>>
<1>1. Running /\ Working /\ Progress
  BY DEF ShapeInv, StageTemp, At, Idle, Running, Working
<1>2. op \in Operations /\ op.val \in Values(op.domain)
  BY <1>1, StepIs DEF ShapeInv
<1>3. op' = [op EXCEPT !.step = "staged"]
  BY DEF StageTemp
<1>4. /\ op' \in Operations /\ op'.kind = op.kind /\ op'.domain = op.domain /\ op'.val = op.val
      /\ op'.gen = op.gen /\ op'.wipes = op.wipes /\ op'.work = op.work
      /\ op'.step = "staged"
  BY <1>2, <1>3 DEF Operations, Stages
<1>5. /\ Running' /\ Working' /\ Step' = Step
  BY <1>1, <1>4, NoOpIs DEF Running, Working, Step
<1>6. /\ visible' = visible /\ durable' = visible /\ Step.kind = "publish"
      /\ UNCHANGED <<unsure, mgr, wear, settled, doubt, fence>>
  BY DEF StageTemp, Unchanged, history
<1>7. op.step = "next"
  BY DEF StageTemp, At
<1>8. Progress'
  BY <1>1, <1>4, <1>5, <1>6, <1>7 DEF Progress, Gone
<1> QED
  BY <1>1, <1>2, <1>4, <1>5, <1>6, <1>8 DEF OpTyped

LEMMA ReadyToChange ==
    ASSUME ShapeInv, At(IF Step.kind = "remove" THEN "next" ELSE "staged")
    PROVE  /\ Running /\ Working /\ Progress /\ Synced(op.domain)
           /\ op.step # "published"
  BY DEF ShapeInv, At, Idle, Running, Working, Progress, Synced

LEMMA ChangedProgresses ==
    ASSUME ShapeInv, ChangeSlot
    PROVE  /\ Running /\ Working /\ Progress /\ Synced(op.domain) /\ Running' /\ Working'
           /\ OpTyped' /\ Progress' /\ Step' = Step
           /\ op'.domain = op.domain /\ op'.val = op.val /\ op'.work = op.work
           /\ op'.step = "published"
           /\ visible' = Renamed /\ durable' = durable
           /\ UNCHANGED <<unsure, mgr, wear, settled, doubt, fence>>
<1>1. Running /\ Working /\ Progress /\ Synced(op.domain) /\ op.step # "published"
  BY ReadyToChange DEF ChangeSlot
<1>2. op \in Operations /\ op.val \in Values(op.domain) /\ op.domain \in Domains
      /\ Step.slot \in Slots /\ GoesOn(op.work, op.wipes)
  BY <1>1, StepIs DEF ShapeInv
<1>3. op' = [op EXCEPT !.step = "published"]
  BY DEF ChangeSlot
<1>4. /\ op' \in Operations /\ op'.kind = op.kind /\ op'.domain = op.domain /\ op'.val = op.val
      /\ op'.gen = op.gen /\ op'.wipes = op.wipes /\ op'.work = op.work
      /\ op'.step = "published"
  BY <1>2, <1>3 DEF Operations, Stages
<1>5. /\ Running' /\ Working' /\ Step' = Step
  BY <1>1, <1>4, NoOpIs DEF Running, Working, Step
<1>6. Written' = Written
  BY <1>4, <1>5 DEF Written
<1>7. /\ visible' = Renamed /\ durable' = durable
      /\ UNCHANGED <<unsure, mgr, wear, settled, doubt, fence>>
  BY DEF ChangeSlot, Unchanged, history
<1>8. /\ visible'[op.domain][Step.slot] = Written
      /\ visible'[op.domain][Other(Step.slot)] = Beside
      /\ Beside = durable[op.domain][Other(Step.slot)]
  BY <1>1, <1>7, SlotChanges DEF ShapeInv
<1>9. Beside' = Beside
  BY <1>4, <1>5, <1>8 DEF Beside
<1>10. ASSUME op.wipes, Len(op.work) = 3
       PROVE  Gone("a")'
  <2>1. Step.slot = "b"
    BY <1>2, <1>10, WipeSteps DEF Step
  <2>2. Gone("a")
    BY <1>1, <1>10 DEF Progress
  <2> QED
    BY <1>4, <1>7, <1>8, <2>1, <2>2, TwoSlots DEF Gone, Beside
<1>11. ASSUME op.wipes, Len(op.work) = 2
       PROVE  Gone("b")'
  <2>1. Step.slot = "a"
    BY <1>2, <1>11, WipeSteps DEF Step
  <2>3. Gone("b")
    BY <1>1, <1>11 DEF Progress
  <2> QED
    BY <1>4, <1>7, <1>8, <2>1, <2>3, TwoSlots DEF Gone, Beside
<1>12. Progress'
  <2>1. Planned(op'.work, op'.wipes) /\ op'.val \in doubt'[op'.domain]
    BY <1>1, <1>4, <1>7 DEF Progress
  <2>2. /\ visible'[op'.domain][Step'.slot] = Written'
        /\ Beside' = durable'[op'.domain][Other(Step'.slot)]
    BY <1>4, <1>5, <1>6, <1>7, <1>8, <1>9
  <2> QED
    BY <1>4, <1>5, <1>10, <1>11, <2>1, <2>2 DEF Progress
<1> QED
  BY <1>1, <1>2, <1>4, <1>5, <1>7, <1>12 DEF OpTyped

LEMMA SyncedProgresses ==
    ASSUME ShapeInv, SyncSlot
    PROVE  /\ Running /\ Working /\ Progress /\ Running'
           /\ OpTyped' /\ Progress' /\ op'.domain = op.domain /\ op'.val = op.val
           /\ op'.work = Tail(op.work) /\ op'.step = "next"
           /\ visible[op.domain][Step.slot] = Written
           /\ visible' = visible /\ durable' = visible
           /\ \A d \in Domains : unsure'[d] => unsure[d]
           /\ UNCHANGED <<mgr, wear, settled, doubt, fence>>
<1>1. Running /\ Working /\ Progress /\ op.step = "published"
  BY DEF ShapeInv, SyncSlot, At, Idle, Running, Working
<1>2. op \in Operations /\ op.val \in Values(op.domain) /\ op.domain \in Domains
      /\ Step.slot \in Slots /\ GoesOn(op.work, op.wipes)
      /\ Step.kind \in {"publish", "remove"} /\ (Step.kind = "remove" => Written = Absent)
  BY <1>1, StepIs DEF ShapeInv
<1>3. op' = [op EXCEPT !.step = "next", !.work = Tail(op.work)]
  BY DEF SyncSlot
<1>4. Planned(Tail(op.work), op.wipes) /\ Tail(op.work) \in Seq(Steps)
  BY <1>2, PlansAreSteps DEF GoesOn, Operations
<1>5. /\ op' \in Operations /\ op'.kind = op.kind /\ op'.domain = op.domain /\ op'.val = op.val
      /\ op'.gen = op.gen /\ op'.wipes = op.wipes /\ op'.work = Tail(op.work)
      /\ op'.step = "next"
  BY <1>2, <1>3, <1>4 DEF Operations, Stages
<1>6. Running'
  BY <1>2, <1>5, NoOpIs DEF Running
<1>7. /\ visible' = visible /\ durable' = visible
      /\ UNCHANGED <<mgr, wear, settled, doubt, fence>>
  BY DEF SyncSlot, history
<1>8. \A d \in Domains : unsure'[d] => unsure[d]
  BY DEF SyncSlot, ShapeInv, Typed, ManagerTyped
<1>9. visible[op.domain][Step.slot] = Written
  BY <1>1 DEF Progress
<1>11. Len(Tail(op.work)) = Len(op.work) - 1 /\ Len(op.work) \in 1 .. 4
  BY <1>2 DEF GoesOn
<1>12. ASSUME op.wipes, Len(Tail(op.work)) = 3
       PROVE  Gone("a")'
  <2>1. Step.kind = "remove" /\ Step.slot = "a"
    <3>1. Len(op.work) = 4
      BY <1>11, <1>12
    <3>2. op.wipes = TRUE
      BY <1>2, <1>12 DEF Operations
    <3>3. GoesOn(op.work, TRUE)
      BY <1>2, <3>2
    <3> QED
      BY <3>1, <3>3, WipeSteps DEF Step
  <2> QED
    BY <1>2, <1>5, <1>7, <1>9, <2>1 DEF Gone
<1>13. ASSUME op.wipes, Len(Tail(op.work)) = 2
       PROVE  Gone("b")'
  <2>1. Step.kind = "remove" /\ Step.slot = "b"
    <3>1. Len(op.work) = 3
      BY <1>11, <1>13
    <3>2. op.wipes = TRUE
      BY <1>2, <1>13 DEF Operations
    <3>3. GoesOn(op.work, TRUE)
      BY <1>2, <3>2
    <3> QED
      BY <3>1, <3>3, WipeSteps DEF Step
  <2> QED
    BY <1>2, <1>5, <1>7, <1>9, <2>1 DEF Gone
<1>14. ASSUME op.wipes, Len(Tail(op.work)) = 1
       PROVE  Gone("b")'
  <2>1. Gone("b")
    BY <1>1, <1>11, <1>14 DEF Progress
  <2> QED
    BY <1>5, <1>7, <2>1 DEF Gone
<1>15. Progress'
  BY <1>1, <1>4, <1>5, <1>7, <1>12, <1>13, <1>14 DEF Progress, Synced
<1> QED
  BY <1>1, <1>2, <1>5, <1>6, <1>7, <1>8, <1>9, <1>15 DEF OpTyped

LEMMA ShapeStep ==
    ASSUME ShapeInv, [Next]_vars
    PROVE  ShapeInv'
<1>1. CASE UNCHANGED vars
  BY <1>1 DEF vars, ShapeInv, Typed, DiskTyped, ManagerTyped, HistoryTyped, OpTyped, Progress,
     Unsettled, Running, Working, Synced, Beside, Gone, Step, Written, Changing
<1>2. CASE Next
  <2> USE DEF ShapeInv
  <2>1. ManagerTyped' /\ HistoryTyped'
    BY <1>2, ManagerStep, HistoryStep
  <2>2. ASSUME DiskTyped', OpTyped', Running' => Progress', \A d \in Domains : Unsettled(d)'
        PROVE  ShapeInv'
    BY <2>1, <2>2 DEF Typed
  <2>3. ASSUME op' = NoOp, DiskTyped', \A d \in Domains : Unsettled(d)'
        PROVE  ShapeInv'
    BY <2>2, <2>3 DEF OpTyped, Running
  <2>4. ASSUME visible' = durable'
        PROVE  \A d \in Domains : Unsettled(d)'
    BY <2>4 DEF Unsettled, Synced
  <2>5. \A d \in Domains : unsure[d] \in BOOLEAN
    BY DEF Typed, ManagerTyped
  <2>6. ASSUME UNCHANGED <<visible, durable, unsure>>, \A d \in Domains : ~Changing(d)
        PROVE  DiskTyped' /\ \A d \in Domains : Unsettled(d)'
    BY <2>6, DiskRests DEF Unsettled, Synced, Typed
  <2>7. ASSUME NEW d \in Domains, Reload(d) \/ Refuses(d)
        PROVE  ShapeInv'
    <3>1. op' = NoOp /\ Idle /\ UNCHANGED <<visible, durable, unsure>>
      BY <2>7 DEF Reload, Refuses, Refused, Idle
    <3> QED
      BY <2>3, <2>6, <3>1, IdleHasNoWork DEF Changing
  <2>8. ASSUME NEW d \in Domains, NEW v \in Values(d), Begins(d, v)
        PROVE  ShapeInv'
    <3>1. OpTyped' /\ Progress' /\ UNCHANGED <<visible, durable, unsure>>
      BY <2>8, BegunProgresses
    <3>2. Idle
      BY <2>8 DEF Begins, Commits, Recovers
    <3> QED
      BY <2>2, <2>6, <3>1, <3>2, IdleHasNoWork DEF Changing
  <2>9. CASE StageTemp
    <3>1. OpTyped' /\ Progress' /\ visible' = visible /\ durable' = visible
      BY <2>9, StagedProgresses
    <3> QED
      BY <2>2, <2>4, <3>1, DiskRests DEF Typed
  <2>10. CASE ChangeSlot
    <3>1. /\ Running /\ Working /\ Progress /\ Synced(op.domain) /\ OpTyped' /\ Progress'
          /\ visible' = Renamed /\ durable' = durable /\ UNCHANGED unsure
          /\ op'.domain = op.domain /\ op'.step = "published" /\ Working'
      BY <2>10, ChangedProgresses
    <3>2. /\ DiskTyped' /\ \A e \in Domains : e # op.domain => visible'[e] = visible[e]
          /\ visible'[op.domain][Step.slot] = Written
          /\ visible'[op.domain][Other(Step.slot)] = durable[op.domain][Other(Step.slot)]
      BY <3>1, SlotChanges
    <3>3. Written.state \in {"record", "absent"} /\ Step.slot \in Slots /\ op.domain \in Domains
      BY <3>1, StepIs, MadeFiles
    <3>4. Unsettled(op.domain)'
      BY <3>1, <3>2, <3>3, TwoSlots DEF Unsettled, Changing
    <3>5. ASSUME NEW e \in Domains, e # op.domain PROVE Unsettled(e)'
      BY <3>1, <3>2, <3>5 DEF Unsettled, Changing, Synced
    <3> QED
      BY <2>2, <3>1, <3>2, <3>4, <3>5
  <2>11. CASE SyncSlot
    <3>1. OpTyped' /\ Progress' /\ visible' = visible /\ durable' = visible
      BY <2>11, SyncedProgresses
    <3> QED
      BY <2>2, <2>4, <3>1, DiskRests DEF Typed
  <2>12. CASE Confirm \/ FailConfirm
    <3>1. op' = NoOp /\ UNCHANGED <<visible, durable>> /\ Running /\ ~Working
      BY <2>12 DEF Confirm, FailConfirm, Abort, Idle, Running, Working
    <3>2. visible' = durable'
      BY <3>1 DEF Progress
    <3> QED
      BY <2>3, <2>4, <3>1, <3>2, DiskRests DEF Typed
  <2>13. CASE FailTemp
    <3>1. op' = NoOp /\ visible' = visible /\ durable' \in {durable, visible}
          /\ UNCHANGED unsure /\ op.step = "next"
      BY <2>13 DEF FailTemp, Abort, At
    <3>2. \A d \in Domains : Unsettled(d)'
      BY <3>1 DEF Unsettled, Synced, Changing
    <3> QED
      BY <2>3, <3>1, <3>2, DiskRests DEF Typed
  <2>14. CASE FailChange
    <3>1. /\ op' = NoOp /\ visible' \in {visible, Renamed} /\ durable' = durable
          /\ unsure' = [unsure EXCEPT ![op.domain] = TRUE]
          /\ Running /\ Working /\ Progress /\ Synced(op.domain) /\ op.step # "published"
      BY <2>14, ReadyToChange DEF FailChange, Abort, Doubt
    <3>2. op.domain \in Domains /\ Step.slot \in Slots
          /\ Written.state \in {"record", "absent"}
      BY <3>1, StepIs, MadeFiles
    <3>3. unsure'[op.domain] /\ \A d \in Domains : d # op.domain => unsure'[d] = unsure[d]
      BY <3>1, <3>2 DEF Typed, ManagerTyped
    <3>6. PICK mine \in Domains, s \in Slots : mine = op.domain /\ s = Step.slot
      BY <3>2
    <3>4. CASE visible' = visible
      <4>1. DiskTyped'
        BY <3>1, <3>4, DiskRests DEF Typed
      <4>2. \A d \in Domains : Unsettled(d)'
        BY <3>1, <3>2, <3>3, <3>4 DEF Unsettled, Synced, Changing
      <4> QED
        BY <2>3, <3>1, <4>1, <4>2
    <3>5. CASE visible' = Renamed
      <4>1. /\ DiskTyped' /\ \A e \in Domains : e # op.domain => visible'[e] = visible[e]
            /\ visible'[op.domain][Step.slot] = Written
            /\ visible'[op.domain][Other(Step.slot)] = durable[op.domain][Other(Step.slot)]
        BY <3>1, <3>5, SlotChanges
      <4>2. Unsettled(mine)'
        BY <3>1, <3>2, <3>3, <3>6, <4>1, TwoSlots DEF Unsettled
      <4>3. ASSUME NEW e \in Domains, e # mine PROVE Unsettled(e)'
        BY <3>1, <3>3, <3>6, <4>1, <4>3 DEF Unsettled, Changing, Synced
      <4> QED
        BY <2>3, <3>1, <4>1, <4>2, <4>3
    <3> QED
      BY <3>1, <3>4, <3>5
  <2>15. CASE FailSync
    <3>1. /\ op' = NoOp /\ visible' = visible /\ durable' \in {durable, visible}
          /\ unsure' = [unsure EXCEPT ![op.domain] = TRUE] /\ Running /\ Working
      BY <2>15 DEF FailSync, Abort, Doubt, At, Idle, Running, Working
    <3>2. op.domain \in Domains
      BY <3>1 DEF Typed, OpTyped, Operations
    <3>3. unsure'[op.domain] /\ \A d \in Domains : d # op.domain => unsure'[d] = unsure[d]
      BY <3>1, <3>2 DEF Typed, ManagerTyped
    <3>4. \A d \in Domains : Unsettled(d)'
      BY <3>1, <3>3 DEF Unsettled, Synced, Changing
    <3> QED
      BY <2>3, <3>1, <3>4, DiskRests DEF Typed
  <2>16. CASE Crash
    <3>1. DiskTyped' /\ op' = NoOp /\ visible' = durable'
      BY <2>16, Crashes DEF DiskTyped, Slots
    <3> QED
      BY <2>3, <2>4, <3>1
  <2>17. ASSUME NEW d \in Domains, NEW s \in Slots, Wear(d, s) \/ Heal(d, s)
         PROVE  ShapeInv'
    <3>1. Changes(d, s)
      BY <2>17, WearsOut, Heals
    <3>2. op' = NoOp
      BY <2>17 DEF Wear, Heal, Idle, history
    <3>3. DiskTyped'
      BY <3>1 DEF Changes, Typed, DiskTyped, Slots
    <3>4. visible' = durable'
      BY <3>1 DEF Changes
    <3> QED
      BY <2>3, <2>4, <3>2, <3>3, <3>4
  <2> QED
    BY <1>2, <2>7, <2>8, <2>9, <2>10, <2>11, <2>12, <2>13, <2>14, <2>15, <2>16, <2>17, NextIs
       DEF Operate, Fail, Suffer
<1> QED
  BY <1>1, <1>2

LEMMA InitShape == Init => ShapeInv
<1> SUFFICES ASSUME Init PROVE ShapeInv
  OBVIOUS
<1>1. PICK device \in InitialDevices :
        /\ visible = [d \in Domains |->
                        IF d = "config" THEN device.config
                        ELSE IF device.config = EmptyPair THEN EmptyPair
                        ELSE [s \in Slots |-> Record(IF s = "a" THEN 1 ELSE 2, 0)]]
        /\ wear = [left |-> device.wear, sound |-> TRUE, since |-> {}]
  BY DEF Init
<1>2. device.config \in Pairs("config") /\ device.wear \in Nat
  BY InitialAssumption
<1> DEFINE fresh == [s \in Slots |-> Record(IF s = "a" THEN 1 ELSE 2, 0)]
<1>3. fresh \in Pairs("ledger") /\ EmptyPair \in Pairs("ledger")
  <2>1. /\ Record(1, 0) \in Files("ledger") /\ Record(2, 0) \in Files("ledger")
        /\ EmptyPair \in Pairs("ledger")
    BY MadeFiles, MinutesAreNumbers, GenerationAssumption DEF Domains
  <2> QED
    BY <2>1 DEF Pairs
<1>4. /\ DOMAIN visible = Domains /\ durable = visible
      /\ \A d \in Domains : visible[d] \in Pairs(d)
  <2> HIDE DEF fresh
  <2>1. visible = [d \in Domains |-> IF d = "config" THEN device.config
                      ELSE IF device.config = EmptyPair THEN EmptyPair ELSE fresh]
    BY <1>1 DEF fresh
  <2> QED
    BY <1>2, <1>3, <2>1 DEF Init, Domains
<1>5. /\ unsure = [d \in Domains |-> FALSE] /\ mgr = [d \in Domains |-> Load(d, visible[d], FALSE)]
      /\ op = NoOp /\ fence = 0 /\ doubt = [d \in Domains |-> {}]
      /\ settled = [d \in Domains |-> IF mgr[d].status = "ok" THEN mgr[d].val ELSE None]
  BY DEF Init
<1>6. ManagerTyped
  <2>1. \A d \in Domains : mgr[d] = Load(d, visible[d], FALSE)
    BY <1>5
  <2>2. \A d \in Domains : /\ mgr[d] \in Managers(d)
                           /\ mgr[d].status = "ok" => mgr[d].gen > 0
                           /\ mgr[d].status = "first_boot" => mgr[d].gen = 0
    <3> TAKE d \in Domains
    <3> DEFINE loaded == Load(d, visible[d], FALSE)
    <3>1. visible[d] \in Pairs(d) /\ FALSE \in BOOLEAN /\ mgr[d] = loaded
      BY <1>4, <2>1
    <3>2. /\ loaded \in Managers(d) /\ (loaded.status = "ok" => loaded.gen > 0)
          /\ loaded.status = "first_boot" => loaded.gen = 0
      BY <3>1, LoadIsManager
    <3> HIDE DEF loaded
    <3> QED
      BY <3>1, <3>2
  <2>3. unsure \in [Domains -> BOOLEAN] /\ DOMAIN mgr = Domains
    BY <1>5
  <2> QED
    BY <2>2, <2>3 DEF ManagerTyped
<1>7. HistoryTyped
  <2>1. wear \in [left : Nat, sound : BOOLEAN, since : SUBSET Domains]
    BY <1>1, <1>2
  <2>2. \A d \in Domains : mgr[d].val \in Values(d)
    BY <1>6 DEF ManagerTyped, Managers
  <2> QED
    BY <1>5, <2>1, <2>2, MinutesAreNumbers DEF HistoryTyped
<1>8. DiskTyped
  BY <1>4 DEF DiskTyped, Slots
<1> QED
  BY <1>4, <1>5, <1>6, <1>7, <1>8 DEF ShapeInv, Typed, OpTyped, Running, Unsettled, Synced

LEMMA ShapeIsTypeOK == ShapeInv => TypeOK
<1> SUFFICES ASSUME ShapeInv PROVE TypeOK
  OBVIOUS
<1>1. Idle \/ /\ op.kind \in Kinds /\ op.domain \in Domains
              /\ op.val \in Values(op.domain) /\ op.gen \in 1 .. MaxGeneration
              /\ op.wipes \in BOOLEAN
              /\ op.work \in Seq(Steps) /\ Len(op.work) <= 4
              /\ op.step \in Stages
  <2>1. CASE Running
    <3>1. op \in Operations /\ op.val \in Values(op.domain) /\ Progress
      BY <2>1 DEF ShapeInv, Typed, OpTyped
    <3>2. /\ op.kind \in Kinds /\ op.domain \in Domains /\ op.gen \in 1 .. MaxGeneration
          /\ op.wipes \in BOOLEAN /\ op.step \in Stages
      BY <3>1 DEF Operations
    <3>3. op.work \in Seq(Steps) /\ Len(op.work) \in 0 .. 4
      BY <3>1, <3>2, PlansAreSteps DEF Progress
    <3>4. Len(op.work) <= 4
      <4> DEFINE n == Len(op.work)
      <4>1. n \in 0 .. 4
        BY <3>3
      <4> HIDE DEF n
      <4>2. n <= 4
        BY <4>1
      <4> QED
        BY <4>2 DEF n
    <3>5. op.val \in Values(op.domain)
      BY <3>1
    <3>6. op.work \in Seq(Steps)
      BY <3>3
    <3> QED
      BY <3>2, <3>4, <3>5, <3>6
  <2>2. CASE Idle
    BY <2>2
  <2> QED
    BY <2>1, <2>2 DEF Running, Idle
<1> QED
  BY <1>1 DEF ShapeInv, Typed, DiskTyped, ManagerTyped, HistoryTyped, TypeOK

LEMMA HealedIs ==
    ASSUME NEW d \in Domains, NEW p \in Pairs(d)
    PROVE  /\ Healed(p) \in Pairs(d)
           /\ \A s \in Slots :
                 IF s \in Present(p)
                 THEN /\ Healed(p)[s].state = "record" /\ Healed(p)[s].gen = p[s].gen
                      /\ Healed(p)[s].val = p[s].val
                 ELSE Healed(p)[s] = p[s] /\ p[s].state \in {"absent", "corrupt"}
<1>1. \A s \in Slots : Healed(p)[s] = IF p[s].state = "unreadable"
                                      THEN [p[s] EXCEPT !.state = "record"] ELSE p[s]
  BY DEF Healed
<1>2. \A s \in Slots : p[s] \in Files(d) /\ p[s].state \in States
  BY FilesAre DEF Pairs
<1>3. ASSUME NEW s \in Slots
      PROVE  /\ Healed(p)[s] \in Files(d)
             /\ IF s \in Present(p)
                THEN /\ Healed(p)[s].state = "record" /\ Healed(p)[s].gen = p[s].gen
                     /\ Healed(p)[s].val = p[s].val
                ELSE Healed(p)[s] = p[s] /\ p[s].state \in {"absent", "corrupt"}
  <2>1. CASE p[s].state = "unreadable"
    <3> DEFINE f == p[s]
    <3>1. f \in Files(d) /\ f.state \in {"record", "unreadable"}
      BY <1>2, <2>1
    <3>2. Healed(p)[s] = [f EXCEPT !.state = "record"]
      BY <1>1, <2>1
    <3> HIDE DEF f
    <3>3. /\ [f EXCEPT !.state = "record"] \in Files(d)
          /\ [f EXCEPT !.state = "record"].state = "record"
          /\ [f EXCEPT !.state = "record"].gen = f.gen
          /\ [f EXCEPT !.state = "record"].val = f.val
      BY <3>1, Toggled
    <3> QED
      BY <3>2, <3>3, <2>1 DEF Present, f
  <2>2. CASE p[s].state # "unreadable"
    BY <1>1, <1>2, <2>2 DEF Present, States
  <2> QED
    BY <2>1, <2>2
<1>4. Healed(p) \in Pairs(d)
  BY <1>3 DEF Healed, Pairs
<1> QED
  BY <1>3, <1>4

(* Two unreadable slots stay untrusted until both are written. *)
LEMMA ShapeFencesReseals == ShapeInv => ResealIsFenced
<1> SUFFICES ASSUME ShapeInv, op.wipes, Len(op.work) \in 1 .. 3,
                    ~(Len(op.work) = 1 /\ op.step = "published"),
                    NEW p \in CrashPairs(op.domain)
             PROVE  LoadStatus(Healed(p)) # "ok"
  BY DEF ResealIsFenced
<1>1. Running
  BY NoOpIs DEF Running
<1>2. op.domain \in Domains /\ Progress
  BY <1>1 DEF ShapeInv, Typed, OpTyped, Operations
<1>3. PICK d \in Domains : d = op.domain
  BY <1>2
<1>4. PICK s \in Slots : Gone(s)
  BY <1>2 DEF Progress, Slots
<1>5. visible[d] \in Pairs(d) /\ durable[d] \in Pairs(d)
  BY DEF ShapeInv, Typed, DiskTyped
<1>6. p \in Pairs(d) /\ p[s] = Absent
  BY <1>3, <1>4, <1>5, CrashesAreLosses DEF Losses, Gone
<1>7. Healed(p) \in Pairs(d) /\ Healed(p)[s].state # "record"
  BY <1>6, HealedIs, MadeFiles DEF Present
<1> QED
  BY <1>7, TrustedPairs DEF Matched

-------------------------------------------------------------------------------
(* What a step does to the pairs of slots that a power loss can leave. *)

Overwritten(d, p) ==
    /\ op.domain = d /\ Running /\ Working /\ Progress
    /\ p \in Pairs(d)
    /\ p[Step.slot] \in {Written, Corrupt} /\ p[Other(Step.slot)] = Beside

Harmed(d) == \E s \in Slots : Wear(d, s) \/ Heal(d, s)

LEMMA DiskOverwritten ==
    ASSUME ShapeInv, Running, Working, Progress, Synced(op.domain), visible' = Renamed,
           durable' = durable, DiskTyped',
           NEW d \in Domains, NEW p \in CrashPairs(d)'
    PROVE  p \in CrashPairs(d) \/ Overwritten(d, p)
<1>1. /\ visible[d] \in Pairs(d) /\ durable[d] \in Pairs(d)
      /\ visible'[d] \in Pairs(d) /\ durable'[d] \in Pairs(d)
  BY DEF ShapeInv, Typed, DiskTyped
<1>2. CrashPairs(d) = Losses(d, visible[d], durable[d])
  BY <1>1, CrashesAreLosses
<1>3. CrashPairs(d)' = Losses(d, visible'[d], durable'[d])
  BY <1>1, CrashesAreLossesNext
<1>4. p \in Pairs(d) /\ \A s \in Slots : \/ p[s] \in {visible'[d][s], durable'[d][s]}
                                         \/ visible'[d][s] # durable'[d][s] /\ p[s] = Corrupt
  BY <1>3 DEF Losses
<1>5. CASE d # op.domain
  <2>1. visible'[d] = visible[d] /\ durable'[d] = durable[d]
    BY <1>5, SlotChanges DEF ShapeInv
  <2> QED
    BY <1>2, <1>3, <2>1
<1>6. CASE d = op.domain
  <2>1. PICK s \in Slots : s = Step.slot
    BY StepIs DEF ShapeInv
  <2>2. /\ visible'[d][s] = Written /\ visible'[d][Other(s)] = Beside
        /\ Beside = durable[d][Other(s)] /\ durable' = durable /\ visible[d] = durable[d]
    BY <1>6, <2>1, SlotChanges DEF ShapeInv, Synced
  <2>3. p[s] \in {Written, Corrupt, visible[d][s]} /\ p[Other(s)] = Beside
    BY <1>4, <2>2, TwoSlots
  <2>4. p[s] = visible[d][s] => p = visible[d]
    <3>1. p[s] = visible[d][s] => \A t \in Slots : p[t] = visible[d][t]
      BY <2>2, <2>3, TwoSlots
    <3> QED
      BY <1>1, <1>4, <3>1 DEF Pairs
  <2>5. visible[d] \in CrashPairs(d)
    BY <1>1, <1>2, LossesAre
  <2> QED
    BY <1>4, <1>6, <2>1, <2>3, <2>4, <2>5 DEF Overwritten
<1> QED
  BY <1>5, <1>6

LEMMA DiskStep ==
    ASSUME ShapeInv, Next, NEW d \in Domains, ~Harmed(d), NEW p \in CrashPairs(d)'
    PROVE  /\ p \in CrashPairs(d) \/ Overwritten(d, p)
           /\ Overwritten(d, p) /\ p \notin CrashPairs(d) => ChangeSlot \/ FailChange
<1>1. ShapeInv'
  BY ShapeStep
<1>2. /\ visible[d] \in Pairs(d) /\ durable[d] \in Pairs(d)
      /\ visible'[d] \in Pairs(d) /\ durable'[d] \in Pairs(d) /\ DiskTyped'
  BY <1>1 DEF ShapeInv, Typed, DiskTyped
<1>3. /\ CrashPairs(d) = Losses(d, visible[d], durable[d])
      /\ CrashPairs(d)' = Losses(d, visible'[d], durable'[d])
  BY <1>2, CrashesAreLosses, CrashesAreLossesNext
<1>4. ASSUME visible'[d] = visible[d], durable'[d] \in {durable[d], visible[d]}
      PROVE  p \in CrashPairs(d)
  BY <1>2, <1>3, <1>4, LossesAre
<1>5. ASSUME visible'[d] \in CrashPairs(d), durable'[d] = visible'[d]
      PROVE  p \in CrashPairs(d)
  BY <1>2, <1>3, <1>5, LossesAre
<1>6. CASE ChangeSlot
  BY <1>2, <1>6, ChangedProgresses, DiskOverwritten
<1>7. CASE FailChange
  <2>1. Running /\ Working /\ Progress /\ Synced(op.domain)
    BY <1>7, ReadyToChange DEF FailChange
  <2>2. CASE visible' = visible
    BY <1>4, <1>7, <2>2 DEF FailChange
  <2>3. CASE visible' = Renamed
    BY <1>2, <1>7, <2>1, <2>3, DiskOverwritten DEF FailChange
  <2> QED
    BY <1>7, <2>2, <2>3 DEF FailChange
<1>8. CASE Crash
  BY <1>5, <1>8, Crashes DEF ShapeInv
<1>9. ASSUME NEW e \in Domains, NEW s \in Slots, Wear(e, s) \/ Heal(e, s)
      PROVE  p \in CrashPairs(d)
  <2>1. e # d
    BY <1>9 DEF Harmed
  <2>2. Changes(e, s)
    BY <1>9, WearsOut, Heals DEF ShapeInv
  <2> QED
    BY <1>4, <2>1, <2>2 DEF Changes
<1>10. CASE StageTemp \/ SyncSlot \/ Confirm \/ FailTemp \/ FailSync \/ FailConfirm
  BY <1>4, <1>10 DEF StageTemp, SyncSlot, Confirm, FailTemp, FailSync, FailConfirm
<1>11. ASSUME NEW e \in Domains, Reload(e) \/ Refuses(e)
       PROVE  p \in CrashPairs(d)
  BY <1>4, <1>11 DEF Reload, Refuses, Refused
<1>12. ASSUME NEW e \in Domains, NEW v \in Values(e), Begins(e, v)
       PROVE  p \in CrashPairs(d)
  BY <1>4, <1>12 DEF Begins, Commits, Recovers, Begin
<1> QED
  BY <1>6, <1>7, <1>8, <1>9, <1>10, <1>11, <1>12, NextIs
     DEF ShapeInv, Operate, Fail, Suffer

(* What a running operation is about to write, and what it leaves beside that. *)
Continues ==
    /\ Running /\ Working /\ Progress
    /\ Running' /\ Working' /\ op'.domain = op.domain /\ op'.val = op.val
    /\ \/ Step' = Step /\ Beside' = Beside
       \/ /\ Step.kind = "publish"
          /\ Step'.kind = "publish" /\ Step'.slot = Other(Step.slot)
          /\ Step'.gen = Step.gen + 1
          /\ Beside' = Written
       \/ /\ Step.kind = "remove"
          /\ Step'.kind = "remove" \/ Beside' = Absent
    /\ UNCHANGED <<mgr, wear, settled, doubt, fence>>

LEMMA OpStep ==
    ASSUME ShapeInv, Next
    PROVE  \/ ~Working'
           \/ \E d \in Domains : \E v \in Values(d) : Begins(d, v)
           \/ Continues
<1>1. ASSUME op' = NoOp PROVE ~Working'
  BY <1>1, NoOpIs DEF Working
<1>2. ASSUME NEW d \in Domains, Reload(d) \/ Refuses(d)
      PROVE  ~Working'
  BY <1>1, <1>2 DEF Reload, Refuses, Refused, Idle
<1>3. CASE StageTemp
  <2>1. Beside' = Beside
    BY <1>3, StagedProgresses DEF Beside
  <2> QED
    BY <1>3, <2>1, StagedProgresses DEF Continues
<1>4. CASE ChangeSlot
  <2>1. Beside' = Beside
    BY <1>4, ChangedProgresses, SlotChanges DEF Beside, ShapeInv
  <2> QED
    BY <1>4, <2>1, ChangedProgresses DEF Continues
<1>5. CASE SyncSlot /\ Working'
  <2>1. /\ Running /\ Working /\ Progress /\ Running' /\ Working'
        /\ op'.domain = op.domain /\ op'.val = op.val /\ op'.work = Tail(op.work)
        /\ visible[op.domain][Step.slot] = Written /\ visible' = visible
        /\ UNCHANGED <<mgr, wear, settled, doubt, fence>>
    BY <1>5, SyncedProgresses
  <2>2. GoesOn(op.work, op.wipes) /\ Step.slot \in Slots
    BY <2>1, StepIs DEF ShapeInv
  <2>3. Step' = Head(Tail(op.work)) /\ Tail(op.work) # <<>>
    BY <2>1 DEF Step, Working
  <2>4. ASSUME Step.kind = "publish"
        PROVE  /\ Step'.kind = "publish" /\ Step'.slot = Other(Step.slot)
               /\ Step'.gen = Step.gen + 1
    BY <2>2, <2>3, <2>4 DEF GoesOn, Step
  <2>5. ASSUME Step.kind = "publish"
        PROVE  Beside' = Written
    BY <2>1, <2>2, <2>4, <2>5, TwoSlots DEF Beside
  <2>6. ASSUME Step.kind = "remove"
        PROVE  Step'.kind = "remove" \/ Beside' = Absent
    <3>1. CASE op.work = Wipe /\ Tail(op.work) = Rewrite
      <4>1. Head(Rewrite).kind = "remove"
        BY StepsAre, Lists, GenerationAssumption DEF Rewrite, Slots
      <4> QED
        BY <2>3, <3>1, <4>1
    <3>2. CASE op.work = Rewrite /\ Step.slot = "b"
      <4>1. Head(Tail(Rewrite)).slot = "a"
        BY StepsAre, Lists, GenerationAssumption DEF Rewrite, Slots
      <4>2. Step'.slot = "a"
        BY <2>3, <3>2, <4>1
      <4>3. Beside' = visible[op.domain]["b"] /\ Written = Absent
        BY <2>1, <2>6, <4>2, StepIs, TwoSlots DEF Beside, ShapeInv
      <4> QED
        BY <2>1, <3>2, <4>3
    <3> QED
      BY <2>2, <2>6, <3>1, <3>2 DEF GoesOn, Step
  <2>7. Step.kind \in {"publish", "remove"}
    BY <2>1, StepIs DEF ShapeInv
  <2> QED
    BY <2>1, <2>4, <2>5, <2>6, <2>7 DEF Continues
<1>6. CASE Confirm \/ Fail
  BY <1>1, <1>6 DEF Confirm, Fail, FailTemp, FailChange, FailSync, FailConfirm, Abort
<1>7. CASE Suffer
  BY <1>1, <1>7, Crashes DEF Suffer, Wear, Heal, history, Idle, ShapeInv
<1> QED
  BY <1>2, <1>3, <1>4, <1>5, <1>6, <1>7, NextIs DEF ShapeInv, Operate

-----------------------------------------------------------------------------
(* What a step does to one domain: it begins an operation on it, reads it  *)
(* back, wears or heals a file of it, or leaves it to rest, where a file   *)
(* that the running operation overwrites is the only thing that moves.     *)
Rests(d) ==
    /\ settled'[d] = settled[d] /\ doubt'[d] = doubt[d]
    /\ mgr'[d].status = mgr[d].status /\ mgr'[d].gen = mgr[d].gen /\ mgr'[d].val = mgr[d].val
    /\ mgr[d].faulted => mgr'[d].faulted
    /\ mgr'[d].faulted => mgr[d].faulted \/ op.domain = d \/ (d = "config" => Grounded)
    /\ unsure'[d] => unsure[d] \/ op.domain = d
    /\ op.domain = d /\ op'.domain # d => mgr'[d].faulted
    /\ op'.domain = d => op.domain = d
    /\ d = "ledger" => fence' = fence
    /\ wear'.sound => wear.sound
    /\ d \in wear.since => d \in wear'.since
    /\ \A p \in CrashPairs(d)' : p \in CrashPairs(d) \/ Overwritten(d, p)

ReadBack(d, p, u) ==
    /\ p \in CrashPairs(d) /\ p \in Pairs(d) /\ u \in BOOLEAN /\ (u => unsure[d])
    /\ mgr'[d] = Load(d, p, u)
    /\ CrashPairs(d)' \subseteq CrashPairs(d)
    /\ ~u => visible'[d] = p /\ durable'[d] = p /\ CrashPairs(d)' = {p}
    /\ unsure'[d] => u
    /\ IF mgr'[d].status = "ok"
       THEN settled'[d] = mgr'[d].val /\ doubt'[d] = {}
       ELSE settled'[d] = settled[d] /\ doubt'[d] = doubt[d]
    /\ d = "ledger" => fence' = IF mgr'[d].status = "ok"
                                THEN Larger(fence, mgr'[d].val) ELSE fence
    /\ wear'.sound = wear.sound /\ d \notin wear'.since
    /\ op' = NoOp

LEMMA UntouchedRests ==
    ASSUME Typed, NEW d \in Domains,
           settled'[d] = settled[d], doubt'[d] = doubt[d], mgr'[d] = mgr[d],
           unsure'[d] = unsure[d], op'.domain # d, op.domain # d,
           d = "ledger" => fence' = fence, wear'.sound => wear.sound,
           d \in wear.since => d \in wear'.since,
           visible'[d] = visible[d], durable'[d] = durable[d]
    PROVE  Rests(d)
<1>1. visible[d] \in Pairs(d) /\ durable[d] \in Pairs(d)
  BY DEF Typed, DiskTyped
<1>2. CrashPairs(d)' = CrashPairs(d)
  BY <1>1, CrashesAreLosses, CrashesAreLossesNext
<1> QED
  BY <1>2 DEF Rests

LEMMA OperatedRests ==
    ASSUME ShapeInv, Next, Running, NEW d \in Domains,
           UNCHANGED <<wear, settled, doubt, fence>>,
           \/ /\ mgr' = mgr /\ op'.domain = op.domain /\ (unsure'[d] => unsure[d])
           \/ /\ Fault(op.domain) /\ op' = NoOp
              /\ unsure' \in {unsure, [unsure EXCEPT ![op.domain] = TRUE]}
    PROVE  Rests(d)
<1>1. ~Harmed(d)
  BY DEF Running, Harmed, Wear, Heal, Idle
<1>2. \A p \in CrashPairs(d)' : p \in CrashPairs(d) \/ Overwritten(d, p)
  BY <1>1, DiskStep
<1>3. CASE mgr' = mgr /\ op'.domain = op.domain /\ (unsure'[d] => unsure[d])
  BY <1>2, <1>3 DEF Rests
<1>4. CASE /\ Fault(op.domain) /\ op' = NoOp
           /\ unsure' \in {unsure, [unsure EXCEPT ![op.domain] = TRUE]}
  <2>1. PICK e \in Domains : e = op.domain
    BY DEF ShapeInv, Typed, OpTyped, Operations
  <2>2. /\ mgr'[d].status = mgr[d].status /\ mgr'[d].gen = mgr[d].gen
        /\ mgr'[d].val = mgr[d].val
        /\ (e = d => mgr'[d].faulted = TRUE) /\ (e # d => mgr'[d] = mgr[d])
    BY <1>4, <2>1, Faults DEF ShapeInv
  <2>3. unsure'[d] => unsure[d] \/ e = d
    BY <1>4, <2>1 DEF ShapeInv, Typed, ManagerTyped
  <2>4. op'.domain # d
    BY <1>4, NoOpIs
  <2>5. /\ mgr[d].faulted => mgr'[d].faulted
        /\ mgr'[d].faulted => mgr[d].faulted \/ e = d
        /\ e = d => mgr'[d].faulted
    BY <2>2
  <2> QED
    BY <1>2, <2>1, <2>2, <2>3, <2>4, <2>5 DEF Rests
<1> QED
  BY <1>3, <1>4

LEMMA DomainStep ==
    ASSUME ShapeInv, Next, NEW d \in Domains
    PROVE  \/ Rests(d)
           \/ \E p, u : ReadBack(d, p, u)
           \/ Harmed(d)
           \/ \E v \in Values(d) : Begins(d, v)
<1>1. /\ Typed /\ visible[d] \in Pairs(d) /\ durable[d] \in Pairs(d)
      /\ \A e \in Domains : Unsettled(e)
  BY DEF ShapeInv, Typed, DiskTyped
<1>2. CrashPairs(d) = Losses(d, visible[d], durable[d])
  BY <1>1, CrashesAreLosses
<1>3. \A e \in Domains : unsure[e] \in BOOLEAN
  BY <1>1 DEF Typed, ManagerTyped
<1>4. ASSUME NEW e \in Domains, Reload(e)
      PROVE  Rests(d) \/ \E p, u : ReadBack(d, p, u)
  <2>1. /\ mgr' = [mgr EXCEPT ![e] = Load(e, visible[e], unsure[e])]
        /\ Read({e}) /\ UNCHANGED <<visible, durable, unsure, op>> /\ Idle
    BY <1>4 DEF Reload
  <2>2. op.domain # d /\ op'.domain # d /\ op' = NoOp /\ ~Working
    BY <2>1, IdleHasNoWork DEF Idle
  <2>3. CASE e # d
    <3>1. /\ settled'[d] = settled[d] /\ doubt'[d] = doubt[d] /\ wear'.sound = wear.sound
          /\ (d = "ledger" => fence' = fence) /\ (d \in wear.since => d \in wear'.since)
      BY <1>1, <2>1, <2>3, Reads
    <3>2. mgr'[d] = mgr[d]
      BY <1>1, <2>1, <2>3 DEF Typed, ManagerTyped
    <3> QED
      BY <1>1, <2>1, <2>2, <3>1, <3>2, UntouchedRests
  <2>4. CASE e = d
    <3> DEFINE p == visible[d]
               u == unsure[d]
    <3>1. mgr'[d] = Load(d, p, u)
      BY <1>1, <2>1, <2>4 DEF Typed, ManagerTyped
    <3>2. CrashPairs(d)' = CrashPairs(d) /\ p \in CrashPairs(d)
      BY <1>1, <1>2, <2>1, CrashesAreLossesNext, LossesAre
    <3>3. ~u => durable[d] = p
      BY <1>1, <2>2 DEF Unsettled, Synced, Changing
    <3>4. ~u => visible'[d] = p /\ durable'[d] = p /\ CrashPairs(d)' = {p}
      BY <1>1, <1>2, <2>1, <3>2, <3>3, LossesAre
    <3>5. /\ IF mgr'[d].status = "ok"
             THEN settled'[d] = mgr'[d].val /\ doubt'[d] = {}
             ELSE settled'[d] = settled[d] /\ doubt'[d] = doubt[d]
          /\ d = "ledger" => fence' = IF mgr'[d].status = "ok"
                                      THEN Larger(fence, mgr'[d].val) ELSE fence
          /\ wear'.sound = wear.sound /\ d \notin wear'.since
      BY <1>1, <2>1, <2>4, Reads
    <3>6. unsure'[d] => u
      BY <2>1
    <3> HIDE DEF p, u
    <3>7. ReadBack(d, p, u)
      BY <1>1, <1>3, <2>2, <3>1, <3>2, <3>4, <3>5, <3>6 DEF ReadBack, p, u
    <3> QED
      BY <3>7
  <2> QED
    BY <2>3, <2>4
<1>5. ASSUME NEW e \in Domains, Refuses(e)
      PROVE  Rests(d)
  <2>1. /\ Fault(e) /\ UNCHANGED <<visible, durable, unsure, op, wear, settled, doubt, fence>>
        /\ Idle /\ (e = "config" => Grounded)
    BY <1>5 DEF Refuses, Refused, history
  <2>2. op.domain # d /\ op'.domain # d
    BY <2>1, IdleHasNoWork
  <2>3. CASE e # d
    <3>1. mgr'[d] = mgr[d]
      BY <1>1, <2>1, <2>3, Faults
    <3> QED
      BY <1>1, <2>1, <2>2, <3>1, UntouchedRests
  <2>4. CASE e = d
    <3>1. /\ mgr'[d].status = mgr[d].status /\ mgr'[d].gen = mgr[d].gen
          /\ mgr'[d].val = mgr[d].val /\ mgr'[d].faulted = TRUE
      BY <1>1, <2>1, <2>4, Faults
    <3>2. CrashPairs(d)' = CrashPairs(d)
      BY <1>1, <1>2, <2>1, CrashesAreLossesNext
    <3> QED
      BY <2>1, <2>2, <2>4, <3>1, <3>2 DEF Rests
  <2> QED
    BY <2>3, <2>4
<1>6. ASSUME NEW e \in Domains, NEW v \in Values(e), Begins(e, v)
      PROVE  Rests(d) \/ \E w \in Values(d) : Begins(d, w)
  <2>1. CASE e # d
    <3>1. /\ UNCHANGED <<visible, durable, unsure, wear, settled, fence>>
          /\ op'.domain = e /\ doubt' = [doubt EXCEPT ![e] = @ \cup {v}]
          /\ mgr' = mgr \/ mgr' = [mgr EXCEPT ![e].faulted = TRUE]
      BY <1>6, BegunProgresses
    <3>2. mgr'[d] = mgr[d] /\ doubt'[d] = doubt[d]
      BY <1>1, <2>1, <3>1 DEF Typed, ManagerTyped, HistoryTyped
    <3>3. op.domain # d
      BY <1>6, IdleHasNoWork DEF Begins, Commits, Recovers
    <3> QED
      BY <1>1, <2>1, <3>1, <3>2, <3>3, UntouchedRests
  <2> QED
    BY <1>6, <2>1
<1>7. CASE StageTemp
  BY <1>7, StagedProgresses, OperatedRests
<1>8. CASE ChangeSlot
  BY <1>8, ChangedProgresses, OperatedRests
<1>9. CASE SyncSlot
  BY <1>9, SyncedProgresses, OperatedRests
<1>10. CASE Fail
  <2>1. Running /\ Abort /\ unsure' \in {unsure, [unsure EXCEPT ![op.domain] = TRUE]}
    BY <1>10 DEF Fail, FailTemp, FailChange, FailSync, FailConfirm, At, Running, Idle, Doubt
  <2> QED
    BY <2>1, OperatedRests DEF Abort, history
<1>11. CASE Confirm
  <2>1. /\ Running /\ ~Working /\ op' = NoOp /\ UNCHANGED <<visible, durable, unsure>>
    BY <1>11 DEF Confirm, Idle, Running, Working
  <2>2. PICK e \in Domains : e = op.domain
    BY <2>1 DEF ShapeInv, Typed, OpTyped, Operations
  <2>3. visible = durable
    BY <2>1 DEF ShapeInv, Progress
  <2> DEFINE p == visible[e]
             u == unsure[e]
  <2>4. \/ /\ mgr' = [mgr EXCEPT ![e] = Load(e, p, u)] /\ Read({e})
           /\ Load(e, p, u).status = "ok"
        \/ Fault(e) /\ UNCHANGED <<wear, settled, doubt, fence>>
    BY <1>11, <2>2 DEF Confirm, Confirmed, history
  <2>5. CASE Fault(e) /\ UNCHANGED <<wear, settled, doubt, fence>>
    BY <2>1, <2>2, <2>5, OperatedRests
  <2>6. CASE /\ mgr' = [mgr EXCEPT ![e] = Load(e, p, u)] /\ Read({e})
             /\ Load(e, p, u).status = "ok"
    <3>1. CASE e # d
      <4>1. /\ settled'[d] = settled[d] /\ doubt'[d] = doubt[d] /\ wear'.sound = wear.sound
            /\ (d = "ledger" => fence' = fence) /\ (d \in wear.since => d \in wear'.since)
        BY <1>1, <2>6, <3>1, Reads
      <4>2. mgr'[d] = mgr[d]
        BY <1>1, <2>6, <3>1 DEF Typed, ManagerTyped
      <4>3. op.domain # d /\ op'.domain # d
        BY <2>1, <2>2, <3>1, NoOpIs
      <4> QED
        BY <1>1, <2>1, <4>1, <4>2, <4>3, UntouchedRests
    <3>2. CASE e = d
      <4>1. mgr'[d] = Load(d, p, u)
        BY <1>1, <2>6, <3>2 DEF Typed, ManagerTyped
      <4>2. /\ p = visible[d] /\ p \in Pairs(d) /\ durable[d] = p /\ u = unsure[d]
            /\ visible'[d] = p /\ durable'[d] = p
        BY <1>1, <2>1, <2>3, <3>2
      <4>3. CrashPairs(d)' = {p} /\ CrashPairs(d) = {p}
        BY <1>1, <1>2, <4>2, CrashesAreLossesNext, LossesAre
      <4>4. /\ IF mgr'[d].status = "ok"
               THEN settled'[d] = mgr'[d].val /\ doubt'[d] = {}
               ELSE settled'[d] = settled[d] /\ doubt'[d] = doubt[d]
            /\ d = "ledger" => fence' = IF mgr'[d].status = "ok"
                                        THEN Larger(fence, mgr'[d].val) ELSE fence
            /\ wear'.sound = wear.sound /\ d \notin wear'.since
        BY <1>1, <2>6, <3>2, Reads
      <4>5. (unsure'[d] => u) /\ u \in BOOLEAN
        BY <1>3, <2>1, <4>2
      <4> HIDE DEF p, u
      <4>6. ReadBack(d, p, u)
        BY <2>1, <4>1, <4>2, <4>3, <4>4, <4>5 DEF ReadBack
      <4> QED
        BY <4>6
    <3> QED
      BY <3>1, <3>2
  <2> QED
    BY <2>4, <2>5, <2>6
<1>12. CASE Crash
  <2> DEFINE p == visible'[d]
  <2>1. /\ p \in CrashPairs(d) /\ p \in Pairs(d) /\ durable' = visible' /\ op' = NoOp
        /\ unsure'[d] = FALSE /\ mgr'[d] = Load(d, p, FALSE) /\ Read(Domains)
    BY <1>1, <1>12, Crashes
  <2>2. CrashPairs(d)' = {p}
    BY <1>1, <2>1, CrashesAreLossesNext, LossesAre
  <2>3. /\ IF mgr'[d].status = "ok"
           THEN settled'[d] = mgr'[d].val /\ doubt'[d] = {}
           ELSE settled'[d] = settled[d] /\ doubt'[d] = doubt[d]
        /\ d = "ledger" => fence' = IF mgr'[d].status = "ok"
                                    THEN Larger(fence, mgr'[d].val) ELSE fence
        /\ wear'.sound = wear.sound /\ d \notin wear'.since
    BY <1>1, <2>1, Reads
  <2>4. visible'[d] = p /\ durable'[d] = p /\ (unsure'[d] => FALSE)
    BY <2>1
  <2> HIDE DEF p
  <2>5. ReadBack(d, p, FALSE)
    BY <2>1, <2>2, <2>3, <2>4 DEF ReadBack
  <2> QED
    BY <2>5
<1>13. ASSUME NEW e \in Domains, NEW s \in Slots, Wear(e, s) \/ Heal(e, s)
       PROVE  Rests(d) \/ Harmed(d)
  <2>1. CASE e = d
    BY <1>13, <2>1 DEF Harmed
  <2>2. CASE e # d
    <3>1. Changes(e, s)
      BY <1>1, <1>13, WearsOut, Heals
    <3>2. visible'[d] = visible[d] /\ durable'[d] = durable[d]
      BY <2>2, <3>1 DEF Changes
    <3>3. /\ Idle /\ UNCHANGED <<unsure, mgr, op, settled, doubt>>
          /\ (d = "ledger" => fence' = fence)
          /\ (wear'.sound => wear.sound) /\ (d \in wear.since => d \in wear'.since)
      BY <1>1, <1>13, <2>2 DEF Wear, Heal, history, Domains, Typed, HistoryTyped
    <3>4. op.domain # d /\ op'.domain # d
      BY <3>3, IdleHasNoWork
    <3> QED
      BY <1>1, <3>2, <3>3, <3>4, UntouchedRests
  <2> QED
    BY <2>1, <2>2
<1> QED
  BY <1>1, <1>4, <1>5, <1>6, <1>7, <1>8, <1>9, <1>10, <1>11, <1>12, <1>13, NextIs
     DEF Operate, Suffer

-----------------------------------------------------------------------------
(* What is served is what was confirmed, and what the disk still holds.    *)
ServedIsSettled(d) ==
    mgr[d].status = "ok" /\ ~mgr[d].faulted /\ op.domain # d =>
        /\ doubt[d] = {} /\ settled[d] = mgr[d].val
        /\ d \notin wear.since =>
             /\ Synced(d) /\ ~unsure[d]
             /\ Load(d, visible[d], FALSE).status = "ok"
             /\ Load(d, visible[d], FALSE).gen = mgr[d].gen
             /\ Load(d, visible[d], FALSE).val = mgr[d].val

LEMMA ServedInit == Init => \A d \in Domains : ServedIsSettled(d)
<1> SUFFICES ASSUME Init, NEW d \in Domains, mgr[d].status = "ok"
             PROVE  /\ doubt[d] = {} /\ settled[d] = mgr[d].val
                    /\ Synced(d) /\ ~unsure[d]
                    /\ Load(d, visible[d], FALSE) = mgr[d]
  BY DEF ServedIsSettled
<1>1. /\ doubt[d] = {} /\ settled[d] = mgr[d].val /\ unsure[d] = FALSE
      /\ durable = visible /\ mgr[d] = Load(d, visible[d], FALSE)
  BY DEF Init
<1> QED
  BY <1>1 DEF Synced

LEMMA ServedStep ==
    ASSUME ShapeInv, Next, NEW d \in Domains, ServedIsSettled(d)
    PROVE  ServedIsSettled(d)'
<1> SUFFICES ASSUME mgr'[d].status = "ok", ~mgr'[d].faulted, op'.domain # d
             PROVE  /\ doubt'[d] = {} /\ settled'[d] = mgr'[d].val
                    /\ d \notin wear'.since =>
                         /\ visible'[d] = durable'[d] /\ ~unsure'[d]
                         /\ Load(d, visible'[d], FALSE).status = "ok"
                         /\ Load(d, visible'[d], FALSE).gen = mgr'[d].gen
                         /\ Load(d, visible'[d], FALSE).val = mgr'[d].val
  BY DEF ServedIsSettled, Synced
<1>1. /\ visible[d] \in Pairs(d) /\ durable[d] \in Pairs(d)
      /\ visible'[d] \in Pairs(d) /\ durable'[d] \in Pairs(d)
  BY ShapeStep DEF ShapeInv, Typed, DiskTyped
<1>2. /\ CrashPairs(d) = Losses(d, visible[d], durable[d])
      /\ CrashPairs(d)' = Losses(d, visible'[d], durable'[d])
  BY <1>1, CrashesAreLosses, CrashesAreLossesNext
<1>3. CASE Rests(d)
  <2>1. /\ mgr[d].status = "ok" /\ ~mgr[d].faulted /\ op.domain # d
        /\ mgr'[d].gen = mgr[d].gen /\ mgr'[d].val = mgr[d].val
        /\ settled'[d] = settled[d] /\ doubt'[d] = doubt[d]
        /\ (unsure'[d] => unsure[d]) /\ (d \in wear.since => d \in wear'.since)
    BY <1>3 DEF Rests
  <2>2. ASSUME Synced(d)
        PROVE  visible'[d] = visible[d] /\ durable'[d] = visible[d]
    <3>1. CrashPairs(d) = {visible[d]}
      BY <1>1, <1>2, <2>2, LossesAre DEF Synced
    <3>2. \A p \in CrashPairs(d)' : p = visible[d]
      BY <1>3, <2>1, <3>1 DEF Rests, Overwritten
    <3> QED
      BY <1>1, <1>2, <3>2, LossesAre
  <2> QED
    BY <2>1, <2>2 DEF ServedIsSettled
<1>4. ASSUME NEW p, NEW u, ReadBack(d, p, u)
      PROVE  /\ doubt'[d] = {} /\ settled'[d] = mgr'[d].val
             /\ visible'[d] = durable'[d] /\ ~unsure'[d]
             /\ Load(d, visible'[d], FALSE) = mgr'[d]
  <2>1. /\ p \in Pairs(d) /\ u \in BOOLEAN /\ mgr'[d] = Load(d, p, u)
        /\ ~u => visible'[d] = p /\ durable'[d] = p
        /\ settled'[d] = mgr'[d].val /\ doubt'[d] = {}
        /\ (unsure'[d] => u)
    BY <1>4 DEF ReadBack
  <2>2. ~u /\ Load(d, p, u) = Load(d, p, FALSE)
    BY <2>1, LoadTrusts
  <2> QED
    BY <2>1, <2>2
<1>5. CASE Harmed(d)
  <2>1. /\ UNCHANGED <<mgr, op, settled, doubt>> /\ d \in wear'.since
    BY <1>5 DEF Harmed, Wear, Heal, history, ShapeInv, Typed, HistoryTyped
  <2> QED
    BY <2>1 DEF ServedIsSettled
<1>6. ASSUME NEW v \in Values(d), Begins(d, v)
      PROVE  FALSE
  BY <1>6, BegunProgresses
<1> QED
  BY <1>3, <1>4, <1>5, <1>6, DomainStep

LEMMA ServedIsDurable ==
    ASSUME ShapeInv, \A d \in Domains : ServedIsSettled(d)
    PROVE  GateIsDurable
<1> SUFFICES ASSUME TimerStartAllowed, wear.since = {}, NEW d \in Domains,
                    NEW p \in CrashPairs(d)
             PROVE  /\ Load(d, p, FALSE).status = "ok" /\ Load(d, p, FALSE).gen = mgr[d].gen
                    /\ Load(d, p, FALSE).val = mgr[d].val
  BY DEF GateIsDurable
<1>1. mgr[d].status = "ok" /\ ~mgr[d].faulted /\ op.domain # d /\ d \notin wear.since
  BY IdleHasNoWork DEF TimerStartAllowed
<1>2. visible[d] \in Pairs(d) /\ durable[d] \in Pairs(d)
  BY DEF ShapeInv, Typed, DiskTyped
<1>3. Synced(d) /\ Load(d, visible[d], FALSE).status = "ok"
      /\ Load(d, visible[d], FALSE).gen = mgr[d].gen
      /\ Load(d, visible[d], FALSE).val = mgr[d].val
  BY <1>1 DEF ServedIsSettled
<1>4. p = visible[d]
  BY <1>2, <1>3, CrashesAreLosses, LossesAre DEF Synced
<1> QED
  BY <1>3, <1>4

-----------------------------------------------------------------------------
(* The minute that the slots protect.                                      *)
FenceOf(f, p) ==
    /\ \A s \in Present(p) :
          (\A t \in Present(p) : p[t].gen <= p[s].gen) => p[s].val >= f
    /\ f = 0 \/ \E s \in Readable(p) : p[s].val >= f

(* While a ledger is written, both what is written and what is left beside *)
(* it are above the fence.                                                 *)
FenceGuarded ==
    op.domain = "ledger" /\ Working /\ fence # 0 =>
        /\ op.val >= fence /\ Step.kind = "publish"
        /\ Beside.state = "record" /\ Beside.val >= fence

FenceInv ==
    /\ \A p \in CrashPairs("ledger") : FenceOf(fence, p)
    /\ mgr["ledger"].status = "ok" => mgr["ledger"].val >= fence
    /\ FenceGuarded

LEMMA LedgerFiles ==
    ASSUME NEW p \in Pairs("ledger"), NEW s \in Slots
    PROVE  /\ p[s] \in Files("ledger") /\ p[s].gen \in 0 .. MaxGeneration
           /\ s \in Present(p) => p[s].val \in Minutes /\ p[s].gen \in 1 .. MaxGeneration
           /\ s \in Readable(p) => s \in Present(p)
           /\ s \in Present(p) => p[s].state \in {"record", "unreadable"}
<1>1. "ledger" \in Domains
  BY DEF Domains
<1>2. p[s] \in Files("ledger")
  BY DEF Pairs
<1> QED
  BY <1>1, <1>2, FilesAre, MinutesAreNumbers DEF Present, Readable

LEMMA TrustedIsAbove ==
    ASSUME NEW p \in Pairs("ledger"), NEW u \in BOOLEAN, NEW f \in Minutes, FenceOf(f, p),
           Load("ledger", p, u).status = "ok"
    PROVE  LET v == Load("ledger", p, u).val
           IN v \in Minutes /\ v >= f /\ Larger(f, v) = v /\ FenceOf(v, p)
<1> DEFINE v == Load("ledger", p, u).val
<1>1. "ledger" \in Domains
  BY DEF Domains
<1>2. PICK s \in Slots : /\ \A t \in Slots : p[t].gen <= p[s].gen
                         /\ v = Canonical(p[s].val)
  BY <1>1, LoadTrusts
<1>3. Matched(p)
  BY <1>1, LoadTrusts
<1> HIDE DEF v
<1>4. \A t \in Slots : /\ t \in Readable(p) /\ t \in Present(p)
                       /\ p[t].val \in Minutes /\ p[t].gen \in 1 .. MaxGeneration
  BY <1>3, LedgerFiles DEF Matched, Readable, Present
<1>5. v = p[s].val
  BY <1>1, <1>2, <1>4, ValuesAreCanonical, MinutesAreNumbers
<1>6. v \in Minutes /\ v >= f
  BY <1>2, <1>4, <1>5 DEF FenceOf, Present
<1>7. ASSUME NEW t \in Slots, p[s].gen <= p[t].gen
      PROVE  p[t].val = v
  <2>1. p[t].gen = p[s].gen
    BY <1>2, <1>4, <1>7
  <2>2. CASE t = s
    BY <1>5, <2>2
  <2>3. CASE t # s
    BY <1>3, <1>5, <2>1, <2>3 DEF Matched, Slots
  <2> QED
    BY <2>2, <2>3
<1>8. FenceOf(v, p)
  <2>1. v \in Nat
    BY <1>6, MinutesAreNumbers
  <2>2. ASSUME NEW t \in Present(p), \A r \in Present(p) : p[r].gen <= p[t].gen
        PROVE  p[t].val >= v
    BY <1>4, <1>7, <2>1, <2>2 DEF Present
  <2>3. p[s].val >= v /\ s \in Readable(p)
    BY <1>4, <1>5, <2>1
  <2> QED
    BY <2>2, <2>3 DEF FenceOf
<1>9. Larger(f, v) = v
  BY <1>6, MinutesAreNumbers DEF Larger
<1> QED
  BY <1>6, <1>8, <1>9 DEF v

LEMMA KeeperIsAbove ==
    ASSUME NEW p \in Pairs("ledger"), NEW f \in Minutes, FenceOf(f, p), f # 0,
           NEW o \in Slots, Keeper(p, o)
    PROVE  p[o].state = "record" /\ p[o].val >= f
<1>1. o \in Readable(p) /\ o \in Present(p) /\ p[o].state = "record"
  BY LedgerFiles DEF Keeper, Readable, Present
<1>2. PICK s \in Readable(p) : p[s].val >= f
  BY DEF FenceOf
<1>3. CASE s = o
  BY <1>1, <1>2, <1>3
<1>4. CASE s # o
  <2>1. \A t \in Slots : t \in Readable(p)
    BY <1>1, <1>2, <1>4 DEF Readable, Slots
  <2>2. \A t \in Present(p) : p[t].gen <= p[o].gen
    BY <2>1 DEF Keeper, Present
  <2> QED
    BY <1>1, <2>2 DEF FenceOf
<1> QED
  BY <1>3, <1>4

LEMMA BegunBesides ==
    ASSUME ShapeInv, NEW d \in Domains, NEW v \in Values(d), Begins(d, v)
    PROVE  LET p == visible[d]
               o == Other(Step'.slot) IN
           /\ Beside' = p[o] /\ Step'.slot \in Slots /\ o \in Slots
           /\ Readable(p) # {} => Step'.kind = "publish" /\ Keeper(p, o)
           /\ Step'.kind = "publish" =>
                /\ Step'.gen = LatestGeneration(p) + 1
                /\ Readable(p) = {} => Commits(d, v) \/ p[o].state = "absent"
<1> DEFINE p == visible[d]
           o == Other(Step'.slot)
<1>1. /\ Typed /\ p \in Pairs(d) /\ mgr[d] \in Managers(d)
      /\ mgr[d].gen \in 0 .. MaxGeneration
      /\ mgr[d].status = "first_boot" => mgr[d].gen = 0
  BY DEF ShapeInv, Typed, DiskTyped, ManagerTyped, Managers
<1>2. visible' = visible /\ op'.domain = d
  BY BegunProgresses
<1>3. Beside' = p[o] /\ Step' = Head(op'.work)
  BY <1>2 DEF Beside, Step
<1>4. \A s \in Slots : s \in Readable(p) => s \notin InvalidSlots(p)
  BY DEF Readable, InvalidSlots
<1>5. \A s \in Slots : Other(s) \in Slots
  BY TwoSlots
<1>6. CASE Commits(d, v) /\ op'.work = CommitPlan(p, mgr[d].gen, FirstProvision(d))
  <2> DEFINE first == FirstProvision(d)
  <2>1. Accepts(p, mgr[d].gen) /\ first \in BOOLEAN /\ (first => mgr[d].gen = 0)
    BY <1>6 DEF Commits, FirstProvision
  <2>2. mgr[d].gen = LatestGeneration(p)
    BY <2>1 DEF Accepts
  <2> HIDE DEF p, first
  <2>3. LET plan == CommitPlan(p, mgr[d].gen, first) IN
        /\ Head(plan).kind = "publish" /\ Head(plan).slot = TargetSlot(p)
        /\ Head(plan).gen = mgr[d].gen + 1
    BY <1>1, <2>1, CommitPlans
  <2>4. Step'.kind = "publish" /\ Step'.slot = TargetSlot(p) /\ Step'.gen = mgr[d].gen + 1
    BY <1>3, <1>6, <2>3 DEF first, p
  <2>5. TargetSlot(p) \in Slots /\ (Readable(p) # {} => Keeper(p, Other(TargetSlot(p))))
    BY <1>1, CommitTargets
  <2> QED
    BY <1>3, <1>5, <1>6, <2>2, <2>4, <2>5 DEF p
<1>7. CASE Recovers(d, v) /\ op'.work = ResealPlan(p)
  <2>1. CanReseal(p)
    BY <1>7 DEF Recovers
  <2> HIDE DEF p
  <2>2. CASE InvalidSlots(p) = Slots
    <3>1. ResealPlan(p) = Wipe
      BY <1>1, <2>1, <2>2, ResealPlans
    <3>2. Head(Wipe).kind = "remove" /\ Head(Wipe).slot = "a"
      BY StepsAre, Lists, GenerationAssumption DEF Wipe, Slots
    <3>3. Step'.kind = "remove" /\ Step'.slot \in Slots
      BY <1>3, <1>7, <3>1, <3>2 DEF p, Slots
    <3>4. Readable(p) = {}
      BY <1>4, <2>2 DEF Readable, p
    <3> QED
      BY <1>3, <1>5, <3>3, <3>4 DEF p
  <2>3. CASE InvalidSlots(p) # Slots
    <3>1. LET plan == ResealPlan(p) IN
          /\ Head(plan).kind = "publish" /\ Head(plan).slot = ResealFirst(p)
          /\ Head(plan).gen = LatestGeneration(p) + 1
      BY <1>1, <2>1, <2>3, ResealPlans
    <3>2. /\ Step'.kind = "publish" /\ Step'.slot = ResealFirst(p)
          /\ Step'.gen = LatestGeneration(p) + 1
      BY <1>3, <1>7, <3>1 DEF p
    <3>3. /\ ResealFirst(p) \in Slots
          /\ p[Other(ResealFirst(p))].state \in {"record", "absent"}
          /\ Readable(p) # {} => Keeper(p, Other(ResealFirst(p)))
      BY <1>1, <2>3, ResealTargets
    <3>4. Readable(p) = {} => p[o].state = "absent"
      BY <1>5, <3>2, <3>3 DEF Readable
    <3> QED
      BY <1>3, <1>5, <3>2, <3>3, <3>4 DEF p
  <2> QED
    BY <2>2, <2>3
<1> QED
  BY <1>6, <1>7, BegunProgresses

LEMMA FenceGuardStep ==
    ASSUME ShapeInv, FenceInv, Next
    PROVE  FenceGuarded'
<1> SUFFICES ASSUME op'.domain = "ledger", Working', fence' # 0
             PROVE  /\ op'.val >= fence' /\ Step'.kind = "publish"
                    /\ Beside'.state = "record" /\ Beside'.val >= fence'
  BY DEF FenceGuarded
<1>1. /\ Typed /\ "ledger" \in Domains /\ fence \in Minutes /\ fence \in Nat
      /\ visible["ledger"] \in Pairs("ledger") /\ durable["ledger"] \in Pairs("ledger")
      /\ mgr["ledger"].val \in Nat
  BY MinutesAreNumbers DEF ShapeInv, Typed, HistoryTyped, DiskTyped, ManagerTyped, Managers,
                           Domains
<1>2. ASSUME NEW d \in Domains, NEW v \in Values(d), Begins(d, v)
      PROVE  /\ op'.val >= fence' /\ Step'.kind = "publish"
             /\ Beside'.state = "record" /\ Beside'.val >= fence'
  <2>1. d = "ledger" /\ op'.val = v /\ fence' = fence
    BY <1>2, BegunProgresses
  <2> DEFINE p == visible["ledger"]
             o == Other(Step'.slot)
  <2>2. p \in CrashPairs("ledger")
    BY <1>1, CrashesAreLosses, LossesAre
  <2>3. FenceOf(fence, p) /\ fence # 0
    BY <2>1, <2>2 DEF FenceInv
  <2>4. PICK s \in Readable(p) : p[s].val >= fence
    BY <2>3 DEF FenceOf
  <2>5. /\ Beside' = p[o] /\ o \in Slots /\ Step'.kind = "publish" /\ Keeper(p, o)
    BY <1>2, <2>1, <2>4, BegunBesides DEF ShapeInv
  <2>6. p[o].state = "record" /\ p[o].val >= fence
    BY <1>1, <2>3, <2>5, KeeperIsAbove
  <2>7. v \in Nat
    BY <2>1, MinutesAreNumbers
  <2>8. CASE Commits(d, v)
    <3>1. mgr["ledger"].status \in {"ok", "first_boot"} /\ v >= mgr["ledger"].val
      BY <1>1, <2>1, <2>8 DEF Commits, Untrusted, Typed, ManagerTyped, Managers, Statuses
    <3>2. CASE mgr["ledger"].status = "ok"
      <4>1. mgr["ledger"].val >= fence
        BY <3>2 DEF FenceInv
      <4>2. \A m, f \in Nat : v >= m /\ m >= f => v >= f
        BY <2>7
      <4>3. v >= fence
        BY <1>1, <3>1, <4>1, <4>2
      <4> QED
        BY <2>1, <2>5, <2>6, <4>3
    <3>3. CASE mgr["ledger"].status = "first_boot"
      <4>1. mgr["ledger"].gen = 0 /\ LatestGeneration(p) = mgr["ledger"].gen
        BY <1>1, <2>1, <2>8, <3>3 DEF Commits, Accepts, Typed, ManagerTyped
      <4>2. LatestGeneration(p) > 0
        BY <1>1, <2>4, LatestIs
      <4> QED
        BY <4>1, <4>2
    <3> QED
      BY <3>1, <3>2, <3>3
  <2>9. CASE Recovers(d, v)
    <3>1. v >= SurvivingMinute(p) /\ SurvivingMinute(p) \in Nat
      BY <1>1, <2>1, <2>9, SurvivingMinuteIs, MinutesAreNumbers DEF Recovers
    <3>2. p[s].val <= SurvivingMinute(p)
      BY <1>1, <2>4, SurvivingMinuteIs
    <3>3. p[s].val \in Nat
      BY <1>1, <2>4, LedgerFiles, MinutesAreNumbers DEF Readable
    <3>4. v >= fence
      BY <1>1, <2>4, <2>7, <3>1, <3>2, <3>3
    <3> QED
      BY <2>1, <2>5, <2>6, <3>4
  <2> QED
    BY <1>2, <2>8, <2>9 DEF Begins
<1>3. CASE Continues
  <2>1. fence' = fence /\ op'.val = op.val /\ Working /\ op.domain = "ledger" /\ Running /\ Progress
    BY <1>3 DEF Continues
  <2>2. /\ op.val >= fence /\ Step.kind = "publish"
        /\ Beside.state = "record" /\ Beside.val >= fence
    BY <2>1 DEF FenceInv, FenceGuarded
  <2>3. Written.state = "record" /\ Written.val = op.val
    BY <1>1, <2>1, <2>2, StepIs
  <2> QED
    BY <1>3, <2>1, <2>2, <2>3 DEF Continues
<1> QED
  BY <1>2, <1>3, OpStep

LEMMA FenceStep ==
    ASSUME ShapeInv, FenceInv, Next
    PROVE  FenceInv'
<1>1. /\ Typed /\ "ledger" \in Domains /\ fence \in Minutes /\ fence \in Nat
      /\ visible["ledger"] \in Pairs("ledger") /\ durable["ledger"] \in Pairs("ledger")
      /\ visible'["ledger"] \in Pairs("ledger") /\ durable'["ledger"] \in Pairs("ledger")
      /\ mgr["ledger"].val \in Nat /\ fence' \in Nat /\ mgr'["ledger"].val \in Nat
  BY ShapeStep, MinutesAreNumbers
     DEF ShapeInv, Typed, HistoryTyped, DiskTyped, ManagerTyped, Managers, Domains
<1>2. /\ CrashPairs("ledger") = Losses("ledger", visible["ledger"], durable["ledger"])
      /\ CrashPairs("ledger")' = Losses("ledger", visible'["ledger"], durable'["ledger"])
  BY <1>1, CrashesAreLosses, CrashesAreLossesNext
<1> DEFINE Held == /\ \A p \in CrashPairs("ledger")' : FenceOf(fence', p)
                   /\ mgr'["ledger"].status = "ok" => mgr'["ledger"].val >= fence'
<1>3. ASSUME Rests("ledger")
      PROVE  Held
  <2>1. /\ fence' = fence /\ mgr'["ledger"].val = mgr["ledger"].val
        /\ mgr'["ledger"].status = mgr["ledger"].status
    BY <1>3 DEF Rests
  <2>2. ASSUME NEW p \in Pairs("ledger"), Overwritten("ledger", p)
        PROVE  FenceOf(fence, p)
    <3>1. PICK s \in Slots : s = Step.slot
      BY <1>1, <2>2, StepIs DEF Overwritten
    <3>2. /\ op.domain = "ledger" /\ Running /\ Working /\ Progress
          /\ p[s] \in {Written, Corrupt} /\ p[Other(s)] = Beside
      BY <2>2, <3>1 DEF Overwritten
    <3>3. CASE fence = 0
      <4>1. \A t \in Present(p) : p[t].val >= 0
        <5> TAKE t \in Present(p)
        <5>1. p[t].val \in Nat
          BY LedgerFiles, MinutesAreNumbers DEF Present
        <5> QED
          BY <5>1
      <4> QED
        BY <3>3, <4>1 DEF FenceOf
    <3>4. CASE fence # 0
      <4>1. /\ op.val >= fence /\ Step.kind = "publish"
            /\ Beside.state = "record" /\ Beside.val >= fence
        BY <3>2, <3>4 DEF FenceInv, FenceGuarded
      <4>2. Written.val = op.val /\ Corrupt.state = "corrupt"
        BY <1>1, <3>2, <4>1, StepIs, MadeFiles
      <4>3. \A t \in Present(p) : p[t].val >= fence
        BY <3>2, <4>1, <4>2, TwoSlots DEF Present
      <4>4. Other(s) \in Readable(p) /\ p[Other(s)].val >= fence
        BY <3>2, <4>1, TwoSlots DEF Readable
      <4> QED
        BY <4>3, <4>4 DEF FenceOf
    <3> QED
      BY <3>3, <3>4
  <2>3. \A p \in CrashPairs("ledger")' : FenceOf(fence, p)
    BY <1>2, <1>3, <2>2 DEF Rests, FenceInv, Losses
  <2> QED
    BY <2>1, <2>3 DEF FenceInv
<1>4. ASSUME NEW p, NEW u, ReadBack("ledger", p, u)
      PROVE  Held
  <2>1. /\ p \in CrashPairs("ledger") /\ p \in Pairs("ledger") /\ u \in BOOLEAN
        /\ CrashPairs("ledger")' \subseteq CrashPairs("ledger")
        /\ ~u => CrashPairs("ledger")' = {p}
        /\ mgr'["ledger"] = Load("ledger", p, u)
        /\ fence' = IF mgr'["ledger"].status = "ok"
                    THEN Larger(fence, mgr'["ledger"].val) ELSE fence
    BY <1>4 DEF ReadBack
  <2>2. FenceOf(fence, p)
    BY <2>1 DEF FenceInv
  <2>3. CASE mgr'["ledger"].status = "ok"
    <3>1. ~u
      BY <1>1, <2>1, <2>3, LoadTrusts
    <3>2. /\ fence' = mgr'["ledger"].val /\ FenceOf(mgr'["ledger"].val, p)
      BY <1>1, <2>1, <2>2, <2>3, TrustedIsAbove
    <3>3. mgr'["ledger"].val >= fence'
      BY <1>1, <3>2
    <3> QED
      BY <2>1, <3>1, <3>2, <3>3
  <2>4. CASE mgr'["ledger"].status # "ok"
    BY <2>1, <2>4 DEF FenceInv
  <2> QED
    BY <2>3, <2>4
<1>5. ASSUME NEW s \in Slots, Wear("ledger", s)
      PROVE  Held
  <2> DEFINE p == visible["ledger"]
             q == visible'["ledger"]
             o == Other(s)
  <2>1. /\ visible = durable /\ durable' = visible' /\ mgr' = mgr
        /\ q[o] = p[o] /\ p[s].state = "record"
        /\ \/ q[s] \in {Absent, Corrupt}
           \/ /\ q[s].state = "unreadable" /\ q[s].gen = p[s].gen /\ q[s].val = p[s].val
    BY <1>1, <1>5, WearsOut DEF Changes, Wear
  <2>2. CrashPairs("ledger") = {p} /\ CrashPairs("ledger")' = {q}
    BY <1>1, <1>2, <2>1, LossesAre
  <2>3. FenceOf(fence, p)
    BY <2>2 DEF FenceInv
  <2> DEFINE m == SurvivingMinute(q)
  <2>4. fence' = IF fence <= m THEN fence ELSE m
    BY <1>5 DEF Wear
  <2>5. /\ m \in Nat /\ \A t \in Readable(q) : q[t].val <= m
        /\ m = 0 \/ \E t \in Readable(q) : q[t].val = m
    BY <1>1, SurvivingMinuteIs, MinutesAreNumbers
  <2>6. q \in Pairs("ledger") /\ p \in Pairs("ledger")
    BY <1>1
  <2> HIDE DEF p, q, m
  <2>7. \A t \in Slots : /\ t \in Present(p) => p[t].val \in Nat
                         /\ t \in Present(q) => q[t].val \in Nat
                         /\ t \in Readable(q) => t \in Present(q)
    BY <2>6, LedgerFiles, MinutesAreNumbers
  <2>8. fence' <= fence /\ fence' <= m /\ fence' \in Nat
    BY <1>1, <2>4, <2>5
  <2>9. s \notin Readable(q) /\ o \in Slots /\ o # s /\ \A t \in Slots : t = s \/ t = o
    BY <2>1, MadeFiles, TwoSlots, <1>1 DEF Readable
  <2>10. fence' = 0 \/ \E t \in Readable(q) : q[t].val >= fence'
    BY <2>5, <2>7, <2>8 DEF Readable
  <2>11. ASSUME NEW t \in Present(q), \A r \in Present(q) : q[r].gen <= q[t].gen
         PROVE  q[t].val >= fence'
    <3>1. t \in Slots /\ q[t].val \in Nat
      BY <2>7, <2>11 DEF Present
    <3>2. CASE Readable(q) = {}
      BY <2>10, <3>1, <3>2
    <3>3. CASE Readable(q) = {o} /\ t = o
      <4>1. fence' = 0 \/ q[o].val >= fence'
        BY <2>10, <3>3
      <4> QED
        BY <3>1, <3>3, <4>1
    <3>4. CASE Readable(q) = {o} /\ t = s
      <4>1. q[s].state = "unreadable"
        BY <1>1, <2>1, <2>9, <2>11, <3>4, MadeFiles DEF Present
      <4>2. /\ s \in Present(p) /\ o \in Present(p) /\ o \in Present(q)
            /\ p[s].gen = q[s].gen /\ p[s].val = q[s].val /\ p[o] = q[o]
        BY <1>1, <2>1, <2>7, <2>9, <3>4, <4>1, MadeFiles DEF Present
      <4>3. \A r \in Present(p) : p[r].gen <= p[s].gen
        BY <2>9, <2>11, <3>4, <4>2 DEF Present
      <4>4. p[s].val >= fence
        BY <2>3, <4>2, <4>3 DEF FenceOf
      <4> QED
        BY <1>1, <2>8, <3>1, <3>4, <4>2, <4>4
    <3> QED
      BY <2>9, <3>1, <3>2, <3>3, <3>4 DEF Readable
  <2>12. FenceOf(fence', q)
    BY <2>10, <2>11 DEF FenceOf
  <2>13. ASSUME mgr["ledger"].status = "ok"
         PROVE  mgr["ledger"].val >= fence'
    <3>1. mgr["ledger"].val >= fence
      BY <2>13 DEF FenceInv
    <3> QED
      BY <1>1, <2>8, <3>1
  <2> QED
    BY <2>1, <2>2, <2>12, <2>13 DEF q
<1>6. ASSUME NEW s \in Slots, Heal("ledger", s)
      PROVE  Held
  <2> DEFINE p == visible["ledger"]
             q == visible'["ledger"]
             o == Other(s)
  <2>1. /\ visible = durable /\ durable' = visible' /\ mgr' = mgr /\ fence' = fence
        /\ q[o] = p[o] /\ p[s].state = "unreadable" /\ q[s].state = "record"
        /\ q[s].gen = p[s].gen /\ q[s].val = p[s].val
    BY <1>1, <1>6, Heals DEF Changes, Heal, history
  <2>2. CrashPairs("ledger") = {p} /\ CrashPairs("ledger")' = {q}
    BY <1>1, <1>2, <2>1, LossesAre
  <2>3. FenceOf(fence, p)
    BY <2>2 DEF FenceInv
  <2> HIDE DEF p, q
  <2>4. \A t \in Slots : /\ (t \in Present(p)) <=> (t \in Present(q))
                         /\ q[t].gen = p[t].gen /\ q[t].val = p[t].val
                         /\ t \in Readable(p) => t \in Readable(q)
    BY <2>1, TwoSlots DEF Present, Readable
  <2>5. FenceOf(fence, q)
    BY <2>3, <2>4 DEF FenceOf, Present, Readable
  <2> QED
    BY <2>1, <2>2, <2>5 DEF FenceInv, q
<1>7. ASSUME NEW v \in Values("ledger"), Begins("ledger", v)
      PROVE  Held
  <2>1. /\ UNCHANGED <<visible, durable, fence>>
        /\ mgr' = mgr \/ mgr' = [mgr EXCEPT !["ledger"].faulted = TRUE]
    BY <1>1, <1>7, BegunProgresses
  <2>2. mgr'["ledger"].val = mgr["ledger"].val /\ mgr'["ledger"].status = mgr["ledger"].status
    BY <1>1, <2>1 DEF Typed, ManagerTyped, Managers
  <2> QED
    BY <1>2, <2>1, <2>2 DEF FenceInv
<1> HIDE DEF Held
<1>8. Held
  <2>1. CASE Harmed("ledger")
    BY <1>5, <1>6, <2>1 DEF Harmed
  <2> QED
    BY <1>1, <1>3, <1>4, <1>7, <2>1, DomainStep
<1> QED
  BY <1>8, FenceGuardStep DEF FenceInv, Held

LEMMA FenceInit == Init => FenceInv
<1> SUFFICES ASSUME Init PROVE FenceInv
  OBVIOUS
<1>1. ShapeInv /\ "ledger" \in Domains /\ fence = 0
  BY InitShape DEF Init, Domains
<1>2. /\ visible["ledger"] \in Pairs("ledger") /\ durable["ledger"] \in Pairs("ledger")
      /\ mgr["ledger"].val \in Nat
  BY <1>1, MinutesAreNumbers DEF ShapeInv, Typed, DiskTyped, ManagerTyped, Managers, Domains
<1>3. ASSUME NEW p \in CrashPairs("ledger")
      PROVE  FenceOf(0, p)
  <2>1. p \in Pairs("ledger")
    BY <1>1, <1>2, CrashesAreLosses, LossesAre
  <2>2. \A s \in Present(p) : p[s].val >= 0
    <3> TAKE s \in Present(p)
    <3>1. p[s].val \in Nat
      BY <2>1, LedgerFiles, MinutesAreNumbers DEF Present
    <3> QED
      BY <3>1
  <2> QED
    BY <2>2 DEF FenceOf
<1> QED
  BY <1>1, <1>2, <1>3 DEF FenceInv, FenceGuarded

-----------------------------------------------------------------------------
(* What a power loss leaves on a sound medium.                             *)
Held(among, p) ==
    /\ \A s \in Slots : p[s].state # "unreadable"
    /\ Readable(p) # {}
    /\ \A s \in Readable(p) :
          (\A t \in Readable(p) : p[t].gen <= p[s].gen) => Canonical(p[s].val) \in among

Surviving(d) == doubt[d] \cup {settled[d]}

(* While a domain is written, what is left beside the slot survives. *)
SurvivorGuarded(d) ==
    op.domain = d /\ Working =>
        /\ Step.kind = "publish"
        /\ Beside.state = "record" /\ Canonical(Beside.val) \in Surviving(d)

SurvivorOf(d) ==
    /\ wear.sound /\ settled[d] # None =>
         (\A p \in CrashPairs(d) : Held(Surviving(d), p)) /\ SurvivorGuarded(d)
    /\ mgr[d].status = "ok" => settled[d] # None

(* The configuration has been operated on, or there is something of it. *)
Touched ==
    \/ mgr["config"].status # "first_boot" \/ mgr["config"].faulted
    \/ unsure["config"] \/ op.domain = "config"
    \/ visible["config"] # EmptyPair \/ durable["config"] # EmptyPair

SurvivorInv ==
    /\ \A d \in Domains : SurvivorOf(d)
    /\ wear.sound /\ Touched => settled["ledger"] # None

LEMMA TrustedIsHeld ==
    ASSUME NEW d \in Domains, NEW p \in Pairs(d), NEW u \in BOOLEAN,
           Load(d, p, u).status = "ok"
    PROVE  Held({Load(d, p, u).val}, p)
<1> DEFINE v == Load(d, p, u).val
<1>1. PICK s \in Slots : (\A t \in Slots : p[t].gen <= p[s].gen) /\ v = Canonical(p[s].val)
  BY LoadTrusts
<1>2. Matched(p)
  BY LoadTrusts
<1> HIDE DEF v
<1>3. \A t \in Slots : p[t].state = "record" /\ t \in Readable(p) /\ p[t].gen \in Nat
  <2> TAKE t \in Slots
  <2>1. p[t] \in Files(d)
    BY DEF Pairs
  <2> QED
    BY <1>2, <2>1, FilesAre, GenerationAssumption DEF Matched, Readable
<1>4. ASSUME NEW t \in Readable(p), \A r \in Readable(p) : p[r].gen <= p[t].gen
      PROVE  Canonical(p[t].val) = v
  <2>1. p[t].gen = p[s].gen
    BY <1>1, <1>3, <1>4 DEF Readable
  <2>2. CASE t = s
    BY <1>1, <2>2
  <2>3. CASE t # s
    BY <1>1, <1>2, <1>4, <2>1, <2>3 DEF Matched, Slots, Readable
  <2> QED
    BY <2>2, <2>3
<1> QED
  BY <1>3, <1>4 DEF Held, v

LEMMA HeldGrows ==
    ASSUME NEW S, NEW T, S \subseteq T, NEW p, Held(S, p)
    PROVE  Held(T, p)
  BY DEF Held

LEMMA KeeperIsHeld ==
    ASSUME NEW d \in Domains, NEW p \in Pairs(d), NEW S, Held(S, p),
           NEW o \in Slots, Keeper(p, o)
    PROVE  p[o].state = "record" /\ Canonical(p[o].val) \in S
  BY DEF Held, Keeper, Readable

LEMMA EmptyIsFirst == \A d \in Domains : /\ Load(d, EmptyPair, FALSE).status = "first_boot"
                                         /\ ~Load(d, EmptyPair, FALSE).faulted
<1> TAKE d \in Domains
<1>1. \A s \in Slots : EmptyPair[s].state = "absent"
  BY MadeFiles DEF EmptyPair
<1>2. Valid(EmptyPair) = {}
  BY <1>1 DEF Valid, Readable
<1>3. LoadStatus(EmptyPair) = "first_boot"
  BY <1>2 DEF LoadStatus
<1>4. TrustedStatus(EmptyPair, FALSE) = "first_boot"
  BY <1>3 DEF TrustedStatus
<1>5. Load(d, EmptyPair, FALSE).status = "first_boot"
  BY <1>4 DEF Load
<1>6. EmptyPair \in Pairs(d) /\ FALSE \in BOOLEAN
  BY MadeFiles
<1>7. ~Load(d, EmptyPair, FALSE).faulted
  BY <1>5, <1>6, LoadIsManager
<1> QED
  BY <1>5, <1>7

LEMMA SurvivorGuardStep ==
    ASSUME ShapeInv, Next, NEW d \in Domains, SurvivorOf(d), wear'.sound,
           settled'[d] # None, wear.sound, settled[d] # None
    PROVE  SurvivorGuarded(d)'
<1> SUFFICES ASSUME op'.domain = d, Working'
             PROVE  /\ Step'.kind = "publish"
                    /\ Beside'.state = "record"
                    /\ Canonical(Beside'.val) \in doubt'[d] \cup {settled'[d]}
  BY DEF SurvivorGuarded, Surviving
<1>1. /\ Typed /\ visible[d] \in Pairs(d) /\ durable[d] \in Pairs(d)
  BY DEF ShapeInv, Typed, DiskTyped
<1>2. ASSUME NEW e \in Domains, NEW v \in Values(e), Begins(e, v)
      PROVE  /\ Step'.kind = "publish" /\ Beside'.state = "record"
             /\ Canonical(Beside'.val) \in doubt'[d] \cup {settled'[d]}
  <2>1. e = d /\ settled' = settled /\ doubt' = [doubt EXCEPT ![d] = @ \cup {v}]
    BY <1>2, BegunProgresses
  <2>2. Surviving(d) \subseteq doubt'[d] \cup {settled'[d]}
    BY <1>1, <2>1 DEF Surviving, Typed, HistoryTyped
  <2> DEFINE p == visible[d]
             o == Other(Step'.slot)
  <2>3. p \in CrashPairs(d)
    BY <1>1, CrashesAreLosses, LossesAre
  <2>4. Held(Surviving(d), p)
    BY <2>3 DEF SurvivorOf
  <2>5. Beside' = p[o] /\ o \in Slots /\ Step'.kind = "publish" /\ Keeper(p, o)
    BY <1>2, <2>1, <2>4, BegunBesides DEF Held
  <2>6. p[o].state = "record" /\ Canonical(p[o].val) \in Surviving(d)
    BY <1>1, <2>4, <2>5, KeeperIsHeld
  <2> QED
    BY <2>2, <2>5, <2>6
<1>3. CASE Continues
  <2>1. /\ settled' = settled /\ doubt' = doubt /\ op.val = op'.val
        /\ Working /\ op.domain = d /\ Running /\ Progress
    BY <1>3 DEF Continues
  <2>2. /\ Step.kind = "publish"
        /\ Beside.state = "record" /\ Canonical(Beside.val) \in Surviving(d)
    BY <2>1 DEF SurvivorOf, SurvivorGuarded
  <2>3. /\ Written.state = "record" /\ Written.val = op.val /\ op.val \in doubt[d]
        /\ op.val \in Values(d)
    BY <1>1, <2>1, <2>2, StepIs DEF Progress
  <2>4. Canonical(Written.val) \in Surviving(d)
    BY <2>3, ValuesAreCanonical DEF Surviving
  <2> QED
    BY <1>3, <2>1, <2>2, <2>3, <2>4 DEF Continues, Surviving
<1> QED
  BY <1>2, <1>3, OpStep

LEMMA SurvivorOfStep ==
    ASSUME ShapeInv, Next, NEW d \in Domains, SurvivorOf(d)
    PROVE  SurvivorOf(d)' /\ (settled[d] # None => settled'[d] # None)
<1>1. /\ Typed /\ visible[d] \in Pairs(d) /\ durable[d] \in Pairs(d)
      /\ visible'[d] \in Pairs(d) /\ durable'[d] \in Pairs(d) /\ mgr'[d].val \in Values(d)
  BY ShapeStep DEF ShapeInv, Typed, DiskTyped, ManagerTyped, Managers
<1>2. /\ CrashPairs(d) = Losses(d, visible[d], durable[d])
      /\ CrashPairs(d)' = Losses(d, visible'[d], durable'[d])
  BY <1>1, CrashesAreLosses, CrashesAreLossesNext
<1> DEFINE among == doubt'[d] \cup {settled'[d]}
           Kept == wear'.sound /\ settled'[d] # None =>
                     /\ \A p \in CrashPairs(d)' : Held(among, p)
                     /\ ~Working' \/ (wear.sound /\ settled[d] # None)
           Sure == mgr'[d].status = "ok" => settled'[d] # None
           Stays == settled[d] # None => settled'[d] # None
<1>3. ASSUME Rests(d)
      PROVE  Kept /\ Sure /\ Stays
  <2>1. /\ settled'[d] = settled[d] /\ doubt'[d] = doubt[d] /\ mgr'[d].status = mgr[d].status
        /\ wear'.sound => wear.sound
    BY <1>3 DEF Rests
  <2>2. ASSUME NEW p \in Pairs(d), Overwritten(d, p), wear.sound, settled[d] # None
        PROVE  Held(among, p)
    <3>1. PICK s \in Slots : s = Step.slot
      BY <1>1, <2>2, StepIs DEF Overwritten
    <3>2. /\ op.domain = d /\ Running /\ Working /\ Progress
          /\ p[s] \in {Written, Corrupt} /\ p[Other(s)] = Beside
      BY <2>2, <3>1 DEF Overwritten
    <3>3. /\ Step.kind = "publish"
          /\ Beside.state = "record" /\ Canonical(Beside.val) \in Surviving(d)
      BY <2>2, <3>2 DEF SurvivorOf, SurvivorGuarded
    <3>4. /\ Written.state = "record" /\ Written.val = op.val /\ op.val \in doubt[d]
          /\ op.val \in Values(d) /\ Corrupt.state = "corrupt"
      BY <1>1, <3>2, <3>3, StepIs, MadeFiles DEF Progress
    <3>5. Canonical(Written.val) \in Surviving(d)
      BY <3>4, ValuesAreCanonical DEF Surviving
    <3>6. /\ \A t \in Slots : p[t].state # "unreadable"
          /\ \A t \in Readable(p) : Canonical(p[t].val) \in Surviving(d)
      BY <3>2, <3>3, <3>4, <3>5, TwoSlots DEF Readable
    <3>7. Other(s) \in Readable(p)
      BY <3>2, <3>3, TwoSlots DEF Readable
    <3> QED
      BY <2>1, <3>6, <3>7 DEF Held, Surviving
  <2>3. \A p \in CrashPairs(d)' : p \in Pairs(d) /\ (p \in CrashPairs(d) \/ Overwritten(d, p))
    BY <1>2, <1>3 DEF Rests, Losses
  <2>4. Kept
    BY <2>1, <2>2, <2>3 DEF SurvivorOf, Surviving
  <2> QED
    BY <2>1, <2>4 DEF SurvivorOf
<1>4. ASSUME NEW p, NEW u, ReadBack(d, p, u)
      PROVE  Kept /\ Sure /\ Stays
  <2>1. /\ p \in Pairs(d) /\ u \in BOOLEAN /\ mgr'[d] = Load(d, p, u)
        /\ CrashPairs(d)' \subseteq CrashPairs(d)
        /\ ~u => CrashPairs(d)' = {p}
        /\ wear'.sound = wear.sound /\ op' = NoOp
    BY <1>4 DEF ReadBack
  <2>2. ~Working'
    BY <2>1, NoOpIs DEF Working
  <2>3. CASE mgr'[d].status = "ok"
    <3>1. settled'[d] = mgr'[d].val /\ doubt'[d] = {}
      BY <1>4, <2>3 DEF ReadBack
    <3>2. ~u /\ Held({settled'[d]}, p)
      BY <2>1, <2>3, <3>1, LoadTrusts, TrustedIsHeld
    <3>3. settled'[d] # None
      BY <1>1, <3>1, ValuesAreCanonical
    <3>4. Held(among, p)
      BY <3>2, HeldGrows
    <3> QED
      BY <2>1, <2>2, <3>2, <3>3, <3>4
  <2>4. CASE mgr'[d].status # "ok"
    <3>1. settled'[d] = settled[d] /\ doubt'[d] = doubt[d]
      BY <1>4, <2>4 DEF ReadBack
    <3> QED
      BY <2>1, <2>2, <2>4, <3>1 DEF SurvivorOf, Surviving
  <2> QED
    BY <2>3, <2>4
<1>5. ASSUME NEW s \in Slots, Wear(d, s)
      PROVE  Kept /\ Sure /\ Stays
  <2>1. wear'.sound = FALSE /\ UNCHANGED <<settled, mgr>>
    BY <1>5 DEF Wear
  <2> QED
    BY <2>1 DEF SurvivorOf
<1>6. ASSUME NEW s \in Slots, Heal(d, s)
      PROVE  Kept /\ Sure /\ Stays
  <2>1. wear'.sound = wear.sound /\ UNCHANGED <<settled, mgr>>
    BY <1>1, <1>6 DEF Heal, history, Typed, HistoryTyped
  <2>2. visible[d][s].state = "unreadable"
    BY <1>6 DEF Heal
  <2>3. visible[d] \in CrashPairs(d)
    BY <1>1, <1>2, LossesAre
  <2>4. ~(wear.sound /\ settled[d] # None)
    BY <2>2, <2>3 DEF SurvivorOf, Held
  <2> QED
    BY <2>1, <2>4 DEF SurvivorOf
<1>7. ASSUME NEW v \in Values(d), Begins(d, v)
      PROVE  Kept /\ Sure /\ Stays
  <2>1. /\ UNCHANGED <<visible, durable, wear, settled>>
        /\ doubt' = [doubt EXCEPT ![d] = @ \cup {v}]
        /\ mgr' = mgr \/ mgr' = [mgr EXCEPT ![d].faulted = TRUE]
    BY <1>7, BegunProgresses
  <2>2. mgr'[d].status = mgr[d].status
    BY <1>1, <2>1 DEF Typed, ManagerTyped, Managers
  <2>3. Surviving(d) \subseteq among
    BY <1>1, <2>1 DEF Surviving, Typed, HistoryTyped
  <2>4. CrashPairs(d)' = CrashPairs(d)
    BY <1>2, <2>1
  <2> HIDE DEF among
  <2>5. Kept
    BY <2>1, <2>3, <2>4, HeldGrows DEF SurvivorOf
  <2> QED
    BY <2>1, <2>2, <2>5 DEF SurvivorOf
<1> HIDE DEF Kept, Sure, Stays
<1>8. Kept /\ Sure /\ Stays
  <2>1. CASE Harmed(d)
    BY <1>5, <1>6, <2>1 DEF Harmed
  <2> QED
    BY <1>3, <1>4, <1>7, <2>1, DomainStep
<1>9. wear'.sound /\ settled'[d] # None => SurvivorGuarded(d)'
  BY <1>8, SurvivorGuardStep DEF Kept, SurvivorGuarded
<1> QED
  BY <1>8, <1>9 DEF Kept, Sure, Stays, SurvivorOf, Surviving

(* Nothing of a configuration comes to be without a confirmed ledger. *)
LEMMA TouchedStep ==
    ASSUME ShapeInv, Next, SurvivorInv, ~Touched, Touched'
    PROVE  settled["ledger"] # None
<1>1. /\ Typed /\ "config" \in Domains /\ "ledger" \in Domains
      /\ visible["config"] \in Pairs("config") /\ durable["config"] \in Pairs("config")
      /\ visible'["config"] \in Pairs("config") /\ durable'["config"] \in Pairs("config")
      /\ mgr["config"].gen = 0 /\ unsure["config"] \in BOOLEAN
  BY ShapeStep DEF ShapeInv, Typed, DiskTyped, ManagerTyped, Touched, Domains
<1>2. /\ CrashPairs("config") = {EmptyPair}
      /\ CrashPairs("config")' = Losses("config", visible'["config"], durable'["config"])
  BY <1>1, CrashesAreLosses, CrashesAreLossesNext, LossesAre DEF Touched
<1>3. Grounded => settled["ledger"] # None
  BY <1>1 DEF Grounded, FirstProvision, Touched, SurvivorInv, SurvivorOf
<1>4. visible'["config"] \in CrashPairs("config")' /\ durable'["config"] \in CrashPairs("config")'
  BY <1>1, <1>2, LossesAre
<1>5. ASSUME Rests("config") PROVE settled["ledger"] # None
  <2>1. op.domain # "config" /\ op'.domain # "config" /\ ~unsure'["config"]
    BY <1>5 DEF Rests, Touched
  <2>2. \A p \in CrashPairs("config")' : p = EmptyPair
    BY <1>2, <1>5, <2>1 DEF Rests, Overwritten
  <2>3. mgr'["config"].status = "first_boot"
    BY <1>5 DEF Rests, Touched
  <2>4. mgr'["config"].faulted
    BY <1>4, <2>1, <2>2, <2>3 DEF Touched
  <2> QED
    BY <1>3, <1>5, <2>1, <2>4 DEF Rests, Touched
<1>6. ASSUME NEW p, NEW u, ReadBack("config", p, u)
      PROVE  FALSE
  <2>1. /\ p = EmptyPair /\ ~u /\ mgr'["config"] = Load("config", p, u) /\ op' = NoOp
        /\ visible'["config"] = p /\ durable'["config"] = p /\ ~unsure'["config"]
    BY <1>2, <1>6 DEF ReadBack, Touched
  <2>2. u = FALSE
    BY <1>6, <2>1 DEF ReadBack
  <2>3. mgr'["config"].status = "first_boot" /\ ~mgr'["config"].faulted
    BY <1>1, <2>1, <2>2, EmptyIsFirst
  <2>4. op'.domain # "config"
    BY <1>1, <2>1, NoOpIs
  <2> QED
    BY <2>1, <2>3, <2>4 DEF Touched
<1>7. ASSUME NEW s \in Slots, Wear("config", s) \/ Heal("config", s)
      PROVE  FALSE
  <2>1. visible["config"][s].state \in {"record", "unreadable"}
    BY <1>7 DEF Wear, Heal
  <2>2. visible["config"][s] = Absent
    BY DEF Touched, EmptyPair
  <2> QED
    BY <1>1, <2>1, <2>2, MadeFiles
<1>8. ASSUME NEW v \in Values("config"), Begins("config", v)
      PROVE  settled["ledger"] # None
  BY <1>3, <1>8 DEF Begins, Commits, Recovers
<1>9. ~Harmed("config")
  BY <1>7 DEF Harmed
<1> QED
  BY <1>1, <1>5, <1>6, <1>8, <1>9, DomainStep

LEMMA SurvivorStep ==
    ASSUME ShapeInv, Next, SurvivorInv
    PROVE  SurvivorInv'
<1>1. \A d \in Domains : SurvivorOf(d)' /\ (settled[d] # None => settled'[d] # None)
  BY SurvivorOfStep DEF SurvivorInv
<1>2. wear'.sound => wear.sound
  <2>1. "ledger" \in Domains
    BY DEF Domains
  <2>2. Harmed("ledger") => (wear'.sound => wear.sound)
    BY DEF Harmed, Wear, Heal, ShapeInv, Typed, HistoryTyped
  <2>3. \A v \in Values("ledger") : Begins("ledger", v) => wear' = wear
    BY <2>1, BegunProgresses
  <2> QED
    BY <2>1, <2>2, <2>3, DomainStep DEF Rests, ReadBack
<1>3. ASSUME wear'.sound, Touched'
      PROVE  settled'["ledger"] # None
  <2>1. CASE Touched
    BY <1>1, <1>2, <1>3, <2>1 DEF SurvivorInv, Domains
  <2>2. CASE ~Touched
    BY <1>1, <1>3, <2>2, TouchedStep DEF Domains
  <2> QED
    BY <2>1, <2>2
<1> QED
  BY <1>1, <1>3 DEF SurvivorInv

LEMMA SurvivorInit == Init => SurvivorInv
<1> SUFFICES ASSUME Init PROVE SurvivorInv
  OBVIOUS
<1>1. ShapeInv /\ durable = visible /\ op = NoOp /\ ~Working
  BY InitShape, NoOpIs DEF Init, Working
<1>2. \A d \in Domains :
        /\ unsure[d] = FALSE /\ mgr[d] = Load(d, visible[d], FALSE)
        /\ settled[d] = IF mgr[d].status = "ok" THEN mgr[d].val ELSE None
        /\ visible[d] \in Pairs(d) /\ mgr[d].val \in Values(d)
  BY <1>1 DEF Init, ShapeInv, Typed, DiskTyped, ManagerTyped, Managers
<1>3. ASSUME NEW d \in Domains
      PROVE  SurvivorOf(d)
  <2>1. CrashPairs(d) = {visible[d]}
    BY <1>1, <1>2, CrashesAreLosses, LossesAre
  <2>2. mgr[d].status = "ok" <=> settled[d] # None
    BY <1>2, ValuesAreCanonical
  <2>3. mgr[d].status = "ok" => Held({settled[d]}, visible[d])
    BY <1>2, TrustedIsHeld
  <2>4. mgr[d].status = "ok" => Held(Surviving(d), visible[d])
    BY <2>3, HeldGrows DEF Surviving
  <2> QED
    BY <1>1, <2>1, <2>2, <2>4 DEF SurvivorOf, SurvivorGuarded
<1>4. ASSUME Touched
      PROVE  settled["ledger"] # None
  <2>1. "config" \in Domains /\ "ledger" \in Domains
    BY DEF Domains
  <2>2. visible["config"] # EmptyPair
    <3>1. op.domain # "config"
      BY <1>1, <2>1, NoOpIs
    <3>2. mgr["config"] = Load("config", visible["config"], FALSE) /\ ~unsure["config"]
      BY <1>2, <2>1
    <3> QED
      BY <1>1, <1>4, <2>1, <3>1, <3>2, EmptyIsFirst DEF Touched
  <2> DEFINE fresh == [s \in Slots |-> Record(IF s = "a" THEN 1 ELSE 2, 0)]
  <2>3. visible["ledger"] = fresh
    <3>1. PICK device \in InitialDevices :
            visible = [d \in Domains |->
                         IF d = "config" THEN device.config
                         ELSE IF device.config = EmptyPair THEN EmptyPair ELSE fresh]
      BY DEF Init
    <3> HIDE DEF fresh
    <3> QED
      BY <2>1, <2>2, <3>1
  <2>4. /\ fresh["a"] = Record(1, 0) /\ fresh["b"] = Record(2, 0)
    BY DEF Slots
  <2> HIDE DEF fresh
  <2>5. /\ 1 \in 1 .. MaxGeneration /\ 2 \in 1 .. MaxGeneration
        /\ 0 \in Payloads("ledger") /\ 0 # Foreign
    BY GenerationAssumption, MinutesAreNumbers, ValuesAreCanonical, <2>1
  <2>6. /\ fresh["a"].state = "record" /\ fresh["a"].gen = 1 /\ fresh["a"].val = 0
        /\ fresh["b"].state = "record" /\ fresh["b"].gen = 2 /\ fresh["b"].val = 0
    BY <2>1, <2>4, <2>5, MadeFiles
  <2>7. Matched(fresh)
    BY <2>5, <2>6 DEF Matched, Slots
  <2>8. mgr["ledger"].status = "ok"
    BY <1>2, <2>1, <2>3, <2>7, LoadsWhatMatches
  <2> QED
    BY <1>2, <2>1, <2>8, ValuesAreCanonical
<1> QED
  BY <1>3, <1>4 DEF SurvivorInv

LEMMA SurvivorsSurvive ==
    ASSUME ShapeInv, SurvivorInv
    PROVE  CrashKeepsSurvivor /\ LedgerFirst
<1>1. ASSUME NEW d \in Domains, wear.sound, settled[d] # None, NEW p \in CrashPairs(d)
      PROVE  \E s \in Readable(p) : Canonical(p[s].val) \in Surviving(d)
  <2>1. p \in Pairs(d)
    BY CrashesAreLosses, LossesAre DEF ShapeInv, Typed, DiskTyped
  <2>2. Held(Surviving(d), p)
    BY <1>1 DEF SurvivorInv, SurvivorOf
  <2>3. Readable(p) # {} /\ Readable(p) \in SUBSET Slots
    BY <2>2 DEF Held, Readable
  <2>4. PICK s \in Slots : IsNewest(p, Readable(p), s)
    BY <2>1, <2>3, NewestExists
  <2> QED
    BY <2>2, <2>4 DEF Held, IsNewest
<1>2. CrashKeepsSurvivor
  BY <1>1 DEF CrashKeepsSurvivor, Surviving
<1>3. ASSUME wear.sound, Readable(visible["config"]) # {}, NEW p \in CrashPairs("ledger")
      PROVE  Readable(p) # {}
  <2>1. visible["config"] # EmptyPair
    <3>1. "config" \in Domains
      BY DEF Domains
    <3>2. \A s \in Slots : EmptyPair[s].state = "absent"
      BY <3>1, MadeFiles DEF EmptyPair
    <3> QED
      BY <1>3, <3>2 DEF Readable
  <2>2. settled["ledger"] # None
    BY <1>3, <2>1 DEF SurvivorInv, Touched
  <2> QED
    BY <1>1, <1>3, <2>2 DEF Domains
<1> QED
  BY <1>2, <1>3 DEF LedgerFirst

-----------------------------------------------------------------------------
(* What a domain may yet be trusted with, even if unreadable files heal.   *)
Matches(p) ==
    /\ \A s \in Slots : s \in Present(p) /\ p[s].val # Foreign
    /\ p["a"].gen - p["b"].gen \in -1 .. 1
    /\ p["a"].gen = p["b"].gen => p["a"].val = p["b"].val

Apt(among, p) ==
    Matches(p) => \A s \in Slots : (\A t \in Slots : p[t].gen <= p[s].gen) =>
                                      Canonical(p[s].val) \in among

(* Only a newer generation is published beside a record, unless that one   *)
(* is open too.                                                            *)
NewerGuarded(d) ==
    op.domain = d /\ Working /\ Step.kind = "publish" =>
        \/ Beside.state \notin {"record", "unreadable"}
        \/ Beside.gen < Step.gen
        \/ Beside.val \in doubt[d]

RegisterOf(d) ==
    /\ \A p \in CrashPairs(d) : Apt(Surviving(d), p)
    /\ mgr[d].status = "first_boot" =>
         \A p \in CrashPairs(d) : \A s \in Present(p) : p[s].val \in doubt[d]
    /\ NewerGuarded(d)

LEMMA HeldIsApt ==
    ASSUME NEW p, NEW S, Held(S, p), Matched(p)
    PROVE  Apt(S, p)
  BY DEF Held, Matched, Apt, Readable

LEMMA EmptyIsNothing ==
    ASSUME NEW d \in Domains, NEW s \in Present(EmptyPair)
    PROVE  FALSE
<1>1. EmptyPair[s] = Absent
  BY DEF EmptyPair, Present
<1> QED
  BY <1>1, MadeFiles DEF Present

LEMMA NewerGuardStep ==
    ASSUME ShapeInv, Next, NEW d \in Domains, RegisterOf(d)
    PROVE  NewerGuarded(d)'
<1> SUFFICES ASSUME op'.domain = d, Working', Step'.kind = "publish"
             PROVE  \/ Beside'.state \notin {"record", "unreadable"}
                    \/ Beside'.gen < Step'.gen
                    \/ Beside'.val \in doubt'[d]
  BY DEF NewerGuarded
<1>1. /\ Typed /\ visible[d] \in Pairs(d) /\ durable[d] \in Pairs(d)
      /\ mgr[d].status \in Statuses /\ (mgr[d].status = "ok" => mgr[d].gen > 0)
  BY DEF ShapeInv, Typed, DiskTyped, ManagerTyped, Managers
<1>2. ASSUME NEW e \in Domains, NEW v \in Values(e), Begins(e, v)
      PROVE  \/ Beside'.state \notin {"record", "unreadable"}
             \/ Beside'.gen < Step'.gen
             \/ Beside'.val \in doubt'[d]
  <2>1. e = d /\ doubt' = [doubt EXCEPT ![d] = @ \cup {v}]
    BY <1>2, BegunProgresses
  <2>2. doubt[d] \subseteq doubt'[d]
    BY <1>1, <2>1 DEF Typed, HistoryTyped
  <2> DEFINE p == visible[d]
             o == Other(Step'.slot)
  <2>3. /\ Beside' = p[o] /\ o \in Slots
        /\ Readable(p) # {} => Keeper(p, o)
        /\ Step'.gen = LatestGeneration(p) + 1
        /\ Readable(p) = {} => Commits(d, v) \/ p[o].state = "absent"
    BY <1>2, <2>1, BegunBesides
  <2>4. CASE Readable(p) # {}
    <3>1. p[o].gen <= LatestGeneration(p) /\ LatestGeneration(p) \in 0 .. MaxGeneration
      BY <1>1, <2>3, <2>4, LatestIs DEF Keeper
    <3>2. p[o].gen \in 0 .. MaxGeneration
      BY <1>1, <2>3, FilesAre DEF Pairs
    <3>3. p[o].gen < Step'.gen
      BY <2>3, <3>1, <3>2, GenerationAssumption
    <3> QED
      BY <2>3, <3>3
  <2>5. CASE Readable(p) = {} /\ Commits(d, v)
    <3>1. mgr[d].gen = 0
      BY <1>1, <2>5, LatestIs DEF Commits, Accepts
    <3>2. mgr[d].status = "first_boot"
      BY <1>1, <2>5, <3>1 DEF Commits, Untrusted, Statuses
    <3>3. p \in CrashPairs(d)
      BY <1>1, CrashesAreLosses, LossesAre
    <3>4. \A s \in Present(p) : p[s].val \in doubt[d]
      BY <3>2, <3>3 DEF RegisterOf
    <3> QED
      BY <2>2, <2>3, <3>4 DEF Present
  <2> QED
    BY <2>3, <2>4, <2>5
<1>3. CASE Continues
  <2>1. /\ doubt' = doubt /\ Working /\ op.domain = d /\ Running /\ Progress
    BY <1>3 DEF Continues
  <2>2. CASE Step' = Step /\ Beside' = Beside
    BY <2>1, <2>2 DEF RegisterOf, NewerGuarded
  <2>3. CASE Step.kind = "publish" /\ Step'.gen = Step.gen + 1 /\ Beside' = Written
    <3>1. Written.gen = Step.gen /\ Step.gen \in 1 .. MaxGeneration
      BY <1>1, <2>1, <2>3, StepIs
    <3>2. Step.gen < Step.gen + 1
      BY <3>1, GenerationAssumption
    <3> QED
      BY <2>3, <3>1, <3>2
  <2>4. CASE Beside' = Absent
    BY <2>4, MadeFiles
  <2> QED
    BY <1>3, <2>2, <2>3, <2>4 DEF Continues
<1> QED
  BY <1>2, <1>3, OpStep

LEMMA RegisterStep ==
    ASSUME ShapeInv, Next, NEW d \in Domains, RegisterOf(d)
    PROVE  RegisterOf(d)'
<1>1. /\ Typed /\ visible[d] \in Pairs(d) /\ durable[d] \in Pairs(d)
      /\ visible'[d] \in Pairs(d) /\ durable'[d] \in Pairs(d)
  BY ShapeStep DEF ShapeInv, Typed, DiskTyped
<1>2. /\ CrashPairs(d) = Losses(d, visible[d], durable[d])
      /\ CrashPairs(d)' = Losses(d, visible'[d], durable'[d])
  BY <1>1, CrashesAreLosses, CrashesAreLossesNext
<1> DEFINE among == doubt'[d] \cup {settled'[d]}
           Ready == \A p \in CrashPairs(d)' : Apt(among, p)
           New == mgr'[d].status = "first_boot" =>
                    \A p \in CrashPairs(d)' : \A s \in Present(p) : p[s].val \in doubt'[d]
<1>3. ASSUME Rests(d)
      PROVE  Ready /\ New
  <2>1. /\ settled'[d] = settled[d] /\ doubt'[d] = doubt[d] /\ mgr'[d].status = mgr[d].status
    BY <1>3 DEF Rests
  <2>2. ASSUME NEW p \in Pairs(d), Overwritten(d, p)
        PROVE  /\ Apt(among, p)
               /\ mgr[d].status = "first_boot" => \A s \in Present(p) : p[s].val \in doubt[d]
    <3>1. PICK s \in Slots : s = Step.slot
      BY <1>1, <2>2, StepIs DEF Overwritten
    <3> DEFINE o == Other(s)
    <3>2. /\ op.domain = d /\ Running /\ Working /\ Progress /\ op.val \in doubt[d]
          /\ p[s] \in {Written, Corrupt} /\ p[o] = Beside
      BY <2>2, <3>1 DEF Overwritten, Progress
    <3>3. /\ Step.kind \in {"publish", "remove"} /\ op.val \in Values(d)
          /\ Step.kind = "remove" => Written = Absent
          /\ Step.kind = "publish" => /\ Written.val = op.val /\ Written.gen = Step.gen
                                      /\ Step.gen \in 1 .. MaxGeneration
      BY <1>1, <3>2, StepIs
    <3>4. o \in Slots /\ o # s /\ \A t \in Slots : t = s \/ t = o
      BY TwoSlots
    <3>5. Absent.state = "absent" /\ Corrupt.state = "corrupt"
      BY MadeFiles
    <3>6. s \in Present(p) => /\ Step.kind = "publish" /\ p[s].val = op.val
                              /\ p[s].gen = Step.gen
      BY <3>2, <3>3, <3>5 DEF Present
    <3>7. Canonical(op.val) = op.val
      BY <3>3, ValuesAreCanonical
    <3>8. Apt(among, p)
      <4> SUFFICES ASSUME Matches(p), NEW t \in Slots, \A r \in Slots : p[r].gen <= p[t].gen
                   PROVE  Canonical(p[t].val) \in among
        BY DEF Apt
      <4>1. /\ Step.kind = "publish" /\ p[s].val = op.val /\ p[s].gen = Step.gen
            /\ Beside.state \in {"record", "unreadable"}
        BY <3>2, <3>4, <3>6 DEF Matches, Present
      <4>2. CASE t = s
        BY <2>1, <3>2, <3>7, <4>1, <4>2
      <4>3. CASE t = o
        <5>1. Step.gen <= Beside.gen
          BY <3>2, <4>1, <4>3
        <5>2. Beside.gen \in 0 .. MaxGeneration
          BY <2>2, <3>2, <3>4, FilesAre DEF Pairs
        <5>3. ~(Beside.gen < Step.gen)
          BY <3>3, <4>1, <5>1, <5>2, GenerationAssumption
        <5>4. Beside.val \in doubt[d]
          BY <3>2, <4>1, <5>3 DEF RegisterOf, NewerGuarded
        <5>5. Beside.val \in Values(d)
          BY <1>1, <5>4 DEF Typed, HistoryTyped
        <5>6. Canonical(Beside.val) = Beside.val
          BY <5>5, ValuesAreCanonical
        <5> QED
          BY <2>1, <3>2, <4>3, <5>4, <5>6
      <4> QED
        BY <3>4, <4>2, <4>3
    <3>9. ASSUME mgr[d].status = "first_boot", NEW t \in Present(p)
          PROVE  p[t].val \in doubt[d]
      <4>1. visible[d] \in CrashPairs(d) /\ Beside = visible[d][o]
        BY <1>1, <1>2, <3>1, <3>2, LossesAre DEF Beside
      <4>2. \A r \in Present(visible[d]) : visible[d][r].val \in doubt[d]
        BY <3>9, <4>1 DEF RegisterOf
      <4>3. CASE t = o
        BY <3>2, <3>4, <3>9, <4>1, <4>2, <4>3 DEF Present
      <4>4. CASE t = s
        BY <3>2, <3>6, <3>9, <4>4
      <4> QED
        BY <3>4, <4>3, <4>4 DEF Present
    <3> QED
      BY <3>8, <3>9
  <2>3. \A p \in CrashPairs(d)' : p \in Pairs(d) /\ (p \in CrashPairs(d) \/ Overwritten(d, p))
    BY <1>2, <1>3 DEF Rests, Losses
  <2> QED
    BY <2>1, <2>2, <2>3 DEF RegisterOf, Surviving
<1>4. ASSUME NEW p, NEW u, ReadBack(d, p, u)
      PROVE  Ready /\ New
  <2>1. /\ p \in Pairs(d) /\ u \in BOOLEAN /\ mgr'[d] = Load(d, p, u)
        /\ CrashPairs(d)' \subseteq CrashPairs(d)
        /\ ~u => CrashPairs(d)' = {p}
    BY <1>4 DEF ReadBack
  <2>2. CASE mgr'[d].status = "ok"
    <3>1. settled'[d] = mgr'[d].val
      BY <1>4, <2>2 DEF ReadBack
    <3>2. ~u /\ Held({settled'[d]}, p) /\ Matched(p)
      BY <2>1, <2>2, <3>1, LoadTrusts, TrustedIsHeld
    <3>3. Apt(among, p)
      BY <3>2, HeldGrows, HeldIsApt
    <3> QED
      BY <2>1, <2>2, <3>2, <3>3
  <2>3. CASE mgr'[d].status # "ok"
    <3>1. settled'[d] = settled[d] /\ doubt'[d] = doubt[d]
      BY <1>4, <2>3 DEF ReadBack
    <3>2. mgr'[d].status = "first_boot" => ~u /\ p = EmptyPair
      BY <2>1, LoadIsManager
    <3>3. New
      BY <2>1, <3>2, EmptyIsNothing
    <3> QED
      BY <2>1, <3>1, <3>3 DEF RegisterOf, Surviving
  <2> QED
    BY <2>2, <2>3
<1>5. ASSUME NEW s \in Slots, Wear(d, s) \/ Heal(d, s)
      PROVE  Ready /\ New
  <2> DEFINE p == visible[d]
             q == visible'[d]
             o == Other(s)
  <2>1. /\ visible = durable /\ durable' = visible' /\ UNCHANGED <<mgr, doubt, settled>>
        /\ q[o] = p[o] /\ p[s].state \in {"record", "unreadable"}
        /\ \/ q[s] \in {Absent, Corrupt}
           \/ q[s].gen = p[s].gen /\ q[s].val = p[s].val
    BY <1>1, <1>5, WearsOut, Heals DEF Changes, Wear, Heal, history
  <2>2. CrashPairs(d) = {p} /\ CrashPairs(d)' = {q}
    BY <1>1, <1>2, <2>1, LossesAre
  <2> HIDE DEF p, q
  <2>3. o \in Slots /\ o # s /\ \A t \in Slots : t = s \/ t = o
    BY TwoSlots
  <2>4. \A t \in Slots : t \in Present(q) => /\ t \in Present(p)
                                             /\ q[t].gen = p[t].gen /\ q[t].val = p[t].val
    BY <2>1, <2>3, MadeFiles DEF Present
  <2>5. Matches(q) => Matches(p) /\ \A t \in Slots : q[t].gen = p[t].gen /\ q[t].val = p[t].val
    BY <2>4 DEF Matches, Slots
  <2>6. Apt(Surviving(d), p)
    BY <2>2 DEF RegisterOf
  <2>7. Apt(Surviving(d), q)
    BY <2>5, <2>6 DEF Apt
  <2>8. mgr[d].status = "first_boot" => \A t \in Present(q) : q[t].val \in doubt[d]
    BY <2>2, <2>4 DEF RegisterOf, Present
  <2> QED
    BY <2>1, <2>2, <2>7, <2>8 DEF Surviving, q
<1>6. ASSUME NEW v \in Values(d), Begins(d, v)
      PROVE  Ready /\ New
  <2>1. /\ UNCHANGED <<visible, durable, settled>>
        /\ doubt' = [doubt EXCEPT ![d] = @ \cup {v}]
        /\ mgr' = mgr \/ mgr' = [mgr EXCEPT ![d].faulted = TRUE]
    BY <1>6, BegunProgresses
  <2>2. mgr'[d].status = mgr[d].status
    BY <1>1, <2>1 DEF Typed, ManagerTyped, Managers
  <2>3. Surviving(d) \subseteq among /\ doubt[d] \subseteq doubt'[d]
    BY <1>1, <2>1 DEF Surviving, Typed, HistoryTyped
  <2>4. CrashPairs(d)' = CrashPairs(d)
    BY <1>2, <2>1
  <2> HIDE DEF among
  <2> QED
    BY <2>2, <2>3, <2>4 DEF RegisterOf, Apt
<1> HIDE DEF Ready, New
<1>7. Ready /\ New
  <2>1. CASE Harmed(d)
    BY <1>5, <2>1 DEF Harmed
  <2> QED
    BY <1>3, <1>4, <1>6, <2>1, DomainStep
<1> QED
  BY <1>7, NewerGuardStep DEF Ready, New, RegisterOf, Surviving

(* Every device's first configuration can be read: what cannot be read yet *)
(* may turn up later as a document nobody confirmed to this program.       *)
AllIsReadable ==
    \A device \in InitialDevices, s \in Slots : device.config[s].state # "unreadable"

LEMMA RegisterOfInit ==
    ASSUME AllIsReadable
    PROVE  Init => \A d \in Domains : RegisterOf(d)
<1> SUFFICES ASSUME Init, NEW d \in Domains PROVE RegisterOf(d)
  OBVIOUS
<1>1. /\ visible[d] \in Pairs(d) /\ durable[d] \in Pairs(d) /\ durable = visible
      /\ mgr[d] = Load(d, visible[d], FALSE) /\ ~Working
      /\ settled[d] = IF mgr[d].status = "ok" THEN mgr[d].val ELSE None
  BY InitShape, NoOpIs DEF Init, ShapeInv, Typed, DiskTyped, Working
<1>2. CrashPairs(d) = {visible[d]}
  BY <1>1, CrashesAreLosses, LossesAre
<1>3. \A s \in Slots : visible[d][s].state # "unreadable"
  <2> DEFINE fresh == [s \in Slots |-> Record(IF s = "a" THEN 1 ELSE 2, 0)]
  <2>1. PICK device \in InitialDevices :
          visible = [e \in Domains |->
                       IF e = "config" THEN device.config
                       ELSE IF device.config = EmptyPair THEN EmptyPair ELSE fresh]
    BY DEF Init
  <2>2. \A s \in Slots : fresh[s].state = "record" /\ EmptyPair[s].state = "absent"
    BY DEF Record, File, EmptyPair, Absent
  <2> HIDE DEF fresh
  <2>3. visible[d] \in {device.config, EmptyPair, fresh}
    BY <2>1
  <2> QED
    BY <2>2, <2>3 DEF AllIsReadable
<1>4. ASSUME Matches(visible[d])
      PROVE  Apt(Surviving(d), visible[d])
  <2>1. Matched(visible[d])
    BY <1>3, <1>4 DEF Matches, Matched, Present
  <2>2. mgr[d].status = "ok"
    BY <1>1, <2>1, LoadsWhatMatches
  <2>3. Held({settled[d]}, visible[d])
    BY <1>1, <2>2, TrustedIsHeld
  <2> QED
    BY <2>1, <2>3, HeldGrows, HeldIsApt DEF Surviving
<1>5. mgr[d].status = "first_boot" => visible[d] = EmptyPair
  BY <1>1, LoadIsManager
<1> QED
  BY <1>1, <1>2, <1>4, <1>5, EmptyIsNothing DEF RegisterOf, NewerGuarded, Apt

RegisterInv == \A d \in Domains : RegisterOf(d)

(* A step as the register of one domain sees it. *)
RegisterMoves(d) ==
    \/ \E v \in Values(d) : /\ doubt'[d] = doubt[d] \cup {v}
                            /\ Served(d)' = None
                            /\ settled'[d] = settled[d]
    \/ \E v \in Values(d) : /\ v \in (doubt[d] \cup {settled[d]}) \ {None}
                            /\ settled'[d] = v /\ doubt'[d] = {}
                            /\ Served(d)' \in {v, None}
    \/ /\ Served(d)' = None \/ (doubt[d] = {} /\ Served(d)' = settled[d])
       /\ settled'[d] = settled[d] /\ doubt'[d] = doubt[d]

LEMMA ServedIs ==
    ASSUME NEW d \in Domains, ServedIsSettled(d)
    PROVE  Served(d) = None \/ (doubt[d] = {} /\ Served(d) = settled[d])
  BY IdleHasNoWork DEF Served, Serves, ServedIsSettled

LEMMA ServedIsNext ==
    ASSUME NEW d \in Domains, ServedIsSettled(d)'
    PROVE  Served(d)' = None \/ (doubt'[d] = {} /\ Served(d)' = settled'[d])
<1>1. Idle' => op'.domain # d
  BY NoOpIs DEF Idle
<1> QED
  BY <1>1 DEF Served, Serves, ServedIsSettled

LEMMA RegisterRefines ==
    ASSUME ShapeInv, Next, NEW d \in Domains, ServedIsSettled(d), RegisterOf(d)
    PROVE  RegisterMoves(d)
<1>1. Served(d)' = None \/ (doubt'[d] = {} /\ Served(d)' = settled'[d])
  BY ServedStep, ServedIsNext
<1>2. Typed
  BY DEF ShapeInv
<1>3. CASE settled'[d] = settled[d] /\ doubt'[d] = doubt[d]
  BY <1>1, <1>3 DEF RegisterMoves
<1>4. ASSUME NEW p, NEW u, ReadBack(d, p, u), mgr'[d].status = "ok"
      PROVE  RegisterMoves(d)
  <2>1. /\ p \in CrashPairs(d) /\ p \in Pairs(d) /\ u \in BOOLEAN
        /\ mgr'[d] = Load(d, p, u) /\ settled'[d] = mgr'[d].val /\ doubt'[d] = {}
    BY <1>4 DEF ReadBack
  <2> DEFINE v == mgr'[d].val
  <2>2. v \in Values(d)
    BY <2>1, LoadIsManager DEF Managers
  <2>3. PICK s \in Slots : /\ \A t \in Slots : p[t].gen <= p[s].gen
                          /\ Load(d, p, u).val = Canonical(p[s].val)
    <3>1. Load(d, p, u).status = "ok"
      BY <1>4, <2>1
    <3> QED
      BY <2>1, <3>1, LoadTrusts
  <2>4. Matches(p)
    BY <1>4, <2>1, LoadTrusts DEF Matched, Matches, Present
  <2>5. v \in Surviving(d)
    BY <2>1, <2>3, <2>4 DEF RegisterOf, Apt
  <2>6. v # None
    BY <2>2, ValuesAreCanonical
  <2>7. settled'[d] = v
    BY <2>1
  <2> HIDE DEF v
  <2> QED
    BY <1>1, <2>1, <2>2, <2>5, <2>6, <2>7 DEF RegisterMoves, Surviving
<1>5. ASSUME NEW p, NEW u, ReadBack(d, p, u), mgr'[d].status # "ok"
      PROVE  RegisterMoves(d)
  BY <1>3, <1>5 DEF ReadBack
<1>6. ASSUME NEW v \in Values(d), Begins(d, v)
      PROVE  RegisterMoves(d)
  <2>1. /\ settled' = settled /\ doubt' = [doubt EXCEPT ![d] = @ \cup {v}] /\ Running'
    BY <1>6, BegunProgresses
  <2>2. doubt'[d] = doubt[d] \cup {v}
    BY <1>2, <2>1 DEF Typed, HistoryTyped
  <2>3. Served(d)' = None
    BY <2>1 DEF Served, Serves, Idle, Running
  <2> QED
    BY <2>1, <2>2, <2>3 DEF RegisterMoves
<1>7. Rests(d) \/ Harmed(d) => RegisterMoves(d)
  BY <1>3 DEF Rests, Harmed, Wear, Heal, history
<1> QED
  BY <1>4, <1>5, <1>6, <1>7, DomainStep

LEMMA ConfigMoves ==
    ASSUME RegisterMoves("config")
    PROVE  [ConfigRegister!RegisterNext]_<<settled["config"], doubt["config"], Served("config")>>
  BY DEF RegisterMoves, ConfigRegister!RegisterNext, ConfigRegister!Try,
         ConfigRegister!Settle, ConfigRegister!Close, ConfigRegister!Open

LEMMA LedgerMoves ==
    ASSUME RegisterMoves("ledger")
    PROVE  [LedgerRegister!RegisterNext]_<<settled["ledger"], doubt["ledger"], Served("ledger")>>
  BY DEF RegisterMoves, LedgerRegister!RegisterNext, LedgerRegister!Try,
         LedgerRegister!Settle, LedgerRegister!Close, LedgerRegister!Open

-----------------------------------------------------------------------------
(* The invariants, and what follows from them.                             *)
DomainsInv ==
    /\ ShapeInv
    /\ \A d \in Domains : ServedIsSettled(d)
    /\ FenceInv
    /\ SurvivorInv

LEMMA DomainsInvariance == Spec => []DomainsInv
<1>1. Init => DomainsInv
  BY InitShape, ServedInit, FenceInit, SurvivorInit DEF DomainsInv
<1>2. DomainsInv /\ [Next]_vars => DomainsInv'
  <2> SUFFICES ASSUME DomainsInv, [Next]_vars PROVE DomainsInv'
    OBVIOUS
  <2>1. CASE Next
    BY <2>1, ShapeStep, ServedStep, FenceStep, SurvivorStep DEF DomainsInv
  <2>2. CASE UNCHANGED vars
    <3>1. /\ UNCHANGED <<visible, durable, unsure, mgr, op, wear, settled, doubt, fence>>
      BY <2>2 DEF vars
    <3>2. ShapeInv'
      BY ShapeStep DEF DomainsInv
    <3>3. \A d \in Domains : ServedIsSettled(d)'
      BY <3>1 DEF DomainsInv, ServedIsSettled, Synced
    <3>4. \A d \in Domains : CrashPairs(d)' = CrashPairs(d)
      BY <3>1 DEF CrashPairs, CrashFiles
    <3>5. Working' = Working /\ Beside' = Beside /\ Step' = Step
      BY <3>1 DEF Working, Beside, Step
    <3>6. FenceInv'
      BY <3>1, <3>4, <3>5 DEF DomainsInv, FenceInv, FenceGuarded, Domains
    <3>7. SurvivorInv'
      BY <3>1, <3>4, <3>5
         DEF DomainsInv, SurvivorInv, SurvivorOf, SurvivorGuarded, Surviving, Touched
    <3> QED
      BY <3>2, <3>3, <3>6, <3>7 DEF DomainsInv
  <2> QED
    BY <2>1, <2>2
<1> QED BY <1>1, <1>2, PTL DEF Spec

(* While timers may start, what they start on is what the next boot would  *)
(* find, wherever the power is cut (ConfigManager!GateIsDurable:           *)
(* timer_start_allowed()).                                                 *)
THEOREM TheGateIsDurable == Spec => []GateIsDurable
<1>1. DomainsInv => GateIsDurable
  BY ServedIsDurable DEF DomainsInv
<1> QED BY <1>1, DomainsInvariance, PTL

(* A served ledger is never below a confirmed minute that the medium still *)
(* shows (ConfigManager!FenceNeverFalls: _ledger_is_monotone()).           *)
THEOREM TheFenceHolds == Spec => []FenceNeverFalls
<1>1. DomainsInv => FenceNeverFalls
  BY DEF DomainsInv, FenceInv, FenceNeverFalls, Serves
<1> QED BY <1>1, DomainsInvariance, PTL

(* A power loss at any step of a commit, a recovery or a reseal leaves one *)
(* synced slot, a document, the ledger of every configuration, and no half *)
(* of a reseal that would be trusted (ConfigManager!CrashesAreSurvived:    *)
(* _publish_record()).                                                     *)
THEOREM PowerLossIsSurvived == Spec => []CrashesAreSurvived
<1>1. DomainsInv => CrashesAreSurvived
  BY ShapeIsTypeOK, ShapeFencesReseals, SurvivorsSurvive DEF DomainsInv, CrashesAreSurvived
<1> QED BY <1>1, DomainsInvariance, PTL

(* Each domain implements a durable register, on every device that comes   *)
(* with a readable configuration (ConfigManager!Registers: load() and      *)
(* commit()); what the medium hides afterwards is covered.                 *)
THEOREM DomainsAreRegisters ==
    ASSUME AllIsReadable
    PROVE  Spec => Registers
<1>1. Init => RegisterInv
  BY RegisterOfInit DEF RegisterInv
<1>2. DomainsInv /\ RegisterInv /\ [Next]_vars => RegisterInv'
  <2> SUFFICES ASSUME DomainsInv, [Next]_vars, NEW d \in Domains, RegisterOf(d)
               PROVE  RegisterOf(d)'
    BY DEF RegisterInv
  <2>1. CASE Next
    BY <2>1, RegisterStep DEF DomainsInv
  <2>2. CASE UNCHANGED vars
    <3>1. /\ UNCHANGED <<visible, durable, mgr, op, settled, doubt>>
      BY <2>2 DEF vars
    <3>2. CrashPairs(d)' = CrashPairs(d)
      BY <3>1 DEF CrashPairs, CrashFiles
    <3>3. Working' = Working /\ Beside' = Beside /\ Step' = Step
      BY <3>1 DEF Working, Beside, Step
    <3> QED
      BY <3>1, <3>2, <3>3 DEF RegisterOf, NewerGuarded, Surviving
  <2> QED
    BY <2>1, <2>2
<1>3. Init => ConfigRegister!RegisterInit /\ LedgerRegister!RegisterInit
  <2> SUFFICES ASSUME Init
               PROVE  ConfigRegister!RegisterInit /\ LedgerRegister!RegisterInit
    OBVIOUS
  <2>1. /\ ShapeInv /\ \A d \in Domains : ServedIsSettled(d)
    BY InitShape, ServedInit
  <2>2. \A d \in Domains : /\ settled[d] \in Values(d) \cup {None} /\ doubt[d] = {}
                           /\ Served(d) \in {None, settled[d]}
    BY <2>1, ServedIs DEF ShapeInv, Typed, HistoryTyped, Init
  <2> QED
    BY <2>2 DEF Domains, ConfigRegister!RegisterInit, LedgerRegister!RegisterInit
<1>4. /\ DomainsInv /\ RegisterInv /\ [Next]_vars
      => /\ [ConfigRegister!RegisterNext]_<<settled["config"], doubt["config"], Served("config")>>
         /\ [LedgerRegister!RegisterNext]_<<settled["ledger"], doubt["ledger"], Served("ledger")>>
  <2> SUFFICES ASSUME DomainsInv, RegisterInv, [Next]_vars
               PROVE  /\ [ConfigRegister!RegisterNext]_<<settled["config"], doubt["config"],
                                                          Served("config")>>
                      /\ [LedgerRegister!RegisterNext]_<<settled["ledger"], doubt["ledger"],
                                                          Served("ledger")>>
    OBVIOUS
  <2>1. CASE Next
    BY <2>1, RegisterRefines, ConfigMoves, LedgerMoves DEF DomainsInv, RegisterInv, Domains
  <2>2. CASE UNCHANGED vars
    BY <2>2 DEF vars, Served, Serves, Idle
  <2> QED
    BY <2>1, <2>2
<1> QED
  BY <1>1, <1>2, <1>3, <1>4, DomainsInvariance, PTL
     DEF Spec, Registers, ConfigRegister!RegisterSpec, LedgerRegister!RegisterSpec

=============================================================================
