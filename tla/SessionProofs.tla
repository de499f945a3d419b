--------------------------- MODULE SessionProofs ---------------------------
(***************************************************************************)
(* Of everything that talks to the router, for every set of requests, every *)
(* order of faults and every bound: nobody waits for ever, a poll stops     *)
(* half way only for a cause outside the program and tells exactly what was *)
(* answered to it, a resync is recorded when there was one, a doubt about   *)
(* the two vantages is settled only when there was one, the executor's      *)
(* verbs go out in the order of their plan and its rows say which of them   *)
(* did.                                                                     *)
(***************************************************************************)
EXTENDS RouterSession, DataLemmas

-----------------------------------------------------------------------------
(* Shapes. *)

ShapedPoll(q, place) ==
  /\ DOMAIN q = {"ts", "next", "got", "abandoned"} /\ DOMAIN q.got = ToSet(READS)
  /\ q.ts \in Nat /\ q.next \in Nat /\ q.abandoned \in BOOLEAN
  /\ place = "reading" => q.next \in DOMAIN Keys
PollShape == \A p \in Pollers : ShapedPoll(poll[p], pc[p])
RequestShape ==
  \A r \in Requests : /\ DOMAIN request[r] = {"kind", "wan", "step", "outcome"}
                      /\ request[r].kind \in {"reconnect", "reboot"} /\ request[r].step \in Nat
Places ==
  /\ \A p \in Pollers : pc[p] \in {"idle", "login", "logging", "reading", "storing"}
  /\ \A r \in Requests : pc[r] \in {"idle", "login", "logging", "snapshot", "acting", "recording",
                                   "done", "thrown"}
Shape ==
  /\ TypeOK /\ Places /\ PollShape /\ RequestShape
  /\ DOMAIN memory = {"running", "signature"}
  /\ DOMAIN db = {"line", "wan", "rows"}

LEMMA ConstantFacts ==
  /\ \A x \in {Tolerance, HostVantageAge, ReadTime, PollMinInterval, StartTime, MaxTime, MaxWork, MaxFaults} :
       x \in Nat
  /\ StartTime <= MaxTime /\ ReadTime <= Tolerance
  /\ Len(Keys) \in Nat \ {0} /\ DOMAIN Keys = 1..Len(Keys) /\ \A i \in 1..Len(Keys) : Keys[i] \in ToSet(READS)
  /\ \A p \in Pollers : p \notin Requests
  /\ Pollers \subseteq Procs /\ Requests \subseteq Procs
  BY RouterAssumption, SeqFacts DEF Procs

LEMMA WordsAreValues ==
  /\ Null \notin {"executed", "failed", "unknown", "refused", "not_executed", "restored", "disagreement"}
  /\ \A v \in Words : Str(v) = v /\ v # Null
  BY NullAssumption DEF Words, Str

LEMMA StartsShaped == Init => Shape
<1> SUFFICES ASSUME Init PROVE Shape
  OBVIOUS
<1> USE DEF Init
<1>1. device \in [up : BOOLEAN, slot : {Null, "client", "human"}, wan : {"up", "down"},
                  connType : ConnTypes, lineStart : 0..MaxTime]
  <2>1. 0 \in 0..MaxTime
    BY ConstantFacts
  <2>2. device \in [up : {TRUE}, slot : {Null}, wan : {"up"}, connType : ConnTypes, lineStart : {0}]
    OBVIOUS
  <2> QED BY <2>1, <2>2
<1>2. clock \in StartTime..MaxTime /\ work \in 0..MaxWork /\ faults \in 0..MaxFaults
  BY ConstantFacts
<1>3. pc \in [Procs -> {"idle"}] /\ \A p \in Procs : pc[p] = "idle"
  OBVIOUS
<1>4. TypeOK
  BY <1>1, <1>2, <1>3, ConstantFacts DEF TypeOK, OrNull, Boot
<1>5. Places
  BY <1>3, ConstantFacts DEF Places
<1>6. PollShape
  BY <1>3, ConstantFacts DEF PollShape, ShapedPoll, NoPoll, PollFrom, NotAsked
<1>7. RequestShape
  BY DEF RequestShape, NoRequest
<1> QED BY <1>4, <1>5, <1>6, <1>7 DEF Shape, Boot

\* A poll that begins anew.
LEMMA FreshPoll ==
  ASSUME NEW t \in Nat, NEW place
  PROVE  LET q == PollFrom(t)
         IN /\ ShapedPoll(q, place)
            /\ q.ts = t /\ q.next = 1 /\ q.abandoned = FALSE /\ \A key \in ToSet(READS) : q.got[key] = Null
<1>1. 1 \in DOMAIN Keys
  BY ConstantFacts
<1> QED BY <1>1 DEF ShapedPoll, PollFrom, NotAsked

LEMMA OneFaultMore ==
  ASSUME Shape, UNCHANGED faults \/ Faulty
  PROVE  faults' \in 0..MaxFaults
<1>1. faults \in 0..MaxFaults /\ MaxFaults \in Nat
  BY ConstantFacts DEF Shape, TypeOK
<1> QED BY <1>1 DEF Faulty

LEMMA LoginKeepsShape ==
  ASSUME Shape, NEW p \in Procs, BeginLogin(p) \/ LoginOk(p) \/ LoginFails(p)
  PROVE  Shape'
<1> USE ConstantFacts DEF Shape
<1>1. CASE BeginLogin(p)
  <2> USE <1>1 DEF BeginLogin, outside
  <2>1. TypeOK'
    BY DEF TypeOK, OrNull
  <2>2. Places' /\ PollShape'
    BY DEF Places, PollShape, ShapedPoll, TypeOK, Procs
  <2> QED BY <2>1, <2>2 DEF RequestShape
<1>2. CASE LoginOk(p)
  <2> USE <1>2 DEF LoginOk, outside
  <2>1. TypeOK'
    BY SMTT(30) DEF TypeOK, OrNull
  <2>2. Places'
    BY DEF Places, TypeOK, Procs
  <2>3. PollShape'
    <3>1. clock \in Nat
      BY DEF TypeOK
    <3>2. CASE p \in Pollers
      <4> SUFFICES ASSUME NEW q \in Pollers PROVE ShapedPoll(poll'[q], pc'[q])
        BY DEF PollShape, ShapedPoll
      <4>1. CASE q = p
        <5>1. poll'[q] = PollFrom(clock) /\ pc'[q] = "reading"
          BY <3>2, <4>1 DEF PollShape, ShapedPoll, TypeOK
        <5>2. ShapedPoll(PollFrom(clock), "reading")
          BY <3>1, FreshPoll
        <5> QED BY <5>1, <5>2
      <4>2. CASE q # p
        BY <3>2, <4>2 DEF PollShape, ShapedPoll, TypeOK, Procs
      <4> QED BY <4>1, <4>2
    <3>3. CASE p \notin Pollers
      BY <3>3 DEF PollShape, ShapedPoll, TypeOK, Procs
    <3> QED BY <3>2, <3>3
  <2> QED BY <2>1, <2>2, <2>3 DEF RequestShape
<1>3. CASE LoginFails(p)
  <2> USE <1>3 DEF LoginFails, outside, Faulty, Disturb, Rejected
  <2>1. TypeOK'
    <3>1. device' \in [up : BOOLEAN, slot : {Null, "client", "human"}, wan : {"up", "down"},
                       connType : ConnTypes, lineStart : 0..MaxTime]
      <4>1. device' \in {device, [device EXCEPT !.slot = "client"]}
        OBVIOUS
      <4> HIDE <1>3 DEF LoginFails, outside, Faulty, Disturb, Rejected
      <4> QED BY <4>1, SMTT(30) DEF TypeOK
    <3>2. faults' \in 0..MaxFaults
      BY OneFaultMore
    <3>5. disturbed' \subseteq Procs
      BY DEF TypeOK
    <3>6. memory'.running \in BOOLEAN
      BY DEF TypeOK
    <3>3. pc' \in [Procs -> {"idle", "login", "logging", "reading", "storing", "snapshot", "acting",
                             "recording", "done", "thrown"}]
      BY DEF TypeOK
    <3>4. client' \in [held : BOOLEAN, chain : OrNull(Procs)]
      BY DEF OrNull
    <3>7. /\ UNCHANGED <<config, clock, work, poll, request>>
          /\ \A r \in Requests : pc'[r] \in {"acting", "recording"} => pc[r] = pc'[r]
      BY DEF TypeOK
    <3> HIDE <1>3 DEF LoginFails, outside, Faulty, Disturb, Rejected
    <3> QED BY <3>1, <3>2, <3>3, <3>4, <3>5, <3>6, <3>7 DEF TypeOK
  <2>2. Places' /\ PollShape'
    BY SMTT(30) DEF Places, PollShape, ShapedPoll, TypeOK, Procs
  <2>3. DOMAIN memory' = {"running", "signature"}
    OBVIOUS
  <2> QED BY <2>1, <2>2, <2>3 DEF RequestShape
<1> QED BY <1>1, <1>2, <1>3

LEMMA PollKeepsShape ==
  ASSUME Shape, NEW p \in Pollers, StartPoll(p) \/ PollRead(p) \/ Store(p) \/ StoreFails(p)
  PROVE  Shape'
<1> USE ConstantFacts DEF Shape
<1>0. ShapedPoll(NoPoll, "idle")
  BY FreshPoll DEF NoPoll
<1>1. CASE StartPoll(p)
  <2> USE <1>1 DEF StartPoll, PollGuarded, outside
  <2>1. memory'.running \in BOOLEAN /\ DOMAIN memory' = {"running", "signature"}
    BY DEF TypeOK
  <2>2. work' \in 0..MaxWork /\ disturbed' \subseteq Procs
    BY DEF TypeOK
  <2>3. TypeOK'
    BY <2>1, <2>2, SMTT(30) DEF TypeOK
  <2>4. Places' /\ PollShape'
    BY DEF Places, PollShape, ShapedPoll, TypeOK, Procs
  <2> QED BY <2>1, <2>3, <2>4 DEF RequestShape
<1>2. CASE PollRead(p)
  <2> USE <1>2 DEF PollRead, outside
  <2>1. PICK a \in {"ok", "refused", "lost", "unreachable"} : Answered(a) /\ Invalidate(a)
    OBVIOUS
  <2>2. PICK got, stop : stop \in BOOLEAN /\ TakeIn(p, got, stop)
    <3>1. CASE \E page \in Pages(Keys[poll[p].next]) : TakeIn(p, page, FALSE)
      BY <3>1
    <3>2. CASE \E a1 \in {"ok", "refused", "lost", "unreachable"} : TakeIn(p, Null, a1 # "refused")
      BY <3>2
    <3> QED BY <3>1, <3>2
  <2>3. client' \in [held : BOOLEAN, chain : OrNull(Procs)]
    BY <2>1 DEF Invalidate, TypeOK
  <2>4. faults' \in 0..MaxFaults /\ disturbed' \subseteq Procs
    BY <2>1, SMTT(30) DEF Answered, Faulty, Disturb, TypeOK
  <2>5. pc' \in [Procs -> {"idle", "login", "logging", "reading", "storing", "snapshot", "acting",
                           "recording", "done", "thrown"}] /\ DOMAIN poll' = Pollers
    BY <2>2 DEF TakeIn, TypeOK
  <2>6. \A r \in Requests : pc'[r] = pc[r]
    <3> SUFFICES ASSUME NEW r \in Requests PROVE pc'[r] = pc[r]
      OBVIOUS
    <3>1. r # p /\ r \in Procs
      OBVIOUS
    <3> QED BY <2>2, <3>1 DEF TakeIn, TypeOK
  <2>7. TypeOK'
    BY <2>3, <2>4, <2>5, <2>6 DEF TypeOK
  <2>8. Places'
    BY <2>2, <2>6 DEF TakeIn, Places, TypeOK, Procs
  <2>9. PollShape'
    <3> SUFFICES ASSUME NEW q \in Pollers PROVE ShapedPoll(poll'[q], pc'[q])
      BY DEF PollShape
    <3>1. CASE q = p
      <4> DEFINE o == poll[p]
      <4>1. ShapedPoll(o, "reading")
        BY DEF PollShape
      <4>2. /\ poll'[q] = Taken(o, got, stop)
            /\ pc'[q] = IF stop \/ o.next = Len(Keys) THEN "storing" ELSE "reading"
        BY <2>2, <3>1 DEF TakeIn, TypeOK
      <4> HIDE DEF o
      <4>3. /\ DOMAIN poll'[q] = {"ts", "next", "got", "abandoned"} /\ DOMAIN poll'[q].got = ToSet(READS)
            /\ poll'[q].ts \in Nat /\ poll'[q].next = o.next + 1 /\ poll'[q].abandoned \in BOOLEAN
        BY <2>2, <4>1, <4>2 DEF ShapedPoll, Taken
      <4>4. o.next \in Nat /\ o.next <= Len(Keys)
        BY <4>1 DEF ShapedPoll
      <4> QED BY <4>2, <4>3, <4>4, SMTT(30) DEF ShapedPoll
    <3>2. CASE q # p
      BY <2>2, <3>2 DEF TakeIn, PollShape, TypeOK
    <3> QED BY <3>1, <3>2
  <2> QED BY <2>7, <2>8, <2>9 DEF RequestShape
<1>3. CASE Store(p)
  <2> USE <1>3 DEF Store, outside
  <2>0. PICK out : /\ memory' = [running |-> FALSE, signature |-> out.signature]
                   /\ db' = [db EXCEPT !.line = IF out.line THEN out.row ELSE @,
                                       !.wan = IF out.wan # Null THEN out.wan.name ELSE @]
    OBVIOUS
  <2>1. memory'.running \in BOOLEAN /\ DOMAIN memory' = {"running", "signature"}
    BY <2>0
  <2>2. DOMAIN db' = {"line", "wan", "rows"}
    BY <2>0
  <2>3. disturbed' \subseteq Procs
    BY DEF TypeOK
  <2>4. TypeOK'
    <3>1. /\ UNCHANGED <<config, clock, device, client, request, work, faults>>
          /\ DOMAIN poll' = DOMAIN poll /\ pc' = [pc EXCEPT ![p] = "idle"]
      OBVIOUS
    <3> HIDE <1>3 DEF Store, outside
    <3> QED BY <2>1, <2>3, <3>1 DEF TypeOK
  <2>5. Places'
    BY DEF Places, TypeOK, Procs
  <2>6. PollShape'
    <3> SUFFICES ASSUME NEW q \in Pollers PROVE ShapedPoll(poll'[q], pc'[q])
      BY DEF PollShape
    <3>1. CASE q = p
      BY <1>0, <3>1 DEF PollShape, TypeOK
    <3>2. CASE q # p
      BY <3>2 DEF PollShape, TypeOK
    <3> QED BY <3>1, <3>2
  <2> QED BY <2>1, <2>2, <2>4, <2>5, <2>6 DEF RequestShape
<1>4. CASE StoreFails(p)
  <2> USE <1>4 DEF StoreFails, Faulty, outside
  <2>1. memory'.running \in BOOLEAN /\ DOMAIN memory' = {"running", "signature"}
    OBVIOUS
  <2>2. faults' \in 0..MaxFaults
    BY OneFaultMore
  <2>3. TypeOK'
    BY <2>1, <2>2, SMTT(30) DEF TypeOK
  <2>4. Places'
    BY DEF Places, TypeOK, Procs
  <2>5. PollShape'
    <3> SUFFICES ASSUME NEW q \in Pollers PROVE ShapedPoll(poll'[q], pc'[q])
      BY DEF PollShape
    <3>1. CASE q = p
      BY <1>0, <3>1 DEF PollShape, TypeOK
    <3>2. CASE q # p
      BY <3>2 DEF PollShape, TypeOK
    <3> QED BY <3>1, <3>2
  <2> QED BY <2>1, <2>3, <2>4, <2>5 DEF RequestShape
<1> QED BY <1>1, <1>2, <1>3, <1>4

Devices == [up : BOOLEAN, slot : {Null, "client", "human"}, wan : {"up", "down"}, connType : ConnTypes,
            lineStart : 0..MaxTime]

\* What the router does, it does within its type, and to nobody's record but the request's own.
LEMMA PerformFacts ==
  ASSUME Shape, NEW r \in Requests, NEW intent, Perform(r, intent)
  PROVE  device' \in Devices
<1> device \in Devices
  BY DEF Shape, TypeOK, Devices
<1>1. CASE intent = "ppp_disconnect"
  BY <1>1 DEF Perform, Devices
<1>2. CASE intent = "reboot"
  BY <1>2 DEF Perform, Devices
<1>3. CASE intent \notin {"ppp_disconnect", "reboot"}
  BY <1>3 DEF Perform, Devices
<1> QED BY <1>1, <1>2, <1>3

\* A request that goes on, or ends.
LEMMA AfterFacts ==
  ASSUME Shape, NEW r \in Requests, pc[r] = "acting",
         \/ \E ok \in BOOLEAN : AfterStep(r, ok)
         \/ \E a \in {"lost", "unreachable"} : NoReply(r, a)
  PROVE  /\ pc' \in [Procs -> {"idle", "login", "logging", "reading", "storing", "snapshot", "acting",
                               "recording", "done", "thrown"}]
         /\ \A q \in Procs \ {r} : pc'[q] = pc[q]
         /\ pc'[r] \in {"acting", "recording", "thrown"}
         /\ DOMAIN request' = Requests /\ \A q \in Requests \ {r} : request'[q] = request[q]
         /\ DOMAIN request'[r] = {"kind", "wan", "step", "outcome"}
         /\ request'[r].kind = request[r].kind /\ request'[r].wan = request[r].wan
         /\ pc'[r] = "acting" => request'[r].step = request[r].step + 1
         /\ pc'[r] # "acting" => request'[r].step = request[r].step
         /\ pc'[r] = "recording" => request'[r].outcome \in {"executed", "failed", "unknown"}
<1>1. /\ r \in DOMAIN pc /\ r \in DOMAIN request /\ DOMAIN pc = Procs /\ DOMAIN request = Requests
      /\ DOMAIN request[r] = {"kind", "wan", "step", "outcome"}
      /\ pc \in [Procs -> {"idle", "login", "logging", "reading", "storing", "snapshot", "acting",
                               "recording", "done", "thrown"}]
  BY ConstantFacts DEF Shape, TypeOK, RequestShape
<1>2. CASE \E o \in {"executed", "failed", "unknown"} : Ends(r, o)
  BY <1>1, <1>2 DEF Ends
<1>3. CASE request' = [request EXCEPT ![r].step = @ + 1] /\ UNCHANGED pc
  BY <1>1, <1>3
<1>4. CASE pc' = [pc EXCEPT ![r] = "thrown"] /\ UNCHANGED request
  BY <1>1, <1>4
<1> QED BY <1>2, <1>3, <1>4 DEF AfterStep, NoReply

LEMMA SendKeepsShape ==
  ASSUME Shape, NEW r \in Requests, SendAction(r)
  PROVE  Shape'
<1> USE ConstantFacts
<1> DEFINE intent == Plan(r)[request[r].step]
<1>1. /\ pc[r] = "acting" /\ UNCHANGED <<outside, poll, memory, db, work, written, announced>>
      /\ Acknowledged(r, intent) \/ Refused(r, intent) \/ Silent(r, intent)
  BY DEF SendAction
<1> HIDE DEF intent
<1>2. \/ \E ok \in BOOLEAN : AfterStep(r, ok)
      \/ \E a \in {"lost", "unreachable"} : NoReply(r, a)
  BY <1>1 DEF Acknowledged, Refused, Silent
<1>3. device' \in Devices
  <2>1. device \in Devices
    BY DEF Shape, TypeOK, Devices
  <2>2. Perform(r, intent) \/ UNCHANGED device
    BY <1>1 DEF Acknowledged, Refused, Silent
  <2> QED BY <2>1, <2>2, PerformFacts
<1>4. client' \in [held : BOOLEAN, chain : OrNull(Procs)]
  BY <1>1 DEF Acknowledged, Refused, Silent, Invalidate, Shape, TypeOK
<1>5. faults' \in 0..MaxFaults
  <2>1. UNCHANGED faults \/ Faulty
    BY <1>1 DEF Acknowledged, Refused, Silent
  <2> QED BY <2>1 DEF Faulty, Shape, TypeOK
<1>6. disturbed' \subseteq Procs
  BY <1>1 DEF Acknowledged, Refused, Silent, Disturb, Shape, TypeOK
<1>7. TypeOK'
  <2>1. \A q \in Requests : /\ pc'[q] = "acting" => request'[q].wan # Null
                            /\ pc'[q] = "recording" => request'[q].outcome # Null
    <3> SUFFICES ASSUME NEW q \in Requests
                 PROVE  /\ pc'[q] = "acting" => request'[q].wan # Null
                        /\ pc'[q] = "recording" => request'[q].outcome # Null
      OBVIOUS
    <3>1. /\ pc[q] = "acting" => request[q].wan # Null
          /\ pc[q] = "recording" => request[q].outcome # Null
      BY DEF Shape, TypeOK
    <3>2. CASE q = r
      <4>1. /\ request'[r].wan = request[r].wan
            /\ pc'[r] = "recording" => request'[r].outcome \in {"executed", "failed", "unknown"}
        BY <1>1, <1>2, AfterFacts
      <4> QED BY <1>1, <3>1, <3>2, <4>1, WordsAreValues
    <3>3. CASE q # r
      BY <1>1, <1>2, <3>1, <3>3, AfterFacts
    <3> QED BY <3>2, <3>3
  <2>2. DOMAIN request' = Requests /\ pc' \in [Procs -> {"idle", "login", "logging", "reading", "storing",
          "snapshot", "acting", "recording", "done", "thrown"}]
    BY <1>1, <1>2, AfterFacts
  <2> QED BY <1>1, <1>3, <1>4, <1>5, <1>6, <2>1, <2>2 DEF Shape, TypeOK, Devices, outside
<1>8. Places' /\ PollShape'
  <2>1. \A q \in Procs \ {r} : pc'[q] = pc[q]
    BY <1>1, <1>2, AfterFacts
  <2>2. pc'[r] \in {"acting", "recording", "thrown"}
    BY <1>1, <1>2, AfterFacts
  <2> QED BY <1>1, <2>1, <2>2 DEF Shape, Places, PollShape, ShapedPoll
<1>9. RequestShape'
  <2> SUFFICES ASSUME NEW q \in Requests
               PROVE  /\ DOMAIN request'[q] = {"kind", "wan", "step", "outcome"}
                      /\ request'[q].kind \in {"reconnect", "reboot"} /\ request'[q].step \in Nat
    BY DEF RequestShape
  <2>1. /\ DOMAIN request[q] = {"kind", "wan", "step", "outcome"}
        /\ request[q].kind \in {"reconnect", "reboot"} /\ request[q].step \in Nat
    BY DEF Shape, RequestShape
  <2>2. CASE q = r
    BY <1>1, <1>2, <2>1, <2>2, AfterFacts
  <2>3. CASE q # r
    BY <1>1, <1>2, <2>1, <2>3, AfterFacts
  <2> QED BY <2>2, <2>3
<1> QED BY <1>1, <1>7, <1>8, <1>9 DEF Shape

LEMMA RequestKeepsShape ==
  ASSUME Shape, NEW r \in Requests, Post(r) \/ Snapshot(r) \/ RecordAndAnswer(r)
  PROVE  Shape'
<1> USE ConstantFacts DEF Shape
<1>1. CASE Post(r)
  <2>1. PICK kind \in Kinds :
          LET asked == [NoRequest EXCEPT !.kind = kind]
          IN \/ pc' = [pc EXCEPT ![r] = "done"] /\ UNCHANGED request
             \/ /\ request' = [request EXCEPT ![r] = [asked EXCEPT !.outcome = "not_executed"]]
                /\ pc' = [pc EXCEPT ![r] = "recording"]
             \/ /\ request' = [request EXCEPT ![r] = asked]
                /\ pc' = [pc EXCEPT ![r] = "login"]
    BY <1>1 DEF Post
  <2>2. /\ pc' \in [Procs -> {"idle", "login", "logging", "reading", "storing", "snapshot", "acting",
                               "recording", "done", "thrown"}]
        /\ \A q \in Procs \ {r} : pc'[q] = pc[q]
        /\ pc'[r] \in {"done", "recording", "login"}
    BY <2>1, SMTT(30) DEF TypeOK
  <2>3. DOMAIN request' = Requests /\ \A q \in Requests \ {r} : request'[q] = request[q]
    BY <2>1 DEF TypeOK
  <2>4. /\ DOMAIN request'[r] = {"kind", "wan", "step", "outcome"}
        /\ request'[r].kind \in {"reconnect", "reboot"} /\ request'[r].step \in Nat
        /\ pc'[r] = "recording" => request'[r].outcome = "not_executed"
    <3> DEFINE asked == [NoRequest EXCEPT !.kind = kind]
    <3>1. /\ DOMAIN asked = {"kind", "wan", "step", "outcome"}
          /\ asked.kind \in {"reconnect", "reboot"} /\ asked.step \in Nat
      BY RouterAssumption DEF NoRequest
    <3>2. r \in DOMAIN request /\ r \in DOMAIN pc
      BY DEF TypeOK
    <3> HIDE DEF asked
    <3>3. \/ pc'[r] = "done" /\ request'[r] = request[r]
          \/ request'[r] = [asked EXCEPT !.outcome = "not_executed"]
          \/ request'[r] = asked /\ pc'[r] = "login"
      BY <2>1, <3>2 DEF asked
    <3> QED BY <3>1, <3>3 DEF RequestShape
  <2>5. work' \in 0..MaxWork
    <3>1. work < MaxWork /\ work' = work + 1
      BY <1>1 DEF Post
    <3>2. work \in 0..MaxWork
      BY DEF TypeOK
    <3> HIDE DEF Shape
    <3> QED BY <3>1, <3>2
  <2>10. disturbed' \subseteq Procs
    BY <1>1 DEF Post, TypeOK
  <2>6. UNCHANGED <<outside, device, client, poll, memory, db, faults>>
    BY <1>1 DEF Post
  <2>7. TypeOK'
    <3>1. \A q \in Requests : /\ pc'[q] = "acting" => request'[q].wan # Null
                              /\ pc'[q] = "recording" => request'[q].outcome # Null
      <4> SUFFICES ASSUME NEW q \in Requests
                   PROVE  /\ pc'[q] = "acting" => request'[q].wan # Null
                          /\ pc'[q] = "recording" => request'[q].outcome # Null
        OBVIOUS
      <4>1. CASE q = r
        BY <2>2, <2>4, <4>1, WordsAreValues
      <4>2. CASE q # r
        BY <2>2, <2>3, <4>2 DEF TypeOK
      <4> QED BY <4>1, <4>2
    <3> QED BY <2>2, <2>3, <2>5, <2>6, <2>10, <3>1 DEF TypeOK, outside
  <2>8. Places' /\ PollShape'
    BY <2>2, <2>6 DEF Places, PollShape, ShapedPoll
  <2>9. RequestShape'
    BY <2>3, <2>4 DEF RequestShape
  <2> QED BY <2>6, <2>7, <2>8, <2>9
<1>2. CASE Snapshot(r)
  <2>1. \/ pc' = [pc EXCEPT ![r] = "thrown"] /\ UNCHANGED request
        \/ Ends(r, "refused")
        \/ /\ Vouched(AdtWan) # Null /\ request' = [request EXCEPT ![r].wan = Vouched(AdtWan)]
           /\ pc' = [pc EXCEPT ![r] = "acting"]
    BY <1>2 DEF Snapshot
  <2>2. /\ pc' \in [Procs -> {"idle", "login", "logging", "reading", "storing", "snapshot", "acting",
                               "recording", "done", "thrown"}]
        /\ \A q \in Procs \ {r} : pc'[q] = pc[q]
        /\ pc'[r] \in {"thrown", "recording", "acting"}
    BY <2>1, SMTT(30) DEF Ends, TypeOK
  <2>3. DOMAIN request' = Requests /\ \A q \in Requests \ {r} : request'[q] = request[q]
    BY <2>1 DEF Ends, TypeOK
  <2>4. /\ DOMAIN request'[r] = {"kind", "wan", "step", "outcome"}
        /\ request'[r].kind \in {"reconnect", "reboot"} /\ request'[r].step \in Nat
        /\ pc'[r] = "recording" => request'[r].outcome = "refused"
        /\ pc'[r] = "acting" => request'[r].wan # Null
    <3>1. r \in DOMAIN request /\ r \in DOMAIN pc
      BY DEF TypeOK
    <3>2. \/ pc'[r] = "thrown" /\ request'[r] = request[r]
          \/ pc'[r] = "recording" /\ request'[r] = [request[r] EXCEPT !.outcome = "refused"]
          \/ /\ Vouched(AdtWan) # Null /\ pc'[r] = "acting"
             /\ request'[r] = [request[r] EXCEPT !.wan = Vouched(AdtWan)]
      BY <2>1, <3>1 DEF Ends
    <3> QED BY <3>2 DEF RequestShape
  <2>5. client' \in [held : BOOLEAN, chain : OrNull(Procs)]
    BY <1>2 DEF Snapshot, Invalidate, TypeOK
  <2>11. faults' \in 0..MaxFaults
    <3>1. UNCHANGED faults \/ Faulty
      BY <1>2 DEF Snapshot, Answered
    <3> QED BY <3>1, OneFaultMore
  <2>6. disturbed' \subseteq Procs
    BY <1>2 DEF Snapshot, Answered, Disturb, TypeOK
  <2>7. UNCHANGED <<outside, device, poll, memory, db, work>>
    BY <1>2 DEF Snapshot
  <2>8. TypeOK'
    <3>1. \A q \in Requests : /\ pc'[q] = "acting" => request'[q].wan # Null
                              /\ pc'[q] = "recording" => request'[q].outcome # Null
      <4> SUFFICES ASSUME NEW q \in Requests
                   PROVE  /\ pc'[q] = "acting" => request'[q].wan # Null
                          /\ pc'[q] = "recording" => request'[q].outcome # Null
        OBVIOUS
      <4>1. CASE q = r
        BY <2>2, <2>4, <4>1, WordsAreValues
      <4>2. CASE q # r
        BY <2>2, <2>3, <4>2 DEF TypeOK
      <4> QED BY <4>1, <4>2
    <3> QED BY <2>2, <2>3, <2>5, <2>6, <2>7, <2>11, <3>1 DEF TypeOK, outside
  <2>9. Places' /\ PollShape'
    BY <2>2, <2>7 DEF Places, PollShape, ShapedPoll
  <2>10. RequestShape'
    BY <2>3, <2>4 DEF RequestShape
  <2> QED BY <2>7, <2>8, <2>9, <2>10
<1>3. CASE RecordAndAnswer(r)
  <2> USE <1>3 DEF RecordAndAnswer, outside
  <2>1. TypeOK'
    BY DEF TypeOK
  <2>2. Places' /\ PollShape'
    BY DEF Places, PollShape, ShapedPoll, TypeOK, Procs
  <2>3. DOMAIN db' = {"line", "wan", "rows"}
    OBVIOUS
  <2> QED BY <2>1, <2>2, <2>3 DEF RequestShape
<1> QED BY <1>1, <1>2, <1>3

LEMMA WorldKeepsShape ==
  ASSUME Shape, World
  PROVE  Shape'
<1> USE ConstantFacts DEF Shape
<1>0. device \in Devices
  BY DEF TypeOK, Devices
<1>1. CASE Elapse
  BY <1>1 DEF Elapse, TypeOK, Places, PollShape, ShapedPoll, RequestShape
<1>2. CASE LineResync \/ DeviceBoots \/ PersonLogsIn \/ WanDrops
  <2>1. device' \in Devices
    <3>1. clock \in 0..MaxTime
      BY DEF TypeOK
    <3> QED BY <1>0, <1>2, <3>1 DEF LineResync, DeviceBoots, PersonLogsIn, WanDrops, Devices
  <2>2. faults' \in 0..MaxFaults
    <3>1. faults' = faults \/ Faulty
      BY <1>2 DEF LineResync, DeviceBoots, PersonLogsIn, WanDrops
    <3> QED BY <3>1, OneFaultMore
  <2>3. disturbed' \subseteq Procs
    BY <1>2 DEF LineResync, DeviceBoots, PersonLogsIn, WanDrops, Disturb, TypeOK
  <2>4. UNCHANGED <<outside, client, pc, poll, request, memory, db, work>>
    BY <1>2 DEF LineResync, DeviceBoots, PersonLogsIn, WanDrops
  <2>5. TypeOK'
    BY <2>1, <2>2, <2>3, <2>4 DEF TypeOK, Devices, outside
  <2> QED BY <2>4, <2>5 DEF Places, PollShape, ShapedPoll, RequestShape
<1>3. CASE Restart
  <2> USE <1>3 DEF Restart, outside
  <2>1. /\ pc' \in [Procs -> {"idle", "login", "logging", "reading", "storing", "snapshot", "acting",
                               "recording", "done", "thrown"}]
        /\ \A q \in Pollers : pc'[q] = "idle"
        /\ \A r \in Requests : pc'[r] \in {"idle", "done", "thrown"}
    BY DEF TypeOK, Active, Procs, Places
  <2>2. faults' \in 0..MaxFaults /\ disturbed' \subseteq Procs
    BY DEF Faulty, Disturb, TypeOK
  <2>3. memory'.running \in BOOLEAN /\ DOMAIN memory' = {"running", "signature"}
    BY DEF Boot
  <2>4. TypeOK'
    BY <2>1, <2>2, <2>3 DEF TypeOK, OrNull
  <2>5. ShapedPoll(NoPoll, "idle")
    BY FreshPoll DEF NoPoll
  <2>6. Places' /\ PollShape'
    BY <2>1, <2>5 DEF Places, PollShape
  <2> QED BY <2>3, <2>4, <2>6 DEF RequestShape
<1> QED BY <1>1, <1>2, <1>3 DEF World

LEMMA StepKeepsShape == Shape /\ [Next]_vars => Shape'
<1> SUFFICES ASSUME Shape, [Next]_vars PROVE Shape'
  OBVIOUS
<1>1. CASE UNCHANGED vars
  BY <1>1 DEF vars, Shape, TypeOK, Places, PollShape, ShapedPoll, RequestShape
<1>2. CASE Cron \/ Demand
  BY <1>2, PollKeepsShape DEF Cron, Demand, Pollers
<1>3. CASE World
  BY <1>3, WorldKeepsShape
<1>4. CASE \E p \in Pollers : PollStep(p)
  BY <1>4, PollKeepsShape, LoginKeepsShape, ConstantFacts DEF PollStep
<1>5. CASE \E r \in Requests : Post(r) \/ RequestStep(r)
  BY <1>5, SendKeepsShape, RequestKeepsShape, LoginKeepsShape, ConstantFacts DEF RequestStep
<1> QED BY <1>1, <1>2, <1>3, <1>4, <1>5 DEF Next

\* Types and shapes hold throughout.
THEOREM ShapesHold == Spec => []TypeOK
<1>1. Spec => []Shape
  BY StartsShaped, StepKeepsShape, PTL DEF Spec
<1>2. Shape => TypeOK
  BY DEF Shape
<1> QED BY <1>1, <1>2, PTL

-----------------------------------------------------------------------------
(* Nobody waits for ever. *)

\* Whoever is in the middle of a login has the chain, and there is no other holder.
Control ==
  /\ OnePollAtATime
  /\ \A p \in Procs : pc[p] = "logging" <=> client.chain = p
  /\ client.chain # Null => ~client.held
ControlInv == Shape /\ Control

\* Who moves, and where: all the control that a step of one process can change.
LEMMA OnlyOneMoves ==
  ASSUME Shape, NEW r \in Requests, Post(r) \/ Snapshot(r) \/ SendAction(r) \/ RecordAndAnswer(r)
  PROVE  /\ \A q \in Procs \ {r} : pc'[q] = pc[q]
         /\ pc'[r] # "logging" /\ pc[r] # "logging" /\ memory' = memory /\ client'.chain = client.chain
         /\ client'.held => client.held
<1> USE ConstantFacts
<1>0. pc \in [Procs -> {"idle", "login", "logging", "reading", "storing", "snapshot", "acting",
                               "recording", "done", "thrown"}] /\ client \in [held : BOOLEAN, chain : OrNull(Procs)]
  BY DEF Shape, TypeOK
<1>1. CASE Post(r)
  BY <1>0, <1>1 DEF Post
<1>2. CASE Snapshot(r)
  BY <1>0, <1>2 DEF Snapshot, Invalidate, Ends, outside
<1>3. CASE SendAction(r)
  <2> DEFINE intent == Plan(r)[request[r].step]
  <2>1. /\ pc[r] = "acting" /\ Free /\ UNCHANGED <<outside, poll, memory, db, work, written, announced>>
        /\ Acknowledged(r, intent) \/ Refused(r, intent) \/ Silent(r, intent)
    BY <1>3 DEF SendAction
  <2> HIDE DEF intent
  <2>2. \/ \E ok \in BOOLEAN : AfterStep(r, ok)
        \/ \E a \in {"lost", "unreachable"} : NoReply(r, a)
    BY <2>1 DEF Acknowledged, Refused, Silent
  <2>3. client' = client \/ \E a \in {"lost", "unreachable"} : Invalidate(a)
    BY <2>1 DEF Acknowledged, Refused, Silent
  <2>4. client'.chain = client.chain /\ (client'.held => client.held)
    BY <1>0, <2>3 DEF Invalidate
  <2> QED BY <2>1, <2>2, <2>4, AfterFacts
<1>4. CASE RecordAndAnswer(r)
  BY <1>0, <1>4 DEF RecordAndAnswer
<1> QED BY <1>1, <1>2, <1>3, <1>4

LEMMA StepKeepsControl == ControlInv /\ [Next]_vars => Control'
<1> SUFFICES ASSUME ControlInv, [Next]_vars PROVE Control'
  OBVIOUS
<1> USE ConstantFacts DEF ControlInv
<1>0. /\ pc \in [Procs -> {"idle", "login", "logging", "reading", "storing", "snapshot", "acting",
                               "recording", "done", "thrown"}]
      /\ client \in [held : BOOLEAN, chain : OrNull(Procs)]
      /\ DOMAIN memory = {"running", "signature"} /\ Null \notin Procs
  BY RouterAssumption DEF Shape, TypeOK
<1>1. CASE UNCHANGED vars
  BY <1>1 DEF vars, Control, OnePollAtATime, Active
<1>2. ASSUME NEW p \in Procs, BeginLogin(p)
      PROVE  Control'
  <2>1. OnePollAtATime'
    BY <1>0, <1>2 DEF BeginLogin, Control, OnePollAtATime, Active
  <2>2. \A q \in Procs : pc'[q] = "logging" <=> client'.chain = q
    BY <1>0, <1>2 DEF BeginLogin, Control, Free
  <2> QED BY <1>2, <2>1, <2>2 DEF BeginLogin, Control
<1>3. ASSUME NEW p \in Procs, LoginOk(p)
      PROVE  Control'
  <2>1. OnePollAtATime'
    BY <1>0, <1>3 DEF LoginOk, Control, OnePollAtATime, Active
  <2>2. \A q \in Procs : pc'[q] = "logging" <=> client'.chain = q
    BY <1>0, <1>3 DEF LoginOk, Control
  <2> QED BY <1>3, <2>1, <2>2 DEF LoginOk, Control
<1>4. ASSUME NEW p \in Procs, LoginFails(p)
      PROVE  Control'
  <2> USE <1>4 DEF LoginFails, Rejected
  <2>1. OnePollAtATime'
    <3>1. CASE p \in Pollers
      BY <1>0, <3>1 DEF Control, OnePollAtATime, Active
    <3>2. CASE p \notin Pollers
      BY <1>0, <3>2 DEF Control, OnePollAtATime, Active
    <3> QED BY <3>1, <3>2
  <2>2. \A q \in Procs : pc'[q] = "logging" <=> client'.chain = q
    BY <1>0 DEF Control
  <2> QED BY <2>1, <2>2 DEF Control
<1>5. ASSUME NEW p \in Pollers, StartPoll(p)
      PROVE  Control'
  <2> USE <1>5 DEF StartPoll, PollGuarded
  <2>1. OnePollAtATime'
    BY <1>0 DEF Control, OnePollAtATime, Active
  <2> QED BY <1>0, <2>1 DEF Control
<1>6. ASSUME NEW p \in Pollers, PollRead(p)
      PROVE  Control'
  <2>1. PICK a, got, stop : Free /\ pc[p] = "reading" /\ Invalidate(a) /\ TakeIn(p, got, stop) /\ memory' = memory
    BY <1>6 DEF PollRead
  <2>2. \A q \in Procs \ {p} : pc'[q] = pc[q]
    BY <1>0, <2>1 DEF TakeIn
  <2>3. pc'[p] \in {"storing", "reading"} /\ client'.chain = client.chain
    BY <1>0, <2>1 DEF TakeIn, Invalidate
  <2>4. OnePollAtATime'
    BY <2>1, <2>2, <2>3 DEF Control, OnePollAtATime, Active
  <2>5. \A q \in Procs : pc'[q] = "logging" <=> client'.chain = q
    BY <2>1, <2>2, <2>3 DEF Control
  <2> QED BY <2>1, <2>3, <2>4, <2>5 DEF Control, Free
<1>7. ASSUME NEW p \in Pollers, Store(p) \/ StoreFails(p)
      PROVE  Control'
  <2>1. /\ pc[p] = "storing" /\ pc' = [pc EXCEPT ![p] = "idle"] /\ client' = client /\ memory'.running = FALSE
    <3>1. CASE Store(p)
      <4>1. PICK out : memory' = [running |-> FALSE, signature |-> out.signature]
        BY <3>1 DEF Store
      <4> QED BY <3>1, <4>1 DEF Store
    <3>2. CASE StoreFails(p)
      BY <1>0, <3>2 DEF StoreFails
    <3> QED BY <1>7, <3>1, <3>2
  <2>2. OnePollAtATime'
    BY <1>0, <2>1 DEF Control, OnePollAtATime, Active
  <2> QED BY <1>0, <2>1, <2>2 DEF Control
<1>8. ASSUME NEW r \in Requests, Post(r) \/ Snapshot(r) \/ SendAction(r) \/ RecordAndAnswer(r)
      PROVE  Control'
  <2>1. /\ \A q \in Procs \ {r} : pc'[q] = pc[q]
        /\ pc'[r] # "logging" /\ pc[r] # "logging" /\ memory' = memory /\ client'.chain = client.chain
        /\ client'.held => client.held
    BY <1>8, OnlyOneMoves
  <2>2. OnePollAtATime'
    BY <2>1 DEF Control, OnePollAtATime, Active
  <2>3. \A q \in Procs : pc'[q] = "logging" <=> client'.chain = q
    BY <2>1 DEF Control
  <2> QED BY <2>1, <2>2, <2>3 DEF Control
<1>9. CASE World
  <2>1. CASE Restart
    <3>1. \A p \in Procs : pc'[p] # "logging" /\ (p \in Pollers => pc'[p] = "idle")
      BY <1>0, <2>1 DEF Restart, Active, Shape, Places
    <3>2. memory'.running = FALSE /\ client' = [held |-> FALSE, chain |-> Null]
      BY <2>1 DEF Restart, Boot
    <3> QED BY <1>0, <3>1, <3>2 DEF Control, OnePollAtATime, Active
  <2>2. CASE Elapse \/ LineResync \/ DeviceBoots \/ PersonLogsIn \/ WanDrops
    <3>1. UNCHANGED <<pc, client, memory>>
      BY <2>2 DEF Elapse, LineResync, DeviceBoots, PersonLogsIn, WanDrops
    <3> QED BY <3>1 DEF Control, OnePollAtATime, Active
  <2> QED BY <1>9, <2>1, <2>2 DEF World
<1> QED
  BY <1>1, <1>2, <1>3, <1>4, <1>5, <1>6, <1>7, <1>8, <1>9
  DEF Next, Cron, Demand, PollStep, RequestStep, Pollers

LEMMA StartsControlled == Init => ControlInv
<1> SUFFICES ASSUME Init PROVE ControlInv
  OBVIOUS
<1>1. Control
  BY ConstantFacts, RouterAssumption DEF Init, Control, OnePollAtATime, Active, Boot
<1> QED BY <1>1, StartsShaped DEF ControlInv

LEMMA ControlHolds == Spec => []ControlInv
<1>1. ControlInv /\ [Next]_vars => ControlInv'
  BY StepKeepsShape, StepKeepsControl DEF ControlInv
<1> QED BY <1>1, StartsControlled, PTL DEF Spec

\* Neither a poll nor a login stands in the way of the next one for good: one poll at a
\* time, the flag up exactly while there is one, and the chain of the client with nobody
\* who is not in the middle of a login (scheduler.ts pollGuarded, client.ts serialise).
THEOREM NobodyIsWedged == Spec => []NobodyWaitsForEver
<1>1. ControlInv => NobodyWaitsForEver
  BY DEF ControlInv, Control, NobodyWaitsForEver, NobodyWedged, Shape, TypeOK, OrNull
<1> QED BY <1>1, ControlHolds, PTL

-----------------------------------------------------------------------------
(* Nothing breaks off but for a cause outside. *)

AtWork(p) == pc[p] \in {"reading", "snapshot", "acting"}

\* Whoever is at work and has not been disturbed still has the session, or is about to get
\* the one that another login of the same client brings.
Sound ==
  \A p \in Procs : AtWork(p) /\ p \notin disturbed =>
    device.up /\ (client.chain = Null => client.held /\ device.slot = "client")
Blamed == \A p \in Pollers : pc[p] \in {"reading", "storing"} /\ poll[p].abandoned => p \in disturbed
CauseInv == ControlInv /\ Sound /\ Blamed /\ AbandonedForCause

LEMMA SoundAnswers ==
  ASSUME Sound, Free, NEW p \in Procs, AtWork(p), p \notin disturbed
  PROVE  SteadyAnswer = "ok"
  BY DEF Sound, Free, SteadyAnswer

\* One request over the session: whoever it finds undisturbed keeps what it had, or learns
\* of it.
LEMMA AnswerKeepsSound ==
  ASSUME ControlInv, Sound, Free, NEW a, Answered(a), Invalidate(a), device' = device,
         NEW q \in Procs, AtWork(q), q \notin disturbed'
  PROVE  /\ q \notin disturbed /\ device.up
         /\ client'.held /\ client'.chain = Null /\ device'.slot = "client"
         /\ a \notin {"lost", "unreachable"}
<1>1. q \notin disturbed
  BY DEF Answered, Disturb
<1>2. SteadyAnswer = "ok"
  BY <1>1, SoundAnswers
<1>3. ~Disturb
  BY DEF Disturb, Active, AtWork
<1>4. a = "ok" \/ a \notin {"lost", "unreachable"}
  BY <1>2, <1>3 DEF Answered
<1>5. client \in [held : BOOLEAN, chain : OrNull(Procs)]
  BY DEF ControlInv, Shape, TypeOK
<1>6. device.up /\ client.held /\ client.chain = Null /\ device.slot = "client"
  BY <1>1 DEF Sound, Free
<1> QED BY <1>1, <1>4, <1>5, <1>6 DEF Invalidate

LEMMA SendKeepsSound ==
  ASSUME ControlInv, Sound, NEW r \in Requests, SendAction(r),
         NEW q \in Procs, AtWork(q), q \notin disturbed'
  PROVE  /\ q \notin disturbed /\ device'.up /\ client'.held /\ client'.chain = Null
         /\ device'.slot = "client"
         /\ AfterStep(r, TRUE) /\ Perform(r, Plan(r)[request[r].step])
<1> DEFINE intent == Plan(r)[request[r].step]
<1>1. Free /\ (Acknowledged(r, intent) \/ Refused(r, intent) \/ Silent(r, intent))
  BY DEF SendAction
<1> HIDE DEF intent
<1>2. q \notin disturbed
  BY <1>1 DEF Acknowledged, Refused, Silent, Disturb
<1>3. SteadyAnswer = "ok"
  BY <1>1, <1>2, SoundAnswers
<1>4. ~Disturb
  BY DEF Disturb, Active, AtWork
<1>5. Acknowledged(r, intent) /\ intent # "reboot"
  BY <1>1, <1>3, <1>4 DEF Acknowledged, Refused, Silent
<1>6. device.up /\ client.held /\ client.chain = Null /\ device.slot = "client"
  BY <1>1, <1>2 DEF Sound, Free
<1>7. device'.up = device.up /\ device'.slot = device.slot
  <2>1. device \in Devices
    BY DEF ControlInv, Shape, TypeOK, Devices
  <2> QED BY <1>5, <2>1 DEF Acknowledged, Perform, Devices
<1> QED BY <1>2, <1>5, <1>6, <1>7 DEF Acknowledged, intent

LEMMA StepKeepsCause == CauseInv /\ [Next]_vars => Sound' /\ Blamed' /\ AbandonedForCause'
<1> SUFFICES ASSUME CauseInv, [Next]_vars PROVE Sound' /\ Blamed' /\ AbandonedForCause'
  OBVIOUS
<1> USE ConstantFacts
<1>0. /\ pc \in [Procs -> {"idle", "login", "logging", "reading", "storing", "snapshot", "acting",
                               "recording", "done", "thrown"}]
      /\ client \in [held : BOOLEAN, chain : OrNull(Procs)] /\ DOMAIN poll = Pollers
      /\ device \in Devices /\ Null \notin Procs
      /\ ControlInv /\ Sound /\ Blamed /\ AbandonedForCause
      /\ \A p \in Procs : pc[p] = "logging" <=> client.chain = p
      /\ \A p \in Pollers : ShapedPoll(poll[p], pc[p])
      /\ Shape
  BY RouterAssumption DEF CauseInv, ControlInv, Control, Shape, TypeOK, Devices, PollShape
<1>1. CASE UNCHANGED vars
  BY <1>0, <1>1 DEF vars, Sound, Blamed, AbandonedForCause, AtWork
<1>2. ASSUME NEW p \in Procs, BeginLogin(p)
      PROVE  Sound' /\ Blamed' /\ AbandonedForCause'
  <2> USE <1>2 DEF BeginLogin
  <2>1. \A q \in Procs : AtWork(q)' => AtWork(q)
    BY <1>0 DEF AtWork
  <2>2. Sound'
    BY <1>0, <2>1 DEF Sound
  <2> QED BY <1>0, <2>2 DEF Blamed, AbandonedForCause
<1>3. ASSUME NEW p \in Procs, LoginOk(p)
      PROVE  Sound' /\ Blamed' /\ AbandonedForCause'
  <2> USE <1>3 DEF LoginOk
  <2>1. Sound'
    BY <1>0 DEF Sound, Devices
  <2>2. Blamed'
    <3> SUFFICES ASSUME NEW q \in Pollers, pc'[q] \in {"reading", "storing"}, poll'[q].abandoned
                 PROVE  q \in disturbed
      BY DEF Blamed
    <3>1. q # p
      BY <1>0 DEF PollFrom, Devices
    <3>2. pc'[q] = pc[q] /\ poll'[q] = poll[q]
      BY <1>0, <3>1
    <3> QED BY <1>0, <3>2 DEF Blamed
  <2> QED BY <1>0, <2>1, <2>2 DEF AbandonedForCause
<1>4. ASSUME NEW p \in Procs, LoginFails(p)
      PROVE  Sound' /\ Blamed' /\ AbandonedForCause'
  <2> USE <1>4 DEF LoginFails, Rejected
  <2>1. /\ pc'[p] \in {"idle", "thrown"} /\ \A q \in Procs \ {p} : pc'[q] = pc[q]
        /\ UNCHANGED <<poll, written>>
    BY <1>0
  <2>2. disturbed \subseteq disturbed'
    BY DEF Disturb
  <2>3. Sound'
    <3> SUFFICES ASSUME NEW q \in Procs, AtWork(q)', q \notin disturbed' PROVE FALSE
      BY DEF Sound
    <3>1. AtWork(q) /\ q \notin disturbed
      BY <2>1, <2>2 DEF AtWork
    <3>2. device.up
      BY <1>0, <3>1 DEF Sound
    <3> QED BY <3>1, <3>2 DEF Disturb, Active, AtWork
  <2> QED BY <1>0, <2>1, <2>2, <2>3 DEF Blamed, AbandonedForCause
<1>5. ASSUME NEW p \in Pollers, StartPoll(p)
      PROVE  Sound' /\ Blamed' /\ AbandonedForCause'
  <2>1. /\ pc'[p] = "login" /\ \A q \in Procs \ {p} : pc'[q] = pc[q]
        /\ disturbed' = disturbed \ {p} /\ UNCHANGED <<poll, device, client, written>>
    BY <1>0, <1>5 DEF StartPoll
  <2> QED BY <1>0, <2>1 DEF Sound, AtWork, Blamed, AbandonedForCause
<1>6. ASSUME NEW p \in Pollers, PollRead(p)
      PROVE  Sound' /\ Blamed' /\ AbandonedForCause'
  <2>1. PICK a : /\ Answered(a) /\ Invalidate(a)
                 /\ \E got, stop : /\ TakeIn(p, got, stop) /\ stop \in BOOLEAN
                                   /\ stop => a \in {"lost", "unreachable"}
    BY <1>6 DEF PollRead
  <2>2. PICK got, stop : TakeIn(p, got, stop) /\ stop \in BOOLEAN /\ (stop => a \in {"lost", "unreachable"})
    BY <2>1
  <2>3. pc[p] = "reading" /\ Free /\ UNCHANGED <<device, written>>
    BY <1>6 DEF PollRead
  <2>4. /\ pc'[p] \in {"storing", "reading"} /\ \A q \in Procs \ {p} : pc'[q] = pc[q]
        /\ \A q \in Pollers \ {p} : poll'[q] = poll[q]
    BY <1>0, <2>2 DEF TakeIn
  <2>5. poll'[p].abandoned = stop
    BY <1>0, <2>2, <2>3 DEF TakeIn, Taken, ShapedPoll
  <2>6. \A q \in Procs : AtWork(q)' => AtWork(q)
    BY <2>3, <2>4 DEF AtWork
  <2>7. Sound'
    BY <1>0, <2>1, <2>3, <2>6, AnswerKeepsSound DEF Sound
  <2>8. disturbed \subseteq disturbed'
    BY <2>1 DEF Answered, Disturb
  <2>9. Blamed'
    <3> SUFFICES ASSUME NEW q \in Pollers, pc'[q] \in {"reading", "storing"}, poll'[q].abandoned,
                        q \notin disturbed'
                 PROVE  FALSE
      BY DEF Blamed
    <3>1. CASE q = p
      <4>1. AtWork(p)
        BY <2>3 DEF AtWork
      <4> QED BY <1>0, <2>1, <2>2, <2>3, <2>5, <3>1, <4>1, AnswerKeepsSound
    <3>2. CASE q # p
      BY <1>0, <2>4, <2>8, <3>2 DEF Blamed
    <3> QED BY <3>1, <3>2
  <2> QED BY <1>0, <2>3, <2>7, <2>9 DEF AbandonedForCause
<1>7. ASSUME NEW p \in Pollers, Store(p)
      PROVE  Sound' /\ Blamed' /\ AbandonedForCause'
  <2>1. /\ pc[p] = "storing" /\ pc' = [pc EXCEPT ![p] = "idle"] /\ poll' = [poll EXCEPT ![p] = NoPoll]
        /\ disturbed' = disturbed \ {p} /\ UNCHANGED <<device, client>>
    BY <1>7 DEF Store
  <2>2. written'.abandoned = poll[p].abandoned /\ written'.disturbed = (p \in disturbed)
    BY <1>7 DEF Store
  <2>3. AbandonedForCause'
    BY <1>0, <2>1, <2>2 DEF Blamed, AbandonedForCause
  <2>4. Sound' /\ Blamed'
    BY <1>0, <2>1 DEF Sound, AtWork, Blamed
  <2> QED BY <2>3, <2>4
<1>8. ASSUME NEW p \in Pollers, StoreFails(p)
      PROVE  Sound' /\ Blamed' /\ AbandonedForCause'
  <2>1. /\ pc' = [pc EXCEPT ![p] = "idle"] /\ poll' = [poll EXCEPT ![p] = NoPoll]
        /\ UNCHANGED <<device, client, written, disturbed>>
    BY <1>8 DEF StoreFails
  <2> QED BY <1>0, <2>1 DEF Sound, AtWork, Blamed, AbandonedForCause
<1>9. ASSUME NEW r \in Requests, Post(r) \/ Snapshot(r) \/ SendAction(r) \/ RecordAndAnswer(r)
      PROVE  Sound' /\ Blamed' /\ AbandonedForCause'
  <2>1. /\ \A q \in Procs \ {r} : pc'[q] = pc[q]
        /\ UNCHANGED <<poll, written>>
    BY <1>0, <1>9, OnlyOneMoves DEF Post, Snapshot, SendAction, RecordAndAnswer
  <2>2. \A q \in Pollers : q \in disturbed => q \in disturbed'
    BY <1>9 DEF Post, Snapshot, SendAction, RecordAndAnswer, Answered, Disturb, Acknowledged, Refused, Silent
  <2>3. Blamed' /\ AbandonedForCause'
    BY <1>0, <2>1, <2>2 DEF Blamed, AbandonedForCause
  <2>4. CASE Post(r)
    <3>1. pc'[r] \in {"done", "recording", "login"}
      BY <1>0, <2>4 DEF Post
    <3> QED BY <1>0, <2>1, <2>3, <2>4, <3>1 DEF Post, Sound, AtWork
  <2>5. CASE Snapshot(r)
    <3>1. PICK a : Answered(a) /\ Invalidate(a)
      BY <2>5 DEF Snapshot
    <3>2. Free /\ device' = device /\ pc[r] = "snapshot"
      BY <2>5 DEF Snapshot
    <3>3. \A q \in Procs : AtWork(q)' => AtWork(q)
      BY <2>1, <3>2 DEF AtWork
    <3>4. Sound'
      BY <1>0, <3>1, <3>2, <3>3, AnswerKeepsSound DEF Sound
    <3> QED BY <2>3, <3>4
  <2>6. CASE SendAction(r)
    <3>1. pc[r] = "acting"
      BY <2>6 DEF SendAction
    <3>2. \A q \in Procs : AtWork(q)' => AtWork(q)
      BY <2>1, <3>1 DEF AtWork
    <3>3. Sound'
      BY <1>0, <2>6, <3>2, SendKeepsSound DEF Sound
    <3> QED BY <2>3, <3>3
  <2>7. CASE RecordAndAnswer(r)
    <3>1. pc' = [pc EXCEPT ![r] = "done"] /\ UNCHANGED <<device, client, disturbed>>
      BY <2>7 DEF RecordAndAnswer
    <3> QED BY <1>0, <2>3, <3>1 DEF Sound, AtWork
  <2> QED BY <1>9, <2>4, <2>5, <2>6, <2>7
<1>10. CASE World
  <2>1. CASE Elapse \/ LineResync \/ WanDrops
    <3>1. /\ UNCHANGED <<pc, poll, client, written, disturbed>>
          /\ device'.up = device.up /\ device'.slot = device.slot
      BY <1>0, <2>1 DEF Elapse, LineResync, WanDrops, Devices
    <3> QED BY <1>0, <3>1 DEF Sound, AtWork, Blamed, AbandonedForCause
  <2>2. CASE DeviceBoots
    <3>1. UNCHANGED <<pc, poll, client, written, disturbed>> /\ ~device.up
      BY <2>2 DEF DeviceBoots
    <3> QED BY <1>0, <3>1 DEF Sound, AtWork, Blamed, AbandonedForCause
  <2>3. CASE PersonLogsIn
    <3>1. UNCHANGED <<pc, poll, client, written>> /\ Disturb
      BY <2>3 DEF PersonLogsIn
    <3> QED BY <1>0, <3>1 DEF Sound, AtWork, Active, Disturb, Blamed, AbandonedForCause
  <2>4. CASE Restart
    <3>1. /\ \A p \in Pollers : pc'[p] = "idle"
          /\ \A r \in Requests : pc'[r] \in {"idle", "done", "thrown"}
          /\ written' = written
      BY <1>0, <2>4 DEF Restart, Active, Shape, Places
    <3> QED BY <1>0, <3>1 DEF Sound, AtWork, Blamed, AbandonedForCause, Procs
  <2> QED BY <1>10, <2>1, <2>2, <2>3, <2>4 DEF World
<1> QED
  BY <1>1, <1>2, <1>3, <1>4, <1>5, <1>6, <1>7, <1>8, <1>9, <1>10
  DEF Next, Cron, Demand, PollStep, RequestStep, Pollers

LEMMA StartsCaused == Init => CauseInv
<1> SUFFICES ASSUME Init PROVE CauseInv
  OBVIOUS
<1>1. Sound /\ Blamed /\ AbandonedForCause
  BY ConstantFacts DEF Init, Sound, Blamed, AbandonedForCause, AtWork
<1> QED BY <1>1, StartsControlled DEF CauseInv

LEMMA StepKeepsCauseInv == CauseInv /\ [Next]_vars => CauseInv'
  BY StepKeepsShape, StepKeepsControl, StepKeepsCause DEF CauseInv, ControlInv

LEMMA CauseHolds == Spec => []CauseInv
  BY StartsCaused, StepKeepsCauseInv, PTL DEF Spec

\* A poll stops half way only when something outside it happened meanwhile: a request to
\* the executor, which logs in on the same client, never costs it its session.
THEOREM PollsBreakOffForCause == Spec => []AbandonedForCause
<1>1. CauseInv => AbandonedForCause
  BY DEF CauseInv
<1> QED BY <1>1, CauseHolds, PTL

-----------------------------------------------------------------------------
(* The executor. *)

Pair == <<"ppp_disconnect", "ppp_connect">>
Plans == {Pair, <<"dhcp_renew">>, <<"reboot">>}
Orders == Plans \cup {<<>>, <<"ppp_disconnect">>}
Sent == [intent : {"ppp_disconnect", "ppp_connect", "dhcp_renew", "reboot"}, selectedBy : {"status"}]

\* Before it acts a request has sent nothing.
Waiting(r) ==
  pc[r] \in {"idle", "login", "logging", "snapshot"} => verbs[r] = <<>> /\ request[r].step = 1

\* While it acts it has sent what comes before the step it is at.
Acting(r) ==
  pc[r] = "acting" =>
    /\ request[r].wan.selectedBy = "status" /\ Plan(r) \in Plans
    /\ \/ request[r].step = 1 /\ Intents(r) = <<>>
       \/ request[r].step = 2 /\ Plan(r) = Pair /\ Intents(r) = <<"ppp_disconnect">>

\* When it is over, half a pair has a cause, and the outcome says what went out.
Over(r) ==
  /\ pc[r] \in {"recording", "done", "thrown"} =>
       Intents(r) \in Orders /\ (Intents(r) = <<"ppp_disconnect">> => r \in disturbed)
  /\ pc[r] = "recording" =>
       /\ request[r].outcome = "executed" => Intents(r) = Plan(r)
       /\ ~Touched(request[r].outcome) => Intents(r) = <<>>

Executor(r) == Waiting(r) /\ Acting(r) /\ Over(r)
Told == \A row \in db.rows : row.by \in Requests /\ pc[row.by] = "done"
ExecInv ==
  /\ CauseInv /\ verbs \in [Requests -> Seq(Sent)]
  /\ \A r \in Requests : Executor(r)
  /\ Told /\ RowsTellWhatWasSent

\* Only what the router itself calls live is vouched for.
LEMMA VouchedFacts ==
  ASSUME NEW rows, Vouched(rows) # Null
  PROVE  Vouched(rows).selectedBy = "status"
  BY DEF Vouched, ParseLiveWan, ByContinuity, Described

LEMMA IntentsGrow ==
  ASSUME NEW s \in Seq(Sent), NEW v \in Sent
  PROVE  [i \in DOMAIN Append(s, v) |-> Append(s, v)[i].intent]
           = Append([i \in DOMAIN s |-> s[i].intent], v.intent)
<1> DEFINE t == Append(s, v)
           I == [i \in DOMAIN s |-> s[i].intent]
           W == {"ppp_disconnect", "ppp_connect", "dhcp_renew", "reboot"}
<1>1. /\ t \in Seq(Sent) /\ Len(t) = Len(s) + 1 /\ Len(s) \in Nat
      /\ \A k \in 1..Len(s) : t[k] = s[k]
      /\ t[Len(s) + 1] = v
  BY AppendFacts
<1>2. DOMAIN t = 1..Len(s) + 1 /\ DOMAIN s = 1..Len(s)
  BY <1>1, SeqFacts
<1>3. I \in Seq(W) /\ Len(I) = Len(s)
  <2>1. \A k \in 1..Len(s) : s[k].intent \in W
    <3>1. \A k \in 1..Len(s) : s[k] \in Sent
      BY SeqFacts
    <3> QED BY <3>1 DEF Sent
  <2>2. I \in [1..Len(s) -> W]
    BY <1>2, <2>1
  <2> QED BY <1>1, <2>2, LenProperties, SeqDef
<1>4. /\ Append(I, v.intent) \in Seq(W) /\ Len(Append(I, v.intent)) = Len(s) + 1
      /\ \A k \in 1..Len(s) : Append(I, v.intent)[k] = I[k]
      /\ Append(I, v.intent)[Len(s) + 1] = v.intent
  <2>1. v.intent \in W
    BY DEF Sent
  <2> HIDE DEF W, I
  <2> QED BY <1>3, <2>1, AppendFacts
<1>5. DOMAIN Append(I, v.intent) = 1..Len(s) + 1
  BY <1>4, SeqFacts
<1>6. \A k \in 1..Len(s) + 1 : t[k].intent = Append(I, v.intent)[k]
  <2> SUFFICES ASSUME NEW k \in 1..Len(s) + 1 PROVE t[k].intent = Append(I, v.intent)[k]
    OBVIOUS
  <2>1. CASE k = Len(s) + 1
    BY <1>1, <1>4, <2>1
  <2>2. CASE k \in 1..Len(s)
    BY <1>1, <1>2, <1>4, <2>2
  <2> QED BY <1>1, <2>1, <2>2
<1>7. Append(I, v.intent) = [k \in 1..Len(s) + 1 |-> Append(I, v.intent)[k]]
  BY <1>4, <1>5
<1> HIDE DEF t, I
<1>8. [i \in DOMAIN t |-> t[i].intent] = [k \in 1..Len(s) + 1 |-> Append(I, v.intent)[k]]
  BY <1>2, <1>6
<1> QED BY <1>7, <1>8 DEF t, I

\* What a verb adds to a request's list, in the two places it can be added at.
LEMMA PerformGrows ==
  ASSUME verbs \in [Requests -> Seq(Sent)], NEW r \in Requests, request[r].wan.selectedBy = "status",
         NEW intent \in {"ppp_disconnect", "ppp_connect", "dhcp_renew", "reboot"}, Perform(r, intent)
  PROVE  /\ verbs' \in [Requests -> Seq(Sent)]
         /\ \A q \in Requests \ {r} : verbs'[q] = verbs[q]
         /\ Intents(r) = <<>> => Intents(r)' = <<intent>>
         /\ Intents(r) = <<"ppp_disconnect">> => Intents(r)' = <<"ppp_disconnect", intent>>
<1> DEFINE v == [intent |-> intent, selectedBy |-> request[r].wan.selectedBy]
<1>1. v \in Sent /\ v.intent = intent
  BY DEF Sent
<1>2. verbs' = [verbs EXCEPT ![r] = Append(verbs[r], v)]
  BY DEF Perform
<1> HIDE DEF v
<1>3. Append(verbs[r], v) \in Seq(Sent)
  BY <1>1, AppendFacts
<1>4. verbs' \in [Requests -> Seq(Sent)] /\ verbs'[r] = Append(verbs[r], v)
  BY <1>2, <1>3
<1>5. Intents(r)' = Append(Intents(r), intent)
  BY <1>1, <1>4, IntentsGrow DEF Intents
<1>6. Append(<<>>, intent) = <<intent>>
  OBVIOUS
<1>7. Append(<<"ppp_disconnect">>, intent) = <<"ppp_disconnect", intent>>
  <2> DEFINE W == {"ppp_disconnect", "ppp_connect", "dhcp_renew", "reboot"}
             s == <<"ppp_disconnect">>
             u == <<"ppp_disconnect", intent>>
  <2>1. s \in Seq(W) /\ Len(s) = 1 /\ s[1] = "ppp_disconnect"
    OBVIOUS
  <2>2. u \in Seq(W) /\ Len(u) = 2 /\ u[1] = "ppp_disconnect" /\ u[2] = intent
    OBVIOUS
  <2>5. intent \in W
    OBVIOUS
  <2> HIDE DEF s, u, W
  <2>3. /\ Append(s, intent) \in Seq(W) /\ Len(Append(s, intent)) = 2
        /\ Append(s, intent)[1] = "ppp_disconnect" /\ Append(s, intent)[2] = intent
    <3> DEFINE t == Append(s, intent)
    <3>1. s \in Seq(W) /\ intent \in W
      BY <2>1, <2>5
    <3>2. /\ t \in Seq(W) /\ Len(t) = Len(s) + 1
          /\ \A k \in 1..Len(s) : t[k] = s[k]
          /\ t[Len(s) + 1] = intent
      BY <3>1, AppendFacts
    <3> HIDE DEF t
    <3>3. Len(t) = 2 /\ t[1] = s[1] /\ t[2] = intent
      BY <2>1, <3>2
    <3> QED BY <2>1, <3>2, <3>3 DEF t
  <2>4. Append(s, intent) = u
    BY <2>2, <2>3, SeqEqual
  <2> QED BY <2>4 DEF s, u
<1> QED BY <1>2, <1>4, <1>5, <1>6, <1>7

\* Who has sent nothing has an empty list of verbs.
LEMMA NothingSent ==
  ASSUME NEW r \in Requests, verbs[r] = <<>>
  PROVE  Intents(r) = <<>>
  BY DEF Intents

\* A request that nobody moves keeps what it had.
LEMMA ExecutorRests ==
  ASSUME NEW r \in Requests, Executor(r), verbs'[r] = verbs[r], request'[r] = request[r],
         r \in disturbed => r \in disturbed',
         \/ pc'[r] = pc[r]
         \/ pc[r] = "login" /\ pc'[r] = "logging"
         \/ pc[r] = "logging" /\ pc'[r] = "snapshot"
         \/ pc[r] \in {"login", "logging", "snapshot"} /\ pc'[r] = "thrown"
         \/ pc[r] = "recording" /\ pc'[r] = "done"
         \/ pc'[r] = "thrown" /\ r \in disturbed' /\ pc[r] \in {"acting", "recording"}
  PROVE  Executor(r)'
<1>1. Intents(r)' = Intents(r) /\ Plan(r)' = Plan(r)
  BY DEF Intents, Plan
<1>2. Waiting(r)'
  BY DEF Executor, Waiting
<1>3. Acting(r)'
  BY <1>1 DEF Executor, Acting
<1>4. Over(r)'
  <2>1. verbs[r] = <<>> => Intents(r) = <<>>
    BY NothingSent
  <2>2. <<>> # <<"ppp_disconnect">> /\ <<>> \in Orders /\ <<"ppp_disconnect">> \in Orders
    BY DEF Orders
  <2> QED BY <1>1, <2>1, <2>2 DEF Executor, Waiting, Acting, Over
<1> QED BY <1>2, <1>3, <1>4 DEF Executor

\* The record of the action routes, when nobody moves whose row it is.
LEMMA RowsRest ==
  ASSUME Told, RowsTellWhatWasSent, db'.rows = db.rows,
         \A r \in Requests : pc[r] = "done" =>
           pc'[r] = "done" /\ verbs'[r] = verbs[r] /\ request'[r] = request[r]
  PROVE  Told' /\ RowsTellWhatWasSent'
<1>1. \A r \in Requests : pc[r] = "done" => Intents(r)' = Intents(r) /\ Plan(r)' = Plan(r)
  BY DEF Intents, Plan
<1>2. Told'
  BY DEF Told
<1>3. RowsTellWhatWasSent'
  <2> SUFFICES ASSUME NEW row \in db.rows
               PROVE  /\ row.kind = "note" => Intents(row.by)' = <<>>
                      /\ row.outcome = "executed" => Intents(row.by)' = Plan(row.by)'
    BY DEF RowsTellWhatWasSent
  <2>1. row.by \in Requests /\ pc[row.by] = "done"
    BY DEF Told
  <2> QED BY <1>1, <2>1 DEF RowsTellWhatWasSent
<1> QED BY <1>2, <1>3

LEMMA SendKeepsExecutor ==
  ASSUME ExecInv, NEW r \in Requests, SendAction(r)
  PROVE  verbs' \in [Requests -> Seq(Sent)] /\ \A q \in Requests : Executor(q)'
<1> DEFINE intent == Plan(r)[request[r].step]
<1>1. /\ pc[r] = "acting" /\ Free /\ Shape /\ ControlInv /\ Sound
      /\ Acknowledged(r, intent) \/ Refused(r, intent) \/ Silent(r, intent)
  BY DEF SendAction, ExecInv, CauseInv, ControlInv
<1>2. /\ request[r].wan.selectedBy = "status" /\ Plan(r) \in Plans
      /\ \/ request[r].step = 1 /\ Intents(r) = <<>>
         \/ request[r].step = 2 /\ Plan(r) = Pair /\ Intents(r) = <<"ppp_disconnect">>
  BY <1>1 DEF ExecInv, Executor, Acting
<1>3. /\ intent \in {"ppp_disconnect", "ppp_connect", "dhcp_renew", "reboot"}
      /\ request[r].step = 1 =>
           <<intent>> = IF Plan(r) = Pair THEN <<"ppp_disconnect">> ELSE Plan(r)
      /\ request[r].step = 2 => <<"ppp_disconnect", intent>> = Pair
      /\ request[r].step = Len(Plan(r)) <=> (request[r].step = 2 \/ Plan(r) # Pair)
  <2>1. CASE Plan(r) = Pair /\ request[r].step = 1
    BY <2>1 DEF Pair
  <2>2. CASE Plan(r) = Pair /\ request[r].step = 2
    BY <2>2 DEF Pair
  <2>3. CASE Plan(r) = <<"dhcp_renew">> /\ request[r].step = 1
    BY <2>3 DEF Pair
  <2>4. CASE Plan(r) = <<"reboot">> /\ request[r].step = 1
    BY <2>4 DEF Pair
  <2> QED BY <1>2, <2>1, <2>2, <2>3, <2>4 DEF Plans
<1> HIDE DEF intent
<1>4. Perform(r, intent) \/ UNCHANGED verbs
  BY <1>1 DEF Acknowledged, Refused, Silent
<1>5. verbs' \in [Requests -> Seq(Sent)] /\ \A q \in Requests \ {r} : verbs'[q] = verbs[q]
  BY <1>2, <1>3, <1>4, PerformGrows DEF ExecInv
<1>6. UNCHANGED verbs => Intents(r)' = Intents(r)
  BY DEF Intents
<1>7. Perform(r, intent) => Intents(r)' = IF request[r].step = 1 THEN <<intent>> ELSE Pair
  BY <1>2, <1>3, PerformGrows, SMTT(30) DEF ExecInv
<1>8. \/ \E ok \in BOOLEAN : AfterStep(r, ok)
      \/ \E a \in {"lost", "unreachable"} : NoReply(r, a)
  BY <1>1 DEF Acknowledged, Refused, Silent
<1>9. /\ \A q \in Procs \ {r} : pc'[q] = pc[q]
      /\ pc'[r] \in {"acting", "recording", "thrown"}
      /\ \A q \in Requests \ {r} : request'[q] = request[q]
      /\ request'[r].kind = request[r].kind /\ request'[r].wan = request[r].wan
      /\ pc'[r] = "acting" => request'[r].step = request[r].step + 1
      /\ pc'[r] = "recording" => request'[r].outcome \in {"executed", "failed", "unknown"}
  BY <1>1, <1>8, AfterFacts
<1>10. Plan(r)' = Plan(r)
  BY <1>9 DEF Plan
<1>11. disturbed \subseteq disturbed'
  BY <1>1 DEF Acknowledged, Refused, Silent, Disturb
<1>12. Intents(r)' \in Orders
  BY <1>2, <1>3, <1>4, <1>6, <1>7 DEF Orders, Plans
<1>13. /\ r \notin disturbed' => AfterStep(r, TRUE) /\ Perform(r, intent)
  BY <1>1, ConstantFacts, SendKeepsSound DEF intent, AtWork
<1>14. AfterStep(r, TRUE) =>
         \/ request[r].step = Len(Plan(r)) /\ pc'[r] = "recording"
         \/ request[r].step # Len(Plan(r)) /\ pc'[r] = "acting"
  <2>1. r \in DOMAIN pc
    BY <1>1, ConstantFacts DEF Shape, TypeOK
  <2> QED BY <1>1, <2>1 DEF AfterStep, Ends
<1>15. request'[r].outcome = "executed" /\ pc'[r] = "recording" =>
         AfterStep(r, TRUE) /\ Perform(r, intent)
  <2>1. r \in DOMAIN request /\ r \in DOMAIN pc /\ DOMAIN request[r] = {"kind", "wan", "step", "outcome"}
    BY <1>1, ConstantFacts DEF Shape, TypeOK, RequestShape
  <2>2. CASE Acknowledged(r, intent)
    BY <2>2 DEF Acknowledged
  <2>3. CASE Refused(r, intent)
    <3>1. request'[r].outcome = "failed"
      BY <2>1, <2>3 DEF Refused, AfterStep, Ends
    <3> QED BY <3>1
  <2>4. CASE Silent(r, intent)
    <3>1. request'[r].outcome = "unknown" \/ pc'[r] = "thrown"
      BY <2>1, <2>4 DEF Silent, NoReply, Ends
    <3> QED BY <3>1
  <2> QED BY <1>1, <2>2, <2>3, <2>4
<1>16. Waiting(r)'
  BY <1>9 DEF Waiting
<1>17. Acting(r)'
  <2> SUFFICES ASSUME pc'[r] = "acting"
               PROVE  /\ request'[r].wan.selectedBy = "status" /\ Plan(r)' \in Plans
                      /\ request'[r].step = 2 /\ Plan(r)' = Pair /\ Intents(r)' = <<"ppp_disconnect">>
    BY DEF Acting
  <2>1. r \in DOMAIN pc
    BY <1>1, ConstantFacts DEF Shape, TypeOK
  <2>2. AfterStep(r, TRUE) /\ Perform(r, intent)
    <3>1. CASE Acknowledged(r, intent)
      BY <3>1 DEF Acknowledged
    <3>2. CASE Refused(r, intent)
      BY <2>1, <3>2 DEF Refused, AfterStep, Ends
    <3>3. CASE Silent(r, intent)
      BY <2>1, <3>3 DEF Silent, NoReply, Ends
    <3> QED BY <1>1, <3>1, <3>2, <3>3
  <2>3. request[r].step # Len(Plan(r))
    BY <1>14, <2>2
  <2>4. request[r].step = 1 /\ Plan(r) = Pair
    BY <1>2, <1>3, <2>3
  <2>5. Intents(r)' = <<"ppp_disconnect">>
    BY <1>3, <1>7, <2>2, <2>4
  <2> QED BY <1>2, <1>9, <1>10, <2>4, <2>5
<1>18. Over(r)'
  <2>1. ASSUME pc'[r] \in {"recording", "thrown"}, Intents(r)' = <<"ppp_disconnect">>
        PROVE  r \in disturbed'
    <3> SUFFICES ASSUME r \notin disturbed' PROVE FALSE
      OBVIOUS
    <3>1. request[r].step = Len(Plan(r)) /\ Perform(r, intent)
      BY <1>13, <1>14, <2>1
    <3>2. Intents(r)' \in {Pair, <<"dhcp_renew">>, <<"reboot">>}
      BY <1>2, <1>3, <1>7, <3>1 DEF Plans
    <3> QED BY <2>1, <3>2 DEF Pair
  <2>2. ASSUME pc'[r] = "recording", request'[r].outcome = "executed"
        PROVE  Intents(r)' = Plan(r)'
    <3>1. request[r].step = Len(Plan(r)) /\ Perform(r, intent)
      BY <1>14, <1>15, <2>2
    <3> QED BY <1>2, <1>3, <1>7, <1>10, <3>1
  <2>3. pc'[r] = "recording" => Touched(request'[r].outcome)
    BY <1>9 DEF Touched
  <2> QED BY <1>9, <1>12, <2>1, <2>2, <2>3 DEF Over
<1>19. \A q \in Requests \ {r} : Executor(q)'
  BY <1>5, <1>9, <1>11, ConstantFacts, ExecutorRests DEF ExecInv
<1> QED BY <1>5, <1>16, <1>17, <1>18, <1>19 DEF Executor

LEMMA SnapshotKeepsExecutor ==
  ASSUME ExecInv, NEW r \in Requests, Snapshot(r)
  PROVE  Executor(r)'
<1>0. /\ r \in DOMAIN pc /\ r \in DOMAIN request /\ DOMAIN request[r] = {"kind", "wan", "step", "outcome"}
      /\ request[r].kind \in {"reconnect", "reboot"} /\ Executor(r) /\ pc[r] = "snapshot"
      /\ UNCHANGED verbs
  BY ConstantFacts DEF ExecInv, CauseInv, ControlInv, Shape, TypeOK, RequestShape, Snapshot
<1>1. verbs[r] = <<>> /\ request[r].step = 1 /\ Intents(r)' = <<>> /\ verbs'[r] = <<>>
  BY <1>0, NothingSent DEF Executor, Waiting, Intents
<1> DEFINE wan == Vouched(AdtWan)
<1>2. \/ pc' = [pc EXCEPT ![r] = "thrown"] /\ UNCHANGED request
      \/ Ends(r, "refused")
      \/ /\ wan # Null /\ (request[r].kind = "reconnect" => ReconnectPlan(wan.connType) # <<>>)
         /\ request' = [request EXCEPT ![r].wan = wan]
         /\ pc' = [pc EXCEPT ![r] = "acting"]
  BY DEF Snapshot
<1> HIDE DEF wan
<1>3. <<>> \in Orders /\ <<>> # <<"ppp_disconnect">>
  BY DEF Orders
<1>4. CASE pc' = [pc EXCEPT ![r] = "thrown"] /\ UNCHANGED request
  <2>1. pc'[r] = "thrown"
    BY <1>0, <1>4
  <2> QED BY <1>1, <1>3, <2>1 DEF Executor, Waiting, Acting, Over
<1>5. CASE Ends(r, "refused")
  <2>1. pc'[r] = "recording" /\ request'[r].outcome = "refused"
    BY <1>0, <1>5 DEF Ends
  <2> QED BY <1>1, <1>3, <2>1 DEF Executor, Waiting, Acting, Over, Touched
<1>6. CASE /\ wan # Null /\ (request[r].kind = "reconnect" => ReconnectPlan(wan.connType) # <<>>)
           /\ request' = [request EXCEPT ![r].wan = wan]
           /\ pc' = [pc EXCEPT ![r] = "acting"]
  <2>1. /\ pc'[r] = "acting" /\ request'[r].wan = wan /\ request'[r].step = 1
        /\ request'[r].kind = request[r].kind
    BY <1>0, <1>1, <1>6
  <2>2. wan.selectedBy = "status"
    BY <1>6, VouchedFacts DEF wan
  <2>3. Plan(r)' \in Plans
    BY <1>0, <1>6, <2>1 DEF Plan, ReconnectPlan, Plans, Pair
  <2> QED BY <1>1, <2>1, <2>2, <2>3 DEF Executor, Waiting, Acting, Over
<1> QED BY <1>2, <1>4, <1>5, <1>6

LEMMA PostKeepsExecutor ==
  ASSUME ExecInv, NEW r \in Requests, Post(r)
  PROVE  Executor(r)'
<1>0. /\ r \in DOMAIN pc /\ r \in DOMAIN request /\ Executor(r) /\ pc[r] = "idle" /\ UNCHANGED verbs
  BY ConstantFacts DEF ExecInv, CauseInv, ControlInv, Shape, TypeOK, Post
<1>1. verbs[r] = <<>> /\ request[r].step = 1 /\ Intents(r)' = <<>> /\ verbs'[r] = <<>>
  BY <1>0, NothingSent DEF Executor, Waiting, Intents
<1>2. <<>> \in Orders /\ <<>> # <<"ppp_disconnect">>
  BY DEF Orders
<1>3. PICK kind \in Kinds :
        LET asked == [NoRequest EXCEPT !.kind = kind]
        IN \/ pc' = [pc EXCEPT ![r] = "done"] /\ UNCHANGED request
           \/ /\ request' = [request EXCEPT ![r] = [asked EXCEPT !.outcome = "not_executed"]]
              /\ pc' = [pc EXCEPT ![r] = "recording"]
           \/ /\ request' = [request EXCEPT ![r] = asked]
              /\ pc' = [pc EXCEPT ![r] = "login"]
  BY DEF Post
<1>4. \/ pc'[r] = "done"
      \/ pc'[r] = "recording" /\ request'[r].outcome = "not_executed"
      \/ pc'[r] = "login" /\ request'[r].step = 1
  <2> DEFINE asked == [NoRequest EXCEPT !.kind = kind]
  <2>1. asked.step = 1 /\ "outcome" \in DOMAIN asked
    BY DEF NoRequest
  <2>2. \/ pc'[r] = "done"
        \/ pc'[r] = "recording" /\ request'[r] = [asked EXCEPT !.outcome = "not_executed"]
        \/ pc'[r] = "login" /\ request'[r] = asked
    BY <1>0, <1>3
  <2> HIDE DEF asked
  <2> QED BY <2>1, <2>2
<1> QED BY <1>1, <1>2, <1>4 DEF Executor, Waiting, Acting, Over, Touched

LEMMA StepKeepsExec ==
  ExecInv /\ [Next]_vars =>
    /\ verbs' \in [Requests -> Seq(Sent)] /\ \A r \in Requests : Executor(r)'
    /\ Told' /\ RowsTellWhatWasSent'
<1> SUFFICES ASSUME ExecInv, [Next]_vars
             PROVE  /\ verbs' \in [Requests -> Seq(Sent)] /\ \A r \in Requests : Executor(r)'
                    /\ Told' /\ RowsTellWhatWasSent'
  OBVIOUS
<1> USE ConstantFacts
<1> DEFINE Goal == /\ verbs' \in [Requests -> Seq(Sent)] /\ \A r \in Requests : Executor(r)'
                   /\ Told' /\ RowsTellWhatWasSent'
<1>0. /\ pc \in [Procs -> {"idle", "login", "logging", "reading", "storing", "snapshot", "acting",
                               "recording", "done", "thrown"}]
      /\ DOMAIN request = Requests /\ Shape /\ CauseInv /\ verbs \in [Requests -> Seq(Sent)]
      /\ (\A r \in Requests : Executor(r)) /\ Told /\ RowsTellWhatWasSent
      /\ DOMAIN db = {"line", "wan", "rows"}
  BY DEF ExecInv, CauseInv, ControlInv, Shape, TypeOK
\* A step that moves no request, or along the way to its snapshot.
<1>1. ASSUME UNCHANGED <<request, verbs>>, db'.rows = db.rows,
             \A r \in Requests : /\ r \in disturbed => r \in disturbed'
                                 /\ \/ pc'[r] = pc[r]
                                    \/ pc[r] = "login" /\ pc'[r] = "logging"
                                    \/ pc[r] = "logging" /\ pc'[r] = "snapshot"
                                    \/ pc[r] \in {"login", "logging", "snapshot"} /\ pc'[r] = "thrown"
                                    \/ pc'[r] = "thrown" /\ r \in disturbed' /\ pc[r] \in {"acting", "recording"}
      PROVE  Goal
  <2>1. \A r \in Requests : Executor(r)'
    BY <1>0, <1>1, ExecutorRests
  <2>2. Told' /\ RowsTellWhatWasSent'
    BY <1>0, <1>1, RowsRest
  <2> QED BY <1>0, <1>1, <2>1, <2>2
<1>8. ASSUME UNCHANGED vars
      PROVE  Goal
  BY <1>1, <1>8 DEF vars
<1>3. ASSUME NEW p \in Procs, BeginLogin(p) \/ LoginOk(p) \/ LoginFails(p)
      PROVE  Goal
  <2>1. CASE BeginLogin(p)
    BY <1>0, <1>1, <2>1 DEF BeginLogin
  <2>2. CASE LoginOk(p)
    <3>1. \A r \in Requests : pc'[r] = pc[r] \/ (pc[r] = "logging" /\ pc'[r] = "snapshot")
      BY <1>0, <2>2 DEF LoginOk
    <3> QED BY <1>1, <2>2, <3>1 DEF LoginOk
  <2>3. CASE LoginFails(p)
    <3>1. \A r \in Requests : pc'[r] = pc[r] \/ (pc[r] = "logging" /\ pc'[r] = "thrown")
      BY <1>0, <2>3 DEF LoginFails, Rejected
    <3>2. disturbed \subseteq disturbed'
      BY <2>3 DEF LoginFails, Disturb
    <3> QED BY <1>1, <2>3, <3>1, <3>2 DEF LoginFails
  <2> QED BY <1>3, <2>1, <2>2, <2>3
<1>4. ASSUME NEW p \in Pollers, StartPoll(p) \/ PollRead(p) \/ Store(p) \/ StoreFails(p)
      PROVE  Goal
  <2>1. \A r \in Requests : pc'[r] = pc[r]
    <3> SUFFICES ASSUME NEW r \in Requests PROVE pc'[r] = pc[r]
      OBVIOUS
    <3>1. r # p /\ r \in DOMAIN pc
      BY <1>0
    <3>2. CASE PollRead(p)
      <4>1. PICK got, stop : TakeIn(p, got, stop)
        BY <3>2 DEF PollRead
      <4> QED BY <3>1, <4>1 DEF TakeIn
    <3>3. CASE StartPoll(p) \/ Store(p) \/ StoreFails(p)
      BY <3>1, <3>3 DEF StartPoll, Store, StoreFails
    <3> QED BY <1>4, <3>2, <3>3
  <2>2. \A r \in Requests : r \in disturbed => r \in disturbed'
    BY <1>4 DEF StartPoll, PollRead, Answered, Disturb, Store, StoreFails
  <2>3. UNCHANGED <<request, verbs>>
    BY <1>4 DEF StartPoll, PollRead, Store, StoreFails
  <2>4. db'.rows = db.rows
    <3>1. CASE Store(p)
      <4>1. PICK out : db' = [db EXCEPT !.line = IF out.line THEN out.row ELSE @,
                                       !.wan = IF out.wan # Null THEN out.wan.name ELSE @]
        BY <3>1 DEF Store
      <4> QED BY <1>0, <4>1
    <3> QED BY <1>4, <3>1 DEF StartPoll, PollRead, StoreFails
  <2> QED BY <1>1, <2>1, <2>2, <2>3, <2>4
<1>5. ASSUME NEW r \in Requests, Post(r) \/ Snapshot(r) \/ SendAction(r)
      PROVE  Goal
  <2>1. /\ \A q \in Procs \ {r} : pc'[q] = pc[q]
        /\ db' = db /\ pc[r] # "done"
    BY <1>0, <1>5, OnlyOneMoves DEF Post, Snapshot, SendAction
  <2>2. verbs' \in [Requests -> Seq(Sent)] /\ \A q \in Requests : Executor(q)'
    <3>1. CASE SendAction(r)
      BY <3>1, SendKeepsExecutor
    <3>2. CASE Post(r) \/ Snapshot(r)
      <4>1. Executor(r)' /\ UNCHANGED verbs
        BY <3>2, PostKeepsExecutor, SnapshotKeepsExecutor DEF Post, Snapshot
      <4>2. \A q \in Requests \ {r} : request'[q] = request[q]
        BY <1>0, <3>2 DEF Post, Snapshot, Ends
      <4>3. \A q \in Requests \ {r} : q \in disturbed => q \in disturbed'
        BY <3>2 DEF Post, Snapshot, Answered, Disturb
      <4>4. \A q \in Requests \ {r} : Executor(q)'
        BY <1>0, <2>1, <4>1, <4>2, <4>3, ExecutorRests
      <4> QED BY <1>0, <4>1, <4>4
    <3> QED BY <1>5, <3>1, <3>2
  <2>3. \A q \in Requests \ {r} : verbs'[q] = verbs[q] /\ request'[q] = request[q]
    <3>1. CASE Post(r) \/ Snapshot(r)
      BY <1>0, <3>1 DEF Post, Snapshot, Ends
    <3>2. CASE SendAction(r)
      <4> DEFINE intent == Plan(r)[request[r].step]
      <4>1. /\ pc[r] = "acting"
            /\ Acknowledged(r, intent) \/ Refused(r, intent) \/ Silent(r, intent)
        BY <3>2 DEF SendAction
      <4> HIDE DEF intent
      <4>2. \/ \E ok \in BOOLEAN : AfterStep(r, ok)
            \/ \E a \in {"lost", "unreachable"} : NoReply(r, a)
        BY <4>1 DEF Acknowledged, Refused, Silent
      <4>3. Perform(r, intent) \/ UNCHANGED verbs
        BY <4>1 DEF Acknowledged, Refused, Silent
      <4>4. \A q \in Requests \ {r} : verbs'[q] = verbs[q]
        BY <1>0, <4>3 DEF Perform
      <4> QED BY <1>0, <4>1, <4>2, <4>4, AfterFacts
    <3> QED BY <1>5, <3>1, <3>2
  <2>4. Told' /\ RowsTellWhatWasSent'
    BY <1>0, <2>1, <2>3, RowsRest
  <2> QED BY <2>2, <2>4
<1>6. ASSUME NEW r \in Requests, RecordAndAnswer(r)
      PROVE  Goal
  <2> DEFINE new == [by |-> r, outcome |-> request[r].outcome,
                     kind |-> IF Touched(request[r].outcome) THEN "intervention" ELSE "note"]
  <2>1. /\ pc[r] = "recording" /\ pc' = [pc EXCEPT ![r] = "done"]
        /\ UNCHANGED <<request, verbs, disturbed>>
        /\ db'.rows = db.rows \cup {new}
    BY <1>0, <1>6 DEF RecordAndAnswer
  <2>2. \A q \in Requests : Executor(q)'
    BY <1>0, <2>1, ExecutorRests
  <2>3. new.by = r /\ new.outcome = request[r].outcome
        /\ (new.kind = "note" => ~Touched(request[r].outcome))
    OBVIOUS
  <2>4. /\ request[r].outcome = "executed" => Intents(r) = Plan(r)
        /\ ~Touched(request[r].outcome) => Intents(r) = <<>>
    BY <1>0, <2>1 DEF Executor, Over
  <2>5. \A q \in Requests : Intents(q)' = Intents(q) /\ Plan(q)' = Plan(q)
    BY <2>1 DEF Intents, Plan
  <2> HIDE DEF new
  <2>6. Told'
    BY <1>0, <2>1, <2>3 DEF Told
  <2>7. RowsTellWhatWasSent'
    <3> SUFFICES ASSUME NEW row \in db'.rows
                 PROVE  /\ row.kind = "note" => Intents(row.by)' = <<>>
                        /\ row.outcome = "executed" => Intents(row.by)' = Plan(row.by)'
      BY DEF RowsTellWhatWasSent
    <3>1. CASE row \in db.rows
      BY <1>0, <2>5, <3>1 DEF Told, RowsTellWhatWasSent
    <3>2. CASE row = new
      BY <2>3, <2>4, <2>5, <3>2
    <3> QED BY <2>1, <3>1, <3>2
  <2> QED BY <1>0, <2>1, <2>2, <2>6, <2>7
<1>7. ASSUME World
      PROVE  Goal
  <2>1. CASE Restart
    <3>1. \A r \in Requests : \/ pc'[r] = pc[r]
                              \/ pc'[r] = "thrown" /\ Active(r) /\ r \in disturbed'
      BY <1>0, <2>1 DEF Restart, Disturb
    <3>2. \A r \in Requests : Active(r) => pc[r] \in {"login", "logging", "snapshot", "acting", "recording"}
      BY <1>0 DEF Active, Shape, Places
    <3>3. UNCHANGED <<request, verbs, db>> /\ disturbed \subseteq disturbed'
      BY <2>1 DEF Restart, Disturb
    <3> QED BY <1>1, <3>1, <3>2, <3>3
  <2>2. CASE Elapse \/ LineResync \/ DeviceBoots \/ PersonLogsIn \/ WanDrops
    <3>1. UNCHANGED <<pc, request, verbs, db>> /\ disturbed \subseteq disturbed'
      BY <2>2 DEF Elapse, LineResync, DeviceBoots, PersonLogsIn, WanDrops, Disturb
    <3> QED BY <1>1, <3>1
  <2> QED BY <1>7, <2>1, <2>2 DEF World
<1> HIDE DEF Goal
<1>9. Goal
  BY <1>8, <1>3, <1>4, <1>5, <1>6, <1>7
  DEF Next, Cron, Demand, PollStep, RequestStep, Pollers
<1> QED BY <1>9 DEF Goal

LEMMA ExecHolds == Spec => []ExecInv
<1>1. Init => ExecInv
  <2> SUFFICES ASSUME Init PROVE ExecInv
    OBVIOUS
  <2>1. \A r \in Requests : /\ pc[r] = "idle" /\ verbs[r] = <<>> /\ request[r].step = 1
    BY ConstantFacts DEF Init, NoRequest
  <2>2. \A r \in Requests : Executor(r)
    BY <2>1 DEF Executor, Waiting, Acting, Over
  <2>3. verbs \in [Requests -> Seq(Sent)]
    <3>1. <<>> \in Seq(Sent)
      OBVIOUS
    <3> QED BY <3>1 DEF Init
  <2>4. Told /\ RowsTellWhatWasSent
    BY DEF Init, Told, RowsTellWhatWasSent
  <2>5. CauseInv
    BY StartsCaused
  <2> QED BY <2>2, <2>3, <2>4, <2>5 DEF ExecInv
<1>2. ExecInv /\ [Next]_vars => ExecInv'
  BY StepKeepsExec, StepKeepsCauseInv DEF ExecInv
<1> QED BY <1>1, <1>2, PTL DEF Spec

\* The verbs that go out are the ones of the plan, in its order, on a connection the router
\* itself calls live; half of a pair stays alone only when something outside went wrong.
THEOREM VerbsKeepTheirOrder == Spec => []VerbsInOrder
<1>1. ExecInv => VerbsInOrder
  <2> SUFFICES ASSUME ExecInv PROVE VerbsInOrder
    OBVIOUS
  <2>1. ActsOnVouched
    <3> SUFFICES ASSUME NEW r \in Requests, NEW i \in DOMAIN verbs[r]
                 PROVE  verbs[r][i].selectedBy = "status"
      BY DEF ActsOnVouched
    <3>1. verbs[r] \in Seq(Sent)
      BY DEF ExecInv
    <3>2. verbs[r][i] \in Sent
      BY <3>1, SeqFacts
    <3> QED BY <3>2 DEF Sent
  <2>2. PairsInOrder
    <3> SUFFICES ASSUME NEW r \in Requests
                 PROVE  /\ Intents(r) \in Orders
                        /\ Intents(r) = <<"ppp_disconnect">> /\ ~Active(r) => r \in disturbed
      BY DEF PairsInOrder, Orders, Plans, Pair
    <3>1. Executor(r) /\ pc[r] \in {"idle", "login", "logging", "snapshot", "acting", "recording",
                                   "done", "thrown"}
      BY DEF ExecInv, CauseInv, ControlInv, Shape, Places
    <3>2. verbs[r] = <<>> => Intents(r) = <<>>
      BY NothingSent
    <3>3. <<>> # <<"ppp_disconnect">> /\ <<>> \in Orders /\ <<"ppp_disconnect">> \in Orders
      BY DEF Orders
    <3> QED BY <3>1, <3>2, <3>3 DEF Executor, Waiting, Acting, Over, Active
  <2> QED BY <2>1, <2>2 DEF VerbsInOrder
<1> QED BY <1>1, ExecHolds, PTL

\* What the record says of a request is what it did: a note sent nothing, an executed one
\* everything, and no verb hides behind a note (router-actions.ts recordAndAnswer).
THEOREM RowsAreTrue == Spec => []RowsTellWhatWasSent
<1>1. ExecInv => RowsTellWhatWasSent
  BY DEF ExecInv
<1> QED BY <1>1, ExecHolds, PTL

-----------------------------------------------------------------------------
(* The timeline of the two vantages. *)

\* What the process remembers of its doubts is what it said of them last.
Remembers ==
  /\ memory.signature = Null => announced = Null
  /\ memory.signature \notin {Null, {}} => announced = memory.signature
  /\ memory.signature = {} => announced \in {Null, {}}
Settles == written # Null /\ written.out.said = "restored" => written.last \notin {Null, {}}

LEMMA StoreKeepsTimeline ==
  ASSUME Shape, Remembers, NEW p \in Pollers, Store(p)
  PROVE  Remembers' /\ Settles'
<1>1. PICK v, out :
        /\ out = Outcome(poll[p], v)
        /\ memory' = [running |-> FALSE, signature |-> out.signature]
        /\ announced' = IF out.said = Null THEN announced ELSE out.doubts
        /\ written' = [out |-> out, answered |-> AnsweredKeys(poll[p]), abandoned |-> poll[p].abandoned,
                       disturbed |-> p \in disturbed, last |-> announced, before |-> db]
  BY DEF Store
<1>2. PICK D, changed :
        /\ changed \in BOOLEAN /\ (changed => D # memory.signature)
        /\ out.said = VantageEvent(changed, D, memory.signature) /\ out.doubts = D
        /\ out.signature = IF changed THEN D ELSE memory.signature
  <2> DEFINE vantage == FreshVantage(v, poll[p].ts)
             comparable == Comparable(poll[p], vantage)
             D0 == IF comparable THEN Disagreements(poll[p], vantage) ELSE {}
             changed0 == comparable /\ D0 # memory.signature
  <2>1. /\ changed0 \in BOOLEAN /\ (changed0 => D0 # memory.signature)
        /\ out.said = VantageEvent(changed0, D0, memory.signature) /\ out.doubts = D0
        /\ out.signature = IF changed0 THEN D0 ELSE memory.signature
    BY <1>1 DEF Outcome
  <2> HIDE DEF D0, changed0
  <2> QED BY <2>1
<1>3. memory'.signature = out.signature /\ written'.out = out /\ written'.last = announced
  BY <1>1
<1>4. "restored" # Null /\ "disagreement" # Null
  BY WordsAreValues
<1>5. CASE ~changed
  <2>1. out.said = Null /\ memory'.signature = memory.signature /\ announced' = announced
    BY <1>1, <1>2, <1>3, <1>5 DEF VantageEvent
  <2> QED BY <1>3, <1>4, <2>1 DEF Remembers, Settles
<1>6. CASE changed /\ D # {}
  <2>1. out.said = "disagreement" /\ memory'.signature = D /\ announced' = D
    BY <1>1, <1>2, <1>3, <1>4, <1>6 DEF VantageEvent
  <2> QED BY <1>3, <1>6, <2>1 DEF Remembers, Settles
<1>7. CASE changed /\ D = {} /\ memory.signature # Null
  <2>1. out.said = "restored" /\ memory'.signature = {} /\ announced' = {}
    BY <1>1, <1>2, <1>3, <1>4, <1>7 DEF VantageEvent
  <2>2. announced = memory.signature /\ memory.signature \notin {Null, {}}
    BY <1>2, <1>7 DEF Remembers
  <2> QED BY <1>3, <2>1, <2>2 DEF Remembers, Settles
<1>8. CASE changed /\ D = {} /\ memory.signature = Null
  <2>1. out.said = Null /\ memory'.signature = {} /\ announced' = announced /\ announced = Null
    BY <1>1, <1>2, <1>3, <1>4, <1>8 DEF VantageEvent, Remembers
  <2> QED BY <1>3, <1>4, <2>1 DEF Remembers, Settles
<1> QED BY <1>5, <1>6, <1>7, <1>8

LEMMA StepKeepsTimeline == Shape /\ Remembers /\ Settles /\ [Next]_vars => Remembers' /\ Settles'
<1> SUFFICES ASSUME Shape, Remembers, Settles, [Next]_vars PROVE Remembers' /\ Settles'
  OBVIOUS
<1>1. DOMAIN memory = {"running", "signature"}
  BY DEF Shape
\* Most steps leave what was remembered and what was said alone.
<1>2. ASSUME memory'.signature = memory.signature, UNCHANGED <<announced, written>>
      PROVE  Remembers' /\ Settles'
  BY <1>2 DEF Remembers, Settles
<1>3. CASE UNCHANGED vars
  BY <1>2, <1>3 DEF vars
<1>4. ASSUME NEW p \in Procs, BeginLogin(p) \/ LoginOk(p) \/ LoginFails(p)
      PROVE  Remembers' /\ Settles'
  BY <1>1, <1>2, <1>4 DEF BeginLogin, LoginOk, LoginFails, Rejected
<1>5. ASSUME NEW p \in Pollers, StartPoll(p) \/ PollRead(p) \/ StoreFails(p)
      PROVE  Remembers' /\ Settles'
  BY <1>1, <1>2, <1>5 DEF StartPoll, PollRead, StoreFails
<1>6. ASSUME NEW r \in Requests, Post(r) \/ Snapshot(r) \/ SendAction(r) \/ RecordAndAnswer(r)
      PROVE  Remembers' /\ Settles'
  BY <1>2, <1>6 DEF Post, Snapshot, SendAction, RecordAndAnswer
<1>7. CASE World
  <2>1. CASE Restart
    BY <2>1 DEF Restart, Boot, Remembers, Settles
  <2>2. CASE Elapse \/ LineResync \/ DeviceBoots \/ PersonLogsIn \/ WanDrops
    BY <1>2, <2>2 DEF Elapse, LineResync, DeviceBoots, PersonLogsIn, WanDrops
  <2> QED BY <1>7, <2>1, <2>2 DEF World
<1> QED
  BY <1>3, <1>4, <1>5, <1>6, <1>7, StoreKeepsTimeline, ConstantFacts
  DEF Next, Cron, Demand, PollStep, RequestStep, Pollers

\* While a process lives the timeline and its memory agree: a doubt is announced once, and
\* settled only when one had been announced (poll.ts signatureChanged).
THEOREM DoubtsAreSettled == Spec => []TimelineAgrees
<1> DEFINE Inv == Shape /\ Remembers /\ Settles
<1>1. Init => Inv
  BY StartsShaped DEF Init, Boot, Remembers, Settles
<1>2. Inv /\ [Next]_vars => Inv'
  BY StepKeepsShape, StepKeepsTimeline
<1>3. Inv => TimelineAgrees
  BY DEF Remembers, Settles, TimelineAgrees
<1> QED BY <1>1, <1>2, <1>3, PTL DEF Spec

-----------------------------------------------------------------------------
(* What a poll tells. *)

WanPage(wan, type) ==
  <<Instance("spare", "1", "Disconnected", "Disconnected", "PPPoE"),
    IF wan = "up" THEN Instance("main", "3", "Connecting", "Connected", type)
    ELSE Instance("main", "3", "Disconnected", "Disconnected", type)>>
InterfacePage ==
  <<[name |-> "br0", stack |-> 1, connType |-> "LAN"], [name |-> "main", stack |-> 4, connType |-> "PPPoE"],
    [name |-> "spare", stack |-> 5, connType |-> "PPPoE"]>>

\* What a poll holds is what the router showed it.
Heard(q) ==
  /\ \A key \in ToSet(READS) : q.got[key] # Null => key \in ToSet(Keys)
  /\ q.got["adtWan"] # Null =>
       \E wan \in {"up", "down"}, type \in ConnTypes : q.got["adtWan"] = WanPage(wan, type)
  /\ q.got["ipIntf"] # Null => q.got["ipIntf"] = InterfacePage
HeardInv ==
  /\ Shape /\ TellsWhatAnswered /\ db.wan \in {Null, "main"}
  /\ \A p \in Pollers : Heard(poll[p])

\* The parser finds the one connection that is up; without it the one it knew by name.
LEMMA LiveWanFacts ==
  ASSUME NEW wan \in {"up", "down"}, NEW type \in ConnTypes, NEW previous \in {Null, "main"}
  PROVE  LET live == ParseLiveWan(WanPage(wan, type), previous)
         IN /\ live = Null \/ (live # Null /\ live.name = "main" /\ live.ifName = "main")
            /\ previous = "main" => live # Null
<1> DEFINE spare == Instance("spare", "1", "Disconnected", "Disconnected", "PPPoE")
           main == IF wan = "up" THEN Instance("main", "3", "Connecting", "Connected", type)
                   ELSE Instance("main", "3", "Disconnected", "Disconnected", type)
           rows == WanPage(wan, type)
<1>1. /\ DOMAIN rows = {1, 2} /\ rows[1] = spare /\ rows[2] = main
  BY DEF WanPage
<1>2. /\ spare.connStatusV4 = "Disconnected" /\ spare.connStatusV6 = "Disconnected" /\ spare.name = "spare"
      /\ main.connStatusV4 \in {"Connecting", "Disconnected"} /\ main.name = "main" /\ main.ifName = "main"
      /\ wan = "up" => main.connStatusV4 = "Connecting"
      /\ wan # "up" => main.connStatusV4 = "Disconnected" /\ main.connStatusV6 = "Disconnected"
  BY DEF Instance
<1>3. main # Null
  BY NullAssumption DEF Instance, WanRows, Words
<1>4. \A by \in {"status", "continuity"} :
        /\ Described(main, by) # Null /\ Described(main, by).name = "main" /\ Described(main, by).ifName = "main"
  <2> SUFFICES ASSUME NEW by \in {"status", "continuity"}
               PROVE  /\ Described(main, by) # Null /\ Described(main, by).name = "main"
                      /\ Described(main, by).ifName = "main"
    OBVIOUS
  <2>1. /\ main.name \in Words /\ main.ifName \in Words /\ main.connType \in Words /\ main.stack \in Words
        /\ main.connStatusV4 \in Words /\ main.connStatusV6 \in Words
        /\ main.uptimeV4 = Null /\ main.uptimeV6 = Null /\ by \in Words
    BY DEF Instance, Words
  <2> HIDE DEF main
  <2>2. Str(Null) = Null
    BY DEF Str
  <2>3. Described(main, by) \in LiveWans
    BY <2>1, <2>2, WordsAreValues DEF Described, LiveWans
  <2> QED BY <1>2, <2>1, <2>3, WordsAreValues, NullAssumption DEF Described
<1>5. {"Disconnected", "Connecting", "Connected", "main", "spare"} \subseteq Words
  BY DEF Words
<1> HIDE DEF spare, main, rows
<1>6. {i \in DOMAIN rows : Str(rows[i].connStatusV4) = "Connected"} = {}
  BY <1>1, <1>2, <1>5, WordsAreValues
<1>7. CASE wan = "up"
  <2>1. {i \in DOMAIN rows : Candidate(rows[i])} = {2}
    BY <1>1, <1>2, <1>5, <1>7, WordsAreValues DEF Candidate
  <2>2. Find(rows, Candidate) = main
    BY <1>1, <2>1 DEF Find
  <2>3. ByStatus(rows) = main
    BY <1>6, <2>2 DEF ByStatus, Find
  <2> QED BY <1>3, <1>4, <2>3 DEF ParseLiveWan, rows
<1>8. CASE wan # "up"
  <2>1. {i \in DOMAIN rows : Candidate(rows[i])} = {}
    BY <1>1, <1>2, <1>5, <1>8, WordsAreValues DEF Candidate
  <2>2. ByStatus(rows) = Null
    BY <1>6, <2>1 DEF ByStatus, Find
  <2>3. CASE previous = Null
    BY <2>2, <2>3, WordsAreValues, <1>5 DEF ParseLiveWan, ByContinuity, rows
  <2>4. CASE previous = "main"
    <3>1. {i \in DOMAIN rows : Str(rows[i].name) = "main"} = {2}
      BY <1>1, <1>2, <1>5, WordsAreValues
    <3>2. ByContinuity(rows, "main") = main
      BY <1>1, <1>5, <3>1, WordsAreValues DEF ByContinuity, Find
    <3> QED BY <1>3, <1>4, <2>2, <2>4, <3>2 DEF ParseLiveWan, rows
  <2> QED BY <2>3, <2>4
<1> QED BY <1>7, <1>8

\* A page that did not answer has no connection, and one that did not answer no interface.
LEMMA NoPageNoRows ==
  ASSUME NEW previous, NEW stats, NEW name
  PROVE  ParseLiveWan(<<>>, previous) = Null /\ ParseIntfSamples(<<>>, stats, name) = {}
<1>1. DOMAIN <<>> = {}
  OBVIOUS
<1>2. ByStatus(<<>>) = Null
  BY <1>1 DEF ByStatus, Find
<1>3. ByContinuity(<<>>, previous) = Null
  BY <1>1 DEF ByContinuity, Find
<1> QED BY <1>1, <1>2, <1>3 DEF ParseLiveWan, ParseIntfSamples

LEMMA PagesKnown ==
  {"fastLine", "lineStats", "adtWan", "ipIntf", "ipIntfStats", "ethIntf", "hosts", "hostEntry"} = ToSet(READS)
<1>1. /\ DOMAIN READS = 1..8 /\ READS[1] = "fastLine" /\ READS[2] = "lineStats" /\ READS[3] = "adtWan"
      /\ READS[4] = "ipIntf" /\ READS[5] = "ipIntfStats" /\ READS[6] = "ethIntf" /\ READS[7] = "hosts"
      /\ READS[8] = "hostEntry"
  BY DEF READS
<1>2. ToSet(READS) = {READS[k] : k \in 1..8}
  BY <1>1 DEF ToSet
<1>3. 1..8 = {1, 2, 3, 4, 5, 6, 7, 8}
  OBVIOUS
<1> HIDE DEF READS
<1> QED BY <1>1, <1>2, <1>3

\* The interface of the connection is among the samples, under its role.
LEMMA WanIsSampled ==
  ASSUME NEW stats
  PROVE  \E sample \in ParseIntfSamples(InterfacePage, stats, "main") : sample.role = "wan"
<1>1. /\ DOMAIN InterfacePage = {1, 2, 3} /\ InterfacePage[2].name = "main"
  BY DEF InterfacePage
<1>2. "main" \in Words
  BY DEF Words
<1>3. Str(InterfacePage[2].name) = "main" /\ "main" # Null
  BY <1>1, <1>2, WordsAreValues
<1>4. Role(InterfacePage[2], "main") = "wan"
  BY <1>3 DEF Role
<1> HIDE DEF InterfacePage
<1> DEFINE Sample(row) ==
             LET s == StatsOf(stats, Str(row.stack))
             IN [name |-> Str(row.name), role |-> Role(row, "main"),
                 bytes |-> IF s = Null THEN Null ELSE Str(s.bytes)]
<1>5. ParseIntfSamples(InterfacePage, stats, "main")
        = {Sample(InterfacePage[i]) : i \in {i \in DOMAIN InterfacePage : Str(InterfacePage[i].name) # Null}}
  BY DEF ParseIntfSamples
<1>6. Sample(InterfacePage[2]).role = "wan"
  BY <1>4
<1> HIDE DEF Sample
<1> QED BY <1>1, <1>3, <1>5, <1>6

\* What a poll that heard what it was shown has to tell.
LEMMA TellFacts ==
  ASSUME NEW q, NEW v, Heard(q), db.wan \in {Null, "main"}, NEW out, out = Outcome(q, v)
  PROVE  LET A == AnsweredKeys(q)
         IN /\ out.line => A \cap {"fastLine", "lineStats"} # {}
            /\ out.wan # Null => "adtWan" \in A /\ out.wan.name = "main"
            /\ out.roles # {} => "ipIntf" \in A
            /\ out.said # Null => "hostEntry" \in A
            /\ {"adtWan", "ipIntf"} \subseteq A /\ db.wan # Null => out.wan # Null /\ "wan" \in out.roles
<1> DEFINE A == AnsweredKeys(q)
<1>1. \A key \in ToSet(READS) : q.got[key] # Null => key \in A
  BY DEF Heard, AnsweredKeys
<1>2. {"fastLine", "lineStats", "adtWan", "ipIntf", "hostEntry"} \subseteq ToSet(READS)
  BY PagesKnown
<1>3. \A key \in A : q.got[key] # Null
  BY DEF AnsweredKeys
<1>4. /\ out.wan = Wan(q) /\ out.roles = {s.role : s \in Persisted(q)} /\ out.line = HasLineReading(q)
  BY DEF Outcome
<1>5. out.said # Null => q.got["hostEntry"] # Null
  <2> DEFINE vantage == FreshVantage(v, q.ts)
             D0 == IF Comparable(q, vantage) THEN Disagreements(q, vantage) ELSE {}
             changed0 == Comparable(q, vantage) /\ D0 # memory.signature
  <2>1. out.said = VantageEvent(changed0, D0, memory.signature)
    BY DEF Outcome
  <2>2. out.said # Null => Comparable(q, vantage)
    BY <2>1 DEF VantageEvent
  <2> QED BY <2>2 DEF Comparable
<1>6. out.line => q.got["fastLine"] # Null \/ q.got["lineStats"] # Null
  BY <1>4 DEF HasLineReading, Rows
<1>7. q.got["adtWan"] = Null => out.wan = Null
  BY <1>4, NoPageNoRows DEF Wan, Rows
<1>8. q.got["ipIntf"] = Null => out.roles = {}
  <2> SUFFICES ASSUME q.got["ipIntf"] = Null PROVE Persisted(q) = {}
    BY <1>4
  <2> QED BY NoPageNoRows DEF Persisted, Interfaces, Rows
<1>9. q.got["adtWan"] # Null =>
        /\ out.wan = Null \/ (out.wan # Null /\ out.wan.name = "main" /\ out.wan.ifName = "main")
        /\ db.wan = "main" => out.wan # Null
  <2> SUFFICES ASSUME q.got["adtWan"] # Null
               PROVE  /\ out.wan = Null \/ (out.wan # Null /\ out.wan.name = "main" /\ out.wan.ifName = "main")
                      /\ db.wan = "main" => out.wan # Null
    OBVIOUS
  <2>1. PICK wan \in {"up", "down"}, type \in ConnTypes : q.got["adtWan"] = WanPage(wan, type)
    BY DEF Heard
  <2>2. out.wan = ParseLiveWan(WanPage(wan, type), db.wan)
    BY <1>4, <2>1 DEF Wan, Rows
  <2> QED BY <2>2, LiveWanFacts
<1>10. ASSUME {"adtWan", "ipIntf"} \subseteq A, db.wan # Null
       PROVE  out.wan # Null /\ "wan" \in out.roles
  <2>1. q.got["adtWan"] # Null /\ q.got["ipIntf"] = InterfacePage /\ q.got["ipIntf"] # Null
    BY <1>3, <1>10 DEF Heard
  <2>2. out.wan # Null /\ out.wan.ifName = "main"
    BY <1>9, <1>10, <2>1
  <2>3. Interfaces(q) = ParseIntfSamples(InterfacePage, Rows(q, "ipIntfStats"), "main")
    BY <1>4, <2>1, <2>2 DEF Interfaces, Rows
  <2>4. PICK sample \in Interfaces(q) : sample.role = "wan"
    BY <2>3, WanIsSampled
  <2>5. sample \in Persisted(q)
    BY <2>4 DEF Persisted
  <2> QED BY <1>4, <2>2, <2>4, <2>5
<1> HIDE DEF A
<1> QED BY <1>1, <1>2, <1>5, <1>6, <1>7, <1>8, <1>9, <1>10 DEF A

LEMMA ReadKeepsHeard ==
  ASSUME Shape, NEW p \in Pollers, PollRead(p), Heard(poll[p])
  PROVE  Heard(poll[p])'
<1> DEFINE q == poll[p]
           key == Keys[poll[p].next]
<1>1. PICK got, stop : TakeIn(p, got, stop) /\ (got = Null \/ got \in Pages(key))
  BY DEF PollRead
<1>2. /\ DOMAIN q = {"ts", "next", "got", "abandoned"} /\ DOMAIN q.got = ToSet(READS)
      /\ q.next \in DOMAIN Keys /\ p \in DOMAIN poll
  BY DEF PollRead, Shape, PollShape, ShapedPoll, TypeOK
<1>3. key \in ToSet(Keys) /\ key \in ToSet(READS)
  BY <1>2, ConstantFacts DEF ToSet
<1>4. poll'[p] = Taken(q, got, stop)
  BY <1>1, <1>2 DEF TakeIn
<1>5. poll'[p].got = [q.got EXCEPT ![key] = got]
  BY <1>2, <1>4 DEF Taken
<1>6. key = "adtWan" /\ got # Null => got = WanPage(device.wan, device.connType)
  BY <1>1 DEF Pages, AdtWan, WanPage
<1>7. key = "ipIntf" /\ got # Null => got = InterfacePage
  BY <1>1 DEF Pages, InterfacePage
<1>8. device.wan \in {"up", "down"} /\ device.connType \in ConnTypes
  BY DEF Shape, TypeOK
<1> HIDE DEF q, key
<1>9. \A k \in ToSet(READS) : poll'[p].got[k] = IF k = key THEN got ELSE q.got[k]
  BY <1>2, <1>3, <1>5
<1>10. "adtWan" \in ToSet(READS) /\ "ipIntf" \in ToSet(READS)
  BY PagesKnown
<1>11. /\ \A k \in ToSet(READS) : q.got[k] # Null => k \in ToSet(Keys)
       /\ q.got["adtWan"] # Null =>
            \E wan \in {"up", "down"}, type \in ConnTypes : q.got["adtWan"] = WanPage(wan, type)
       /\ q.got["ipIntf"] # Null => q.got["ipIntf"] = InterfacePage
  BY DEF Heard, q
<1> HIDE DEF WanPage, InterfacePage
<1> QED BY <1>3, <1>6, <1>7, <1>8, <1>9, <1>10, <1>11 DEF Heard

LEMMA NothingHeard ==
  ASSUME NEW t
  PROVE  Heard(PollFrom(t))
<1>1. \A key \in ToSet(READS) : PollFrom(t).got[key] = Null
  BY DEF PollFrom, NotAsked
<1>2. "adtWan" \in ToSet(READS) /\ "ipIntf" \in ToSet(READS)
  BY PagesKnown
<1> QED BY <1>1, <1>2 DEF Heard

LEMMA StepKeepsHeard ==
  HeardInv /\ [Next]_vars =>
    TellsWhatAnswered' /\ db'.wan \in {Null, "main"} /\ \A p \in Pollers : Heard(poll[p])'
<1> SUFFICES ASSUME HeardInv, [Next]_vars
             PROVE  TellsWhatAnswered' /\ db'.wan \in {Null, "main"} /\ \A p \in Pollers : Heard(poll[p])'
  OBVIOUS
<1> USE ConstantFacts
<1> DEFINE Goal == TellsWhatAnswered' /\ db'.wan \in {Null, "main"} /\ \A p \in Pollers : Heard(poll[p])'
<1>0. /\ Shape /\ TellsWhatAnswered /\ db.wan \in {Null, "main"} /\ \A p \in Pollers : Heard(poll[p])
      /\ DOMAIN poll = Pollers /\ DOMAIN db = {"line", "wan", "rows"}
  BY DEF HeardInv, Shape, TypeOK
<1>1. Heard(NoPoll)
  BY NothingHeard DEF NoPoll
\* A step that stores nothing, and gives no poll anything it was not shown.
<1>2. ASSUME written' = written, db'.wan = db.wan,
             \A p \in Pollers : poll'[p] = poll[p] \/ poll'[p] = NoPoll \/ poll'[p] = PollFrom(clock)
                                  \/ Heard(poll[p])'
      PROVE  Goal
  <2>1. TellsWhatAnswered'
    BY <1>0, <1>2 DEF TellsWhatAnswered, OnlyWhatAnswered, WanKeepsItsRole
  <2>2. \A p \in Pollers : Heard(poll[p])'
    <3> SUFFICES ASSUME NEW p \in Pollers PROVE Heard(poll[p])'
      OBVIOUS
    <3>1. Heard(poll[p]) /\ Heard(NoPoll) /\ Heard(PollFrom(clock))
      BY <1>0, <1>1, NothingHeard
    <3> QED BY <1>2, <3>1 DEF Heard
  <2> QED BY <1>0, <1>2, <2>1, <2>2
<1>3. ASSUME UNCHANGED vars
      PROVE  Goal
  BY <1>2, <1>3 DEF vars
<1>4. ASSUME NEW p \in Procs, BeginLogin(p) \/ LoginOk(p) \/ LoginFails(p)
      PROVE  Goal
  <2>1. \A q \in Pollers : poll'[q] = poll[q] \/ poll'[q] = PollFrom(clock)
    BY <1>0, <1>4 DEF BeginLogin, LoginOk, LoginFails
  <2> QED BY <1>2, <1>4, <2>1 DEF BeginLogin, LoginOk, LoginFails
<1>5. ASSUME NEW p \in Pollers, StartPoll(p) \/ StoreFails(p)
      PROVE  Goal
  <2>1. \A q \in Pollers : poll'[q] = poll[q] \/ poll'[q] = NoPoll
    BY <1>0, <1>5 DEF StartPoll, StoreFails
  <2> QED BY <1>2, <1>5, <2>1 DEF StartPoll, StoreFails
<1>6. ASSUME NEW p \in Pollers, PollRead(p)
      PROVE  Goal
  <2>1. Heard(poll[p])'
    BY <1>0, <1>6, ReadKeepsHeard
  <2>2. \A q \in Pollers \ {p} : poll'[q] = poll[q]
    BY <1>0, <1>6 DEF PollRead, TakeIn
  <2> QED BY <1>2, <1>6, <2>1, <2>2 DEF PollRead
<1>7. ASSUME NEW p \in Pollers, Store(p)
      PROVE  Goal
  <2>1. PICK v, out :
          /\ out = Outcome(poll[p], v)
          /\ db' = [db EXCEPT !.line = IF out.line THEN out.row ELSE @,
                              !.wan = IF out.wan # Null THEN out.wan.name ELSE @]
          /\ written' = [out |-> out, answered |-> AnsweredKeys(poll[p]), abandoned |-> poll[p].abandoned,
                         disturbed |-> p \in disturbed, last |-> announced, before |-> db]
    BY <1>7 DEF Store
  <2>2. LET A == AnsweredKeys(poll[p])
        IN /\ out.line => A \cap {"fastLine", "lineStats"} # {}
           /\ out.wan # Null => "adtWan" \in A /\ out.wan.name = "main"
           /\ out.roles # {} => "ipIntf" \in A
           /\ out.said # Null => "hostEntry" \in A
           /\ {"adtWan", "ipIntf"} \subseteq A /\ db.wan # Null => out.wan # Null /\ "wan" \in out.roles
    BY <1>0, <2>1, TellFacts
  <2>3. written'.out = out /\ written'.answered = AnsweredKeys(poll[p]) /\ written'.before = db
    BY <2>1
  <2>4. TellsWhatAnswered'
    BY <2>2, <2>3 DEF TellsWhatAnswered, OnlyWhatAnswered, WanKeepsItsRole
  <2>5. db'.wan \in {Null, "main"}
    BY <1>0, <2>1, <2>2
  <2>6. \A q \in Pollers : Heard(poll[q])'
    <3>1. \A q \in Pollers : poll'[q] = poll[q] \/ poll'[q] = NoPoll
      BY <1>0, <1>7 DEF Store
    <3> QED BY <1>0, <1>1, <3>1 DEF Heard
  <2> QED BY <2>4, <2>5, <2>6
<1>8. ASSUME NEW r \in Requests, Post(r) \/ Snapshot(r) \/ SendAction(r) \/ RecordAndAnswer(r)
      PROVE  Goal
  <2>1. poll' = poll /\ written' = written /\ db'.wan = db.wan
    BY <1>0, <1>8 DEF Post, Snapshot, SendAction, RecordAndAnswer
  <2> QED BY <1>2, <2>1
<1>9. ASSUME World
      PROVE  Goal
  <2>1. CASE Restart
    <3>1. \A q \in Pollers : poll'[q] = NoPoll
      BY <2>1 DEF Restart
    <3> QED BY <1>2, <2>1, <3>1 DEF Restart
  <2>2. CASE Elapse \/ LineResync \/ DeviceBoots \/ PersonLogsIn \/ WanDrops
    BY <1>2, <2>2 DEF Elapse, LineResync, DeviceBoots, PersonLogsIn, WanDrops
  <2> QED BY <1>9, <2>1, <2>2 DEF World
<1> HIDE DEF Goal
<1>10. Goal
  BY <1>3, <1>4, <1>5, <1>6, <1>7, <1>8, <1>9
  DEF Next, Cron, Demand, PollStep, RequestStep, Pollers
<1> QED BY <1>10 DEF Goal

\* A poll tells of each part exactly what the router answered: nothing that was not asked
\* and answered, and nothing withheld because the WAN is down (poll.ts, parse.ts).
THEOREM PollsTellWhatAnswered == Spec => []TellsWhatAnswered
<1>1. Init => HeardInv
  <2> SUFFICES ASSUME Init PROVE HeardInv
    OBVIOUS
  <2>1. \A p \in Pollers : Heard(poll[p])
    BY NothingHeard DEF Init, NoPoll
  <2>2. TellsWhatAnswered /\ db.wan = Null
    BY DEF Init, TellsWhatAnswered, OnlyWhatAnswered, WanKeepsItsRole
  <2> QED BY <2>1, <2>2, StartsShaped DEF HeardInv
<1>2. HeardInv /\ [Next]_vars => HeardInv'
  BY StepKeepsShape, StepKeepsHeard DEF HeardInv
<1>3. HeardInv => TellsWhatAnswered
  BY DEF HeardInv
<1> QED BY <1>1, <1>2, <1>3, PTL DEF Spec

-----------------------------------------------------------------------------
(* The resyncs of the line. *)

\* A reading of the counter: taken at most ReadTime after the timestamp it is filed under.
Reading(at, seconds, ts) ==
  /\ at \in Nat /\ seconds \in Nat /\ ts \in Nat
  /\ ts <= at + seconds /\ at + seconds <= ts + ReadTime

\* One training after another: the same, or so much later that no tolerance hides it.
Later(at, then) == then = at \/ at + Tolerance + ReadTime < then

LinePage(at, seconds) == <<[showtimeStart |-> seconds, errors |-> <<Null>>, at |-> at]>>
Stored(row) == row # Null /\ row.at # Null

HeardLine(q) ==
  q.got["lineStats"] # Null =>
    \E at, seconds \in Nat :
      /\ q.got["lineStats"] = LinePage(at, seconds) /\ Reading(at, seconds, q.ts)
      /\ Later(at, device.lineStart)
      /\ Stored(db.line) => Later(db.line.at, at)
StoredLine ==
  Stored(db.line) =>
    Reading(db.line.at, db.line.showtime, db.line.ts) /\ Later(db.line.at, device.lineStart)

\* The line is the first thing a poll reads, and it reads it in time.
OnTime ==
  \A p \in Pollers : pc[p] = "reading" =>
    poll[p].ts <= clock /\ (poll[p].next <= 2 => clock <= poll[p].ts + ReadTime)
Lines ==
  /\ device.lineStart <= clock /\ OnTime /\ StoredLine
  /\ \A p \in Pollers : pc[p] \in {"reading", "storing"} => HeardLine(poll[p])
ResyncInv == ControlInv /\ Lines /\ ResyncTrue

\* Two readings tell two trainings apart, and take none for two.
LEMMA RestartFacts ==
  ASSUME NEW a, NEW s, NEW t, Reading(a, s, t), NEW b, NEW r, NEW u, Reading(b, r, u), Later(a, b),
         ~(s = 0 /\ r = 0)
  PROVE  DetectRestart([ts |-> t, seconds |-> s], [ts |-> u, seconds |-> r]) <=> b > a
<1> DEFINE before == [ts |-> t, seconds |-> s]
           after == [ts |-> u, seconds |-> r]
<1>1. a \in Nat /\ s \in Nat /\ t \in Nat /\ b \in Nat /\ r \in Nat /\ u \in Nat
  BY DEF Reading
<1>2. before # Null /\ s # Null /\ r # Null
  BY <1>1, NullAssumption
<1>3. DetectRestart(before, after) <=> u - r > t - s + Tolerance
  BY <1>2 DEF DetectRestart
<1>4. t <= a + s /\ a + s <= t + ReadTime /\ u <= b + r /\ b + r <= u + ReadTime
  BY DEF Reading
<1>5. Tolerance \in Nat /\ ReadTime \in Nat /\ ReadTime <= Tolerance
  BY ConstantFacts
<1>6. CASE b = a
  <2>1. ~(u - r > t - s + Tolerance)
    BY <1>1, <1>4, <1>5, <1>6
  <2> QED BY <1>1, <1>3, <1>6, <2>1
<1>7. CASE a + Tolerance + ReadTime < b
  <2>1. u - r > t - s + Tolerance
    BY <1>1, <1>4, <1>5, <1>7
  <2> QED BY <1>1, <1>3, <1>5, <1>7, <2>1
<1> QED BY <1>6, <1>7 DEF Later

\* What is stored of the line is what was read of it.
LEMMA RowFacts ==
  ASSUME NEW q
  PROVE  /\ LineRow(q).ts = q.ts
         /\ q.got["lineStats"] = Null => LineRow(q).at = Null
         /\ \A at, seconds \in Nat : q.got["lineStats"] = LinePage(at, seconds) /\ q.got["lineStats"] # Null =>
              LineRow(q).at = at /\ LineRow(q).showtime = seconds /\ Line(q).showtime = seconds
<1>1. q.got["lineStats"] = Null => LineRow(q).at = Null
  BY DEF LineRow, Rows
<1>2. ASSUME NEW at \in Nat, NEW seconds \in Nat, q.got["lineStats"] = LinePage(at, seconds),
             q.got["lineStats"] # Null
      PROVE  LineRow(q).at = at /\ LineRow(q).showtime = seconds /\ Line(q).showtime = seconds
  <2> DEFINE rec == [showtimeStart |-> seconds, errors |-> <<Null>>, at |-> at]
  <2>1. Rows(q, "lineStats") = <<rec>>
    BY <1>2 DEF Rows, LinePage
  <2>2. rec # Null /\ rec.showtimeStart = seconds /\ rec.at = at
    BY NullAssumption
  <2> HIDE DEF rec
  <2>3. Rows(q, "lineStats") # <<>> /\ Head(Rows(q, "lineStats")) = rec
    BY <2>1
  <2>4. Str(seconds) = seconds
    BY NullAssumption DEF Str
  <2>5. Line(q).showtime = seconds
    BY <2>2, <2>3, <2>4 DEF Line, HeadOrNull, ParseLineSample
  <2> QED BY <2>2, <2>3, <2>5 DEF LineRow
<1> QED BY <1>1, <1>2 DEF LineRow

LEMMA StoreKeepsLines ==
  ASSUME ResyncInv, NEW p \in Pollers, Store(p)
  PROVE  Lines' /\ ResyncTrue'
<1> DEFINE q == poll[p]
<1>0. /\ pc[p] = "storing" /\ DOMAIN poll = Pollers /\ DOMAIN db = {"line", "wan", "rows"} /\ p \in DOMAIN pc
      /\ DOMAIN pc = Procs
  BY ConstantFacts DEF Store, ResyncInv, ControlInv, Shape, TypeOK
<1>1. PICK v, out :
        /\ out = Outcome(q, v)
        /\ db' = [db EXCEPT !.line = IF out.line THEN out.row ELSE @,
                            !.wan = IF out.wan # Null THEN out.wan.name ELSE @]
        /\ written' = [out |-> out, answered |-> AnsweredKeys(q), abandoned |-> q.abandoned,
                       disturbed |-> p \in disturbed, last |-> announced, before |-> db]
  BY DEF Store
<1>2. /\ pc' = [pc EXCEPT ![p] = "idle"] /\ poll' = [poll EXCEPT ![p] = NoPoll]
      /\ UNCHANGED <<outside, device>>
  BY DEF Store
<1>3. HeardLine(q) /\ StoredLine /\ OnTime /\ device.lineStart <= clock
  BY <1>0 DEF ResyncInv, Lines
<1>4. out.row = LineRow(q) /\ out.line = HasLineReading(q) /\ out.resync = Resync(q)
  BY <1>1 DEF Outcome
<1>5. db'.line = IF out.line THEN LineRow(q) ELSE db.line
  BY <1>0, <1>1, <1>4
<1>6. written'.before = db /\ written'.out = out
  BY <1>1
\* What the newest reading says, when there is one.
<1>7. LineRow(q).at # Null =>
        /\ q.got["lineStats"] # Null
        /\ Reading(LineRow(q).at, LineRow(q).showtime, LineRow(q).ts)
        /\ Later(LineRow(q).at, device.lineStart) /\ Line(q).showtime = LineRow(q).showtime
        /\ Stored(db.line) => Later(db.line.at, LineRow(q).at)
  <2> SUFFICES ASSUME LineRow(q).at # Null
               PROVE  /\ q.got["lineStats"] # Null
                      /\ Reading(LineRow(q).at, LineRow(q).showtime, LineRow(q).ts)
                      /\ Later(LineRow(q).at, device.lineStart) /\ Line(q).showtime = LineRow(q).showtime
                      /\ Stored(db.line) => Later(db.line.at, LineRow(q).at)
    OBVIOUS
  <2> HIDE DEF q
  <2>1. q.got["lineStats"] # Null
    BY RowFacts
  <2>2. PICK at \in Nat, seconds \in Nat :
          /\ q.got["lineStats"] = LinePage(at, seconds) /\ Reading(at, seconds, q.ts)
          /\ Later(at, device.lineStart)
          /\ Stored(db.line) => Later(db.line.at, at)
    BY <1>3, <2>1 DEF HeardLine
  <2>3. /\ LineRow(q).at = at /\ LineRow(q).showtime = seconds /\ Line(q).showtime = seconds
        /\ LineRow(q).ts = q.ts
    BY <2>1, <2>2, RowFacts
  <2> QED BY <2>1, <2>2, <2>3
<1> HIDE DEF q
<1>8. StoredLine'
  BY <1>2, <1>3, <1>5, <1>7 DEF StoredLine, Stored
<1>9. OnTime'
  BY <1>0, <1>2, <1>3 DEF OnTime, outside
<1>10. \A o \in Pollers : pc'[o] = "idle"
  <2>1. \A o \in Pollers \ {p} : ~Active(o)
    BY <1>0 DEF ResyncInv, ControlInv, Control, OnePollAtATime, Active
  <2>2. \A o \in Pollers \ {p} : pc[o] = "idle"
    BY <2>1 DEF Active, ResyncInv, ControlInv, Shape, Places
  <2> QED BY <1>0, <1>2, <2>2, ConstantFacts
<1>11. Lines'
  BY <1>2, <1>3, <1>8, <1>9, <1>10 DEF Lines, outside
<1>12. ResyncTrue'
  <2> SUFFICES ASSUME db.line # Null, db.line.at # Null, LineRow(q).at # Null,
                      ~(db.line.showtime = 0 /\ LineRow(q).showtime = 0)
               PROVE  Resync(q) <=> LineRow(q).at > db.line.at
    BY <1>4, <1>6 DEF ResyncTrue
  <2>1. Resync(q) = DetectRestart([ts |-> db.line.ts, seconds |-> db.line.showtime],
                                  [ts |-> LineRow(q).ts, seconds |-> LineRow(q).showtime])
    BY <1>7, RowFacts DEF Resync
  <2>2. Reading(db.line.at, db.line.showtime, db.line.ts)
    BY <1>3 DEF StoredLine, Stored
  <2>3. /\ Reading(LineRow(q).at, LineRow(q).showtime, LineRow(q).ts)
        /\ Later(db.line.at, LineRow(q).at)
    BY <1>7 DEF Stored
  <2> QED BY <2>1, <2>2, <2>3, RestartFacts
<1> QED BY <1>11, <1>12

LEMMA ReadKeepsLines ==
  ASSUME ResyncInv, NEW p \in Pollers, PollRead(p)
  PROVE  OnTime' /\ HeardLine(poll[p])'
<1> DEFINE q == poll[p]
           key == Keys[poll[p].next]
<1>0. UNCHANGED <<outside, device, db>> /\ pc[p] = "reading"
  BY DEF PollRead
<1>1. PICK got, stop : /\ TakeIn(p, got, stop)
                       /\ got = Null \/ got \in Pages(key)
  BY DEF PollRead
<1>2. /\ DOMAIN q = {"ts", "next", "got", "abandoned"} /\ DOMAIN q.got = ToSet(READS)
      /\ q.next \in DOMAIN Keys /\ p \in DOMAIN poll /\ q.next \in Nat /\ q.ts \in Nat
      /\ DOMAIN poll = Pollers /\ DOMAIN pc = Procs
  BY <1>0 DEF ResyncInv, ControlInv, Shape, PollShape, ShapedPoll, TypeOK
<1>3. poll'[p] = Taken(q, got, stop) /\ \A o \in Pollers \ {p} : poll'[o] = poll[o] /\ pc'[o] = pc[o]
  BY <1>1, <1>2, ConstantFacts DEF TakeIn
<1>4. /\ poll'[p].got = [q.got EXCEPT ![key] = got] /\ poll'[p].ts = q.ts /\ poll'[p].next = q.next + 1
  BY <1>2, <1>3 DEF Taken
<1>5. q.ts <= clock /\ (q.next <= 2 => clock <= q.ts + ReadTime) /\ HeardLine(q)
      /\ device.lineStart <= clock
  BY <1>0 DEF ResyncInv, Lines, OnTime
<1>6. key = "lineStats" => q.next <= 2
  BY <1>2, RouterAssumption
<1>7. key = "lineStats" /\ got # Null => got = LinePage(device.lineStart, clock - device.lineStart)
  BY <1>1 DEF Pages, LinePage
<1>8. "lineStats" \in ToSet(READS)
  BY PagesKnown
<1> HIDE DEF q, key
<1>9. OnTime'
  <2> SUFFICES ASSUME NEW o \in Pollers, pc'[o] = "reading"
               PROVE  poll'[o].ts <= clock' /\ (poll'[o].next <= 2 => clock' <= poll'[o].ts + ReadTime)
    BY DEF OnTime
  <2>1. CASE o = p
    <3>1. q.next + 1 <= 2 => q.next <= 2
      BY <1>2
    <3> QED BY <1>0, <1>4, <1>5, <2>1, <3>1 DEF outside
  <2>2. CASE o # p
    BY <1>0, <1>3, <2>2 DEF OnTime, ResyncInv, Lines, outside
  <2> QED BY <2>1, <2>2
<1>10. HeardLine(poll[p])'
  <2> SUFFICES ASSUME poll'[p].got["lineStats"] # Null
               PROVE  \E at, seconds \in Nat :
                        /\ poll'[p].got["lineStats"] = LinePage(at, seconds) /\ Reading(at, seconds, q.ts)
                        /\ Later(at, device.lineStart)
                        /\ Stored(db.line) => Later(db.line.at, at)
    BY <1>0, <1>4 DEF HeardLine
  <2>1. CASE key = "lineStats"
    <3> DEFINE at == device.lineStart
               seconds == clock - device.lineStart
    <3>1. at \in Nat /\ seconds \in Nat /\ clock \in Nat
      <4>1. device.lineStart \in Nat /\ clock \in Nat
        BY ConstantFacts DEF ResyncInv, ControlInv, Shape, TypeOK
      <4> QED BY <1>5, <4>1
    <3>2. Reading(at, seconds, q.ts)
      <4>1. at + seconds = clock
        BY <3>1
      <4> QED BY <1>2, <1>5, <1>6, <2>1, <3>1, <4>1 DEF Reading
    <3>3. Later(at, device.lineStart) /\ (Stored(db.line) => Later(db.line.at, at))
      BY DEF ResyncInv, Lines, StoredLine, Later
    <3>4. poll'[p].got["lineStats"] = LinePage(at, seconds)
      BY <1>2, <1>4, <1>7, <1>8, <2>1
    <3> HIDE DEF at, seconds
    <3> QED BY <3>1, <3>2, <3>3, <3>4
  <2>2. CASE key # "lineStats"
    <3>1. poll'[p].got["lineStats"] = q.got["lineStats"]
      BY <1>2, <1>4, <1>8, <2>2
    <3> QED BY <1>5, <3>1 DEF HeardLine
  <2> QED BY <2>1, <2>2
<1> QED BY <1>9, <1>10

\* A step that stores nothing, and gives no poll a reading it did not make: what was heard of
\* one training stays heard of it when the line trains anew.
LEMMA QuietKeepsLines ==
  ASSUME ResyncInv, OnTime', written' = written, db'.line = db.line, clock' \in Nat, clock <= clock',
         \/ device'.lineStart = device.lineStart
         \/ clock - device.lineStart > Tolerance + ReadTime /\ device'.lineStart = clock,
         \A p \in Pollers : pc'[p] \in {"reading", "storing"} =>
           \/ poll'[p] = poll[p] /\ pc[p] \in {"reading", "storing"}
           \/ poll'[p] = PollFrom(clock)
           \/ HeardLine(poll[p])'
  PROVE  Lines' /\ ResyncTrue'
<1>0. /\ Lines /\ device.lineStart \in Nat /\ clock \in Nat /\ Tolerance \in Nat /\ ReadTime \in Nat
      /\ device.lineStart <= clock
  BY ConstantFacts DEF ResyncInv, ControlInv, Shape, TypeOK, Lines
<1>1. device'.lineStart \in Nat /\ device'.lineStart <= clock'
  BY <1>0
\* Whatever came before this training comes before the next one.
<1>2. ASSUME NEW at \in Nat, Later(at, device.lineStart)
      PROVE  Later(at, device'.lineStart)
  BY <1>0, <1>2 DEF Later
<1>3. StoredLine'
  <2> SUFFICES ASSUME Stored(db.line)
               PROVE  /\ Reading(db.line.at, db.line.showtime, db.line.ts)
                      /\ Later(db.line.at, device'.lineStart)
    BY DEF StoredLine, Stored
  <2>1. Reading(db.line.at, db.line.showtime, db.line.ts) /\ Later(db.line.at, device.lineStart)
    BY <1>0 DEF Lines, StoredLine
  <2> QED BY <1>2, <2>1 DEF Reading
<1>4. ASSUME NEW p \in Pollers, pc'[p] \in {"reading", "storing"}
      PROVE  HeardLine(poll[p])'
  <2>1. CASE poll'[p] = poll[p] /\ pc[p] \in {"reading", "storing"}
    <3>1. HeardLine(poll[p])
      BY <1>0, <2>1 DEF Lines
    <3> SUFFICES ASSUME poll[p].got["lineStats"] # Null
                 PROVE  \E at, seconds \in Nat :
                          /\ poll[p].got["lineStats"] = LinePage(at, seconds)
                          /\ Reading(at, seconds, poll[p].ts)
                          /\ Later(at, device'.lineStart)
                          /\ Stored(db.line) => Later(db.line.at, at)
      BY <2>1 DEF HeardLine, Stored
    <3>2. PICK at \in Nat, seconds \in Nat :
            /\ poll[p].got["lineStats"] = LinePage(at, seconds) /\ Reading(at, seconds, poll[p].ts)
            /\ Later(at, device.lineStart)
            /\ Stored(db.line) => Later(db.line.at, at)
      BY <3>1 DEF HeardLine
    <3>3. Later(at, device'.lineStart)
      BY <1>2, <3>2
    <3> QED BY <3>2, <3>3
  <2>2. CASE poll'[p] = PollFrom(clock)
    <3>1. poll'[p].got["lineStats"] = Null
      BY <2>2, PagesKnown DEF PollFrom, NotAsked
    <3> QED BY <3>1 DEF HeardLine
  <2> QED BY <1>4, <2>1, <2>2
<1>5. Lines'
  BY <1>1, <1>3, <1>4 DEF Lines
<1>6. ResyncTrue'
  BY DEF ResyncInv, ResyncTrue
<1> QED BY <1>5, <1>6

\* Nothing that leaves the clock alone makes a read late.
LEMMA StillOnTime ==
  ASSUME ResyncInv, clock' = clock,
         \A p \in Pollers : pc'[p] = "reading" => \/ poll'[p] = poll[p] /\ pc[p] = "reading"
                                                  \/ poll'[p] = PollFrom(clock)
  PROVE  OnTime'
<1>1. clock \in Nat /\ ReadTime \in Nat /\ OnTime
  BY ConstantFacts DEF ResyncInv, ControlInv, Shape, TypeOK, Lines
<1> SUFFICES ASSUME NEW p \in Pollers, pc'[p] = "reading"
             PROVE  poll'[p].ts <= clock /\ (poll'[p].next <= 2 => clock <= poll'[p].ts + ReadTime)
  BY DEF OnTime
<1>2. CASE poll'[p] = poll[p] /\ pc[p] = "reading"
  BY <1>1, <1>2 DEF OnTime
<1>3. CASE poll'[p] = PollFrom(clock)
  BY <1>1, <1>3 DEF PollFrom
<1> QED BY <1>2, <1>3

LEMMA OneTickMore ==
  ASSUME NEW t \in Nat, NEW c \in Nat, NEW d \in Nat, t <= c
  PROVE  t <= c + 1 /\ (c - t < d => c + 1 <= t + d)
  OBVIOUS

LEMMA StepKeepsLines == ResyncInv /\ [Next]_vars => Lines' /\ ResyncTrue'
<1> SUFFICES ASSUME ResyncInv, [Next]_vars
             PROVE  Lines' /\ ResyncTrue'
  OBVIOUS
<1> USE ConstantFacts
<1> DEFINE Goal == Lines' /\ ResyncTrue'
<1>0. /\ DOMAIN poll = Pollers /\ DOMAIN pc = Procs /\ DOMAIN db = {"line", "wan", "rows"} /\ clock \in Nat
      /\ device.lineStart \in Nat /\ Shape
      /\ DOMAIN device = {"up", "slot", "wan", "connType", "lineStart"}
  BY DEF ResyncInv, ControlInv, Shape, TypeOK
<1>1. ASSUME written' = written, db'.line = db.line, clock' = clock,
             \/ device'.lineStart = device.lineStart
             \/ clock - device.lineStart > Tolerance + ReadTime /\ device'.lineStart = clock,
             \A p \in Pollers : pc'[p] \in {"reading", "storing"} =>
               \/ poll'[p] = poll[p] /\ pc[p] = pc'[p]
               \/ poll'[p] = PollFrom(clock)
      PROVE  Goal
  <2>1. OnTime'
    BY <1>1, StillOnTime
  <2> QED BY <1>0, <1>1, <2>1, QuietKeepsLines
<1>2. ASSUME UNCHANGED vars
      PROVE  Goal
  BY <1>1, <1>2 DEF vars
<1>3. ASSUME NEW p \in Procs, BeginLogin(p) \/ LoginOk(p) \/ LoginFails(p)
      PROVE  Goal
  <2>1. UNCHANGED <<outside, db, written>> /\ device'.lineStart = device.lineStart
    BY <1>0, <1>3 DEF BeginLogin, LoginOk, LoginFails
  <2>2. \A q \in Pollers : pc'[q] \in {"reading", "storing"} =>
          \/ poll'[q] = poll[q] /\ pc[q] = pc'[q]
          \/ poll'[q] = PollFrom(clock)
    BY <1>0, <1>3 DEF BeginLogin, LoginOk, LoginFails, Rejected
  <2> QED BY <1>1, <2>1, <2>2 DEF outside
<1>4. ASSUME NEW p \in Pollers, StartPoll(p) \/ StoreFails(p)
      PROVE  Goal
  <2>1. UNCHANGED <<outside, device, db, written>>
    BY <1>4 DEF StartPoll, StoreFails
  <2>2. \A q \in Pollers : pc'[q] \in {"reading", "storing"} => poll'[q] = poll[q] /\ pc[q] = pc'[q]
    BY <1>0, <1>4 DEF StartPoll, StoreFails
  <2> QED BY <1>1, <2>1, <2>2 DEF outside
<1>5. ASSUME NEW p \in Pollers, PollRead(p)
      PROVE  Goal
  <2>1. OnTime' /\ HeardLine(poll[p])'
    BY <1>5, ReadKeepsLines
  <2>2. UNCHANGED <<outside, device, db, written>>
    BY <1>5 DEF PollRead
  <2>3. \A q \in Pollers \ {p} : poll'[q] = poll[q] /\ pc'[q] = pc[q]
    BY <1>0, <1>5 DEF PollRead, TakeIn
  <2> QED BY <1>0, <2>1, <2>2, <2>3, QuietKeepsLines DEF outside
<1>6. ASSUME NEW p \in Pollers, Store(p)
      PROVE  Goal
  BY <1>6, StoreKeepsLines
<1>7. ASSUME NEW r \in Requests, Post(r) \/ Snapshot(r) \/ SendAction(r) \/ RecordAndAnswer(r)
      PROVE  Goal
  <2>1. poll' = poll /\ written' = written /\ clock' = clock /\ db'.line = db.line
    BY <1>0, <1>7 DEF Post, Snapshot, SendAction, RecordAndAnswer, outside
  <2>2. device'.lineStart = device.lineStart
    <3>1. ASSUME SendAction(r)
          PROVE  device'.lineStart = device.lineStart
      <4> DEFINE intent == Plan(r)[request[r].step]
      <4>1. Acknowledged(r, intent) \/ Refused(r, intent) \/ Silent(r, intent)
        BY <3>1 DEF SendAction
      <4> HIDE DEF intent
      <4>2. Perform(r, intent) \/ UNCHANGED device
        BY <4>1 DEF Acknowledged, Refused, Silent
      <4> QED BY <1>0, <4>2 DEF Perform
    <3> QED BY <1>7, <3>1 DEF Post, Snapshot, RecordAndAnswer
  <2>3. \A q \in Procs \ {r} : pc'[q] = pc[q]
    BY <1>0, <1>7, OnlyOneMoves
  <2> QED BY <1>1, <2>1, <2>2, <2>3
<1>8. ASSUME World
      PROVE  Goal
  <2>1. CASE Elapse
    <3>1. UNCHANGED <<device, pc, poll, db, written>> /\ clock' = clock + 1
      BY <2>1 DEF Elapse
    <3>2. OnTime'
      <4> SUFFICES ASSUME NEW p \in Pollers, pc[p] = "reading"
                   PROVE  poll[p].ts <= clock + 1 /\ (poll[p].next <= 2 => clock + 1 <= poll[p].ts + ReadTime)
        BY <3>1 DEF OnTime
      <4>1. poll[p].ts <= clock
        BY DEF ResyncInv, Lines, OnTime
      <4>2. poll[p].next <= 2 => clock - poll[p].ts < ReadTime
        BY <2>1 DEF Elapse, ReadInTime
      <4>3. poll[p].ts \in Nat
        BY <1>0 DEF Shape, PollShape, ShapedPoll
      <4> QED BY <1>0, <4>1, <4>2, <4>3, OneTickMore
    <3>3. clock' \in Nat /\ clock <= clock'
      BY <1>0, <3>1
    <3> QED BY <3>1, <3>2, <3>3, QuietKeepsLines
  <2>2. CASE LineResync \/ DeviceBoots \/ PersonLogsIn \/ WanDrops
    <3>1. UNCHANGED <<outside, pc, poll, db, written>>
      BY <2>2 DEF LineResync, DeviceBoots, PersonLogsIn, WanDrops
    <3>2. \/ device'.lineStart = device.lineStart
          \/ clock - device.lineStart > Tolerance + ReadTime /\ device'.lineStart = clock
      BY <1>0, <2>2 DEF LineResync, DeviceBoots, PersonLogsIn, WanDrops
    <3> QED BY <1>1, <3>1, <3>2 DEF outside
  <2>3. CASE Restart
    <3>1. UNCHANGED <<outside, device, db, written>> /\ \A q \in Pollers : pc'[q] = "idle"
      BY <1>0, <2>3 DEF Restart, Active, Shape, Places
    <3> QED BY <1>1, <3>1 DEF outside
  <2> QED BY <1>8, <2>1, <2>2, <2>3 DEF World
<1> HIDE DEF Goal
<1>9. Goal
  BY <1>2, <1>3, <1>4, <1>5, <1>6, <1>7, <1>8
  DEF Next, Cron, Demand, PollStep, RequestStep, Pollers
<1> QED BY <1>9 DEF Goal

\* A resync is recorded exactly when the line trained anew between two stored readings,
\* however late in its second either reading came and whatever was polled, restarted or
\* rebooted between them (derive.ts detectRestart).
THEOREM ResyncsAreTrue == Spec => []ResyncTrue
<1>1. Init => ResyncInv
  <2> SUFFICES ASSUME Init PROVE ResyncInv
    OBVIOUS
  <2>1. device.lineStart <= clock
    BY ConstantFacts DEF Init
  <2>2. OnTime /\ StoredLine /\ \A p \in Pollers : pc[p] = "idle"
    BY ConstantFacts DEF Init, OnTime, StoredLine, Stored
  <2> QED BY <2>1, <2>2, StartsControlled DEF ResyncInv, Lines, ResyncTrue, Init
<1>2. ResyncInv /\ [Next]_vars => ResyncInv'
  BY StepKeepsShape, StepKeepsControl, StepKeepsLines DEF ResyncInv, ControlInv
<1>3. ResyncInv => ResyncTrue
  BY DEF ResyncInv
<1> QED BY <1>1, <1>2, <1>3, PTL DEF Spec
=============================================================================
