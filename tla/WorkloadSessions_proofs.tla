----------------------- MODULE WorkloadSessions_proofs -----------------------
(***************************************************************************)
(* What holds of WorkloadSessions for every number of workloads, every     *)
(* debounce, grace and threshold, and however often the program is killed. *)
(***************************************************************************)
EXTENDS WorkloadSessions, SequenceTheorems, FiniteSetTheorems, TLAPS

-----------------------------------------------------------------------------
(* The session records.                                                    *)

Op == [op : {"append"}, rec : Completed] \cup [op : {"save"}, snap : Sessions]

LEMMA NewSessionType ==
    ASSUME NEW t \in Nat PROVE NewSession(t) \in Session
<1>1. 0 \in 0 .. Samples
  BY SessionConstants
<1>2. <<>> \in Seq(Gap)
  BY EmptySeq
<1> QED
  BY <1>1, <1>2 DEF NewSession, Session

LEMMA CountedType ==
    ASSUME NEW s \in Nat, NEW t \in Nat, s <= t PROVE Counted(s, t) \in Nat
BY SessionConstants DEF Counted

LEMMA SampledType ==
    ASSUME NEW rec \in Session, NEW dt \in Nat, NEW t \in Nat
    PROVE  /\ Sampled(rec, dt, t) \in Session
           /\ Sampled(rec, dt, t).start = rec.start
           /\ rec.confirmed => Sampled(rec, dt, t).confirmed
<1> DEFINE n == IF rec.consecutive < Samples THEN rec.consecutive + 1 ELSE Samples
<1>1. /\ rec.consecutive \in 0 .. Samples /\ rec.confirmed \in BOOLEAN
      /\ rec.zoneTime \in Nat
  BY DEF Session
<1>2. n \in 0 .. Samples
  BY <1>1, SessionConstants
<1>3. rec.zoneTime + dt \in Nat
  BY <1>1
<1>4. Sampled(rec, dt, t) = [rec EXCEPT !.consecutive = n,
                                        !.confirmed = @ \/ n >= Samples,
                                        !.zoneTime = @ + dt,
                                        !.lastActive = t,
                                        !.lastObs = t]
  BY DEF Sampled
<1>5. (rec.confirmed \/ n >= Samples) \in BOOLEAN
  BY <1>1
<1> HIDE DEF n
<1> QED
  BY <1>1, <1>2, <1>3, <1>4, <1>5 DEF Session

LEMMA WithGapType ==
    ASSUME NEW rec \in Session, NEW gap \in Gap
    PROVE  /\ WithGap(rec, gap) \in Session
           /\ WithGap(rec, gap).start = rec.start
           /\ WithGap(rec, gap).confirmed = rec.confirmed
<1>1. Append(rec.gaps, gap) \in Seq(Gap)
  BY AppendProperties DEF Session
<1> QED
  BY <1>1 DEF WithGap, Session

LEMMA ResumedType ==
    ASSUME NEW rec \in Session, NEW gap \in Gap, NEW t \in Nat
    PROVE  /\ Resumed(rec, gap, t) \in Session
           /\ Resumed(rec, gap, t).start = rec.start
           /\ Resumed(rec, gap, t).confirmed = rec.confirmed
<1>1. Append(rec.gaps, gap) \in Seq(Gap)
  BY AppendProperties DEF Session
<1> QED
  BY <1>1 DEF Resumed, Session

LEMMA FinalizedType ==
    ASSUME NEW k \in Keys, NEW rec \in Session, NEW t \in Nat,
           NEW uncertain \in BOOLEAN, NEW gap, uncertain => gap \in Gap
    PROVE  /\ Finalized(k, rec, t, uncertain, gap) \in Completed
           /\ Finalized(k, rec, t, uncertain, gap).id = <<k, rec.start>>
           /\ Finalized(k, rec, t, uncertain, gap).end = t
<1>1. rec.gaps \in Seq(Gap) /\ (uncertain => Append(rec.gaps, gap) \in Seq(Gap))
  BY AppendProperties DEF Session
<1>2. <<k, rec.start>> \in Keys \X Nat
  BY DEF Session
<1>3. (IF uncertain THEN Append(rec.gaps, gap) ELSE rec.gaps) \in Seq(Gap)
  BY <1>1
<1>4. (IF uncertain THEN "ended_during_gap" ELSE "idle_grace_expired")
         \in {"idle_grace_expired", "ended_during_gap"}
  BY <1>1
<1>5. (~uncertain /\ rec.gaps = <<>>) \in BOOLEAN
  BY <1>1
<1> QED
  BY <1>2, <1>3, <1>4, <1>5 DEF Finalized, Completed, Session

\* What a save has of each workload.
LEMMA MergedKeeps ==
    ASSUME NEW sess \in Sessions, NEW pend \in Sessions
    PROVE  /\ Merged(sess, pend) \in Sessions
           /\ \A k \in Keys : Has(Merged(sess, pend), k) =>
                 \/ /\ Has(pend, k)
                    /\ Merged(sess, pend)[k].start = pend[k].start
                    /\ Merged(sess, pend)[k].confirmed = pend[k].confirmed
                 \/ /\ Confirmed(sess, k) /\ ~Has(pend, k)
                    /\ Merged(sess, pend)[k].start = sess[k].start
                    /\ Merged(sess, pend)[k].confirmed = sess[k].confirmed
           /\ \A k \in Keys : Has(pend, k) \/ Confirmed(sess, k) =>
                 Has(Merged(sess, pend), k)
<1>1. ASSUME NEW rec \in Session
      PROVE  /\ [rec EXCEPT !.consecutive = 0] \in Session
             /\ [rec EXCEPT !.consecutive = 0].start = rec.start
             /\ [rec EXCEPT !.consecutive = 0].confirmed = rec.confirmed
  <2>1. 0 \in 0 .. Samples
    BY SessionConstants
  <2> QED
    BY <2>1 DEF Session
<1>2. \A k \in Keys : /\ Has(pend, k) => pend[k] \in Session
                      /\ Has(sess, k) => sess[k] \in Session
  BY DEF Sessions, Has
<1>3. ASSUME NEW k \in Keys, Has(pend, k)
      PROVE  /\ Merged(sess, pend)[k] \in Session
             /\ Merged(sess, pend)[k].start = pend[k].start
             /\ Merged(sess, pend)[k].confirmed = pend[k].confirmed
  <2>1. Merged(sess, pend)[k] = [pend[k] EXCEPT !.consecutive = 0]
    BY <1>3 DEF Merged
  <2> QED
    BY <1>1, <1>2, <1>3, <2>1
<1>4. ASSUME NEW k \in Keys, ~Has(pend, k), Confirmed(sess, k)
      PROVE  /\ Merged(sess, pend)[k] \in Session
             /\ Merged(sess, pend)[k].start = sess[k].start
             /\ Merged(sess, pend)[k].confirmed = sess[k].confirmed
  <2>1. Merged(sess, pend)[k] = [sess[k] EXCEPT !.consecutive = 0] /\ Has(sess, k)
    BY <1>4 DEF Merged, Confirmed
  <2> QED
    BY <1>1, <1>2, <2>1
<1>5. ASSUME NEW k \in Keys, ~Has(pend, k), ~Confirmed(sess, k)
      PROVE  Merged(sess, pend)[k] = None
  BY <1>5 DEF Merged
<1>6. \A k \in Keys : Merged(sess, pend)[k] \in Session \cup {None}
  BY <1>3, <1>4, <1>5
<1>7. Merged(sess, pend) \in Sessions
  <2>1. Merged(sess, pend) = [k \in Keys |-> Merged(sess, pend)[k]]
    BY DEF Merged
  <2> QED
    BY <1>6, <2>1 DEF Sessions
<1> QED
  BY <1>3, <1>4, <1>5, <1>7, NoSession DEF Has

LEMMA OpTypes ==
    ASSUME NEW sess \in Sessions, NEW pend \in Sessions, NEW rec \in Completed
    PROVE  /\ SaveOf(sess, pend) \in Op
           /\ AppendOf(rec) \in Op
<1>1. SaveOf(sess, pend) \in Op
  BY MergedKeeps DEF SaveOf, Op
<1>2. AppendOf(rec) \in Op
  BY DEF AppendOf, Op
<1> QED
  BY <1>1, <1>2

\* The writes that are left when the first is made.
LEMMA WritesLeft ==
    ASSUME NEW ops \in Seq(Op), ops # <<>>
    PROVE  /\ Tail(ops) \in Seq(Op)
           /\ 1 \in DOMAIN ops /\ Head(ops) = ops[1]
           /\ \A i \in DOMAIN Tail(ops) : i + 1 \in DOMAIN ops /\ i + 1 # 1
                                          /\ Tail(ops)[i] = ops[i + 1]
           /\ Head(ops).op = "append" => Head(ops).rec \in Completed
           /\ Head(ops).op = "save" => Head(ops).snap \in Sessions
<1>1. Len(ops) \in Nat /\ DOMAIN ops = 1 .. Len(ops) /\ Len(ops) # 0
  BY LenProperties, EmptySeq
<1>2. /\ Head(ops) \in Op /\ Tail(ops) \in Seq(Op)
      /\ Len(Tail(ops)) = Len(ops) - 1
      /\ \A i \in 1 .. Len(Tail(ops)) : Tail(ops)[i] = ops[i + 1]
  BY HeadTailProperties
<1>3. DOMAIN Tail(ops) = 1 .. Len(Tail(ops))
  BY <1>2, LenProperties
<1>4. \A i \in DOMAIN Tail(ops) : i + 1 \in DOMAIN ops /\ i + 1 # 1
                                  /\ Tail(ops)[i] = ops[i + 1]
  BY <1>1, <1>2, <1>3
<1>5. 1 \in DOMAIN ops /\ Head(ops) = ops[1]
  BY <1>1
<1>6. /\ Head(ops).op = "append" => Head(ops).rec \in Completed
      /\ Head(ops).op = "save" => Head(ops).snap \in Sessions
  BY <1>2 DEF Op
<1> QED
  BY <1>2, <1>4, <1>5, <1>6

-----------------------------------------------------------------------------
(* Type correctness.                                                       *)

\* The time a sample counts for is not negative; and a program that is not
\* running has nothing in memory.
ClockInv ==
    /\ lastTick <= now
    /\ sessTick <= now

StoppedInv ==
    ~up => phase = "idle" /\ io = <<>> /\ sessions = Empty /\ pending = Empty

BaseInv == TypeOK /\ ClockInv /\ StoppedInv

LEMMA EmptyTypes ==
    /\ Empty \in Sessions
    /\ Empty \in [Keys -> Activity \cup {None}]
    /\ \A k \in Keys : ~Has(Empty, k)
    /\ <<>> \in Seq(Op) /\ <<>> \in Seq(Completed)
    /\ [k \in Keys |-> <<>>] \in [Keys -> Seq(Nat)]
BY EmptySeq DEF Empty, Sessions, Has

LEMMA BaseInit == Init => BaseInv
<1> SUFFICES ASSUME Init PROVE BaseInv
  OBVIOUS
<1>1. TypeOK
  <2>1. /\ io \in Seq(Op) /\ history \in Seq(Completed)
        /\ streak \in [Keys -> Seq(Nat)] /\ activity \in [Keys -> Activity \cup {None}]
    BY EmptyTypes DEF Init
  <2>2. /\ sessions \in Sessions /\ pending \in Sessions /\ snapshot \in Sessions
        /\ linked \in SUBSET Incident /\ incidents \in SUBSET Incident
        /\ outages \in SUBSET Gap
    BY EmptyTypes DEF Init
  <2>3. /\ now \in Nat /\ starts \in Nat /\ up \in BOOLEAN /\ startedAt \in Nat
        /\ phase \in {"idle", "tick", "reconcile", "closing"}
        /\ lastTick \in Nat /\ sessTick \in Nat
        /\ dirty \in BOOLEAN /\ reconciled \in BOOLEAN
    BY DEF Init
  <2> QED
    BY <2>1, <2>2, <2>3 DEF TypeOK, Op
<1>2. ClockInv /\ StoppedInv
  BY DEF Init, ClockInv, StoppedInv
<1> QED
  BY <1>1, <1>2 DEF BaseInv

LEMMA BaseStopped ==
    ASSUME BaseInv, Stopped,
           UNCHANGED <<clockVars, lastTick, sessTick, diskVars, outages>>
    PROVE  BaseInv'
<1>1. TypeOK'
  BY EmptyTypes DEF BaseInv, TypeOK, Stopped, Op, clockVars, diskVars
<1>2. ClockInv' /\ StoppedInv'
  BY DEF BaseInv, ClockInv, StoppedInv, Stopped, clockVars
<1> QED
  BY <1>1, <1>2 DEF BaseInv

LEMMA BaseEnvironment ==
    ASSUME BaseInv, Advance \/ Crash \/ Start \/ Exit
    PROVE  BaseInv'
<1>1. CASE Crash \/ Exit
  BY <1>1, BaseStopped DEF Crash, Exit
<1>2. CASE Advance
  <2>1. now' \in Nat /\ ClockInv'
    BY <1>2 DEF Advance, tickVars, BaseInv, TypeOK, ClockInv
  <2> QED
    BY <1>2, <2>1 DEF Advance, procVars, tickVars, diskVars, BaseInv, TypeOK, StoppedInv
<1>3. CASE Start
  <2>1. pending' \in Sessions
    BY <1>3 DEF Start, BaseInv, TypeOK, Sessions, Has
  <2>2. outages' \in SUBSET Gap
    <3>1. [from |-> lastTick, to |-> now] \in Gap
      BY DEF BaseInv, TypeOK, Gap
    <3> QED
      BY <1>3, <3>1 DEF Start, BaseInv, TypeOK
  <2>3. starts' \in Nat /\ ClockInv'
    BY <1>3 DEF Start, BaseInv, TypeOK, ClockInv
  <2> QED
    BY <1>3, <2>1, <2>2, <2>3 DEF Start, diskVars, BaseInv, TypeOK, StoppedInv
<1> QED
  BY <1>1, <1>2, <1>3

LEMMA BaseDisk ==
    ASSUME BaseInv, AppendSession \/ SaveSnapshot
    PROVE  BaseInv'
<1>1. io \in Seq(Op) /\ io # <<>>
  BY DEF BaseInv, TypeOK, Op, AppendSession, SaveSnapshot
<1>2. io' \in Seq(Op)
  BY <1>1, WritesLeft DEF AppendSession, SaveSnapshot
<1>3. history' \in Seq(Completed) /\ snapshot' \in Sessions
  <2>1. history \in Seq(Completed) /\ snapshot \in Sessions
    BY DEF BaseInv, TypeOK
  <2>2. CASE AppendSession
    <3>1. Head(io).rec \in Completed
      BY <1>1, <2>2, WritesLeft DEF AppendSession
    <3>2. Append(history, Head(io).rec) \in Seq(Completed)
      BY <2>1, <3>1, AppendProperties
    <3> QED
      BY <2>1, <2>2, <3>2 DEF AppendSession
  <2>3. CASE SaveSnapshot
    BY <1>1, <2>1, <2>3, WritesLeft DEF SaveSnapshot
  <2> QED
    BY <2>2, <2>3
<1> QED
  BY <1>1, <1>2, <1>3 DEF AppendSession, SaveSnapshot, clockVars, procVars, tickVars,
     BaseInv, TypeOK, ClockInv, StoppedInv, Op

LEMMA AfterGapType ==
    ASSUME BaseInv
    PROVE  /\ AfterGap \in Sessions
           /\ \A k \in Keys :
                 /\ Has(AfterGap, k) <=> Has(sessions, k)
                 /\ Has(sessions, k) => /\ AfterGap[k].start = sessions[k].start
                                        /\ AfterGap[k].confirmed = sessions[k].confirmed
<1> DEFINE gap == [from |-> lastTick, to |-> now]
<1>1. gap \in Gap
  BY DEF BaseInv, TypeOK, Gap
<1>2. AfterGap = [k \in Keys |-> IF Has(sessions, k) /\ IsGap
                                 THEN WithGap(sessions[k], gap) ELSE sessions[k]]
  BY DEF AfterGap
<1> HIDE DEF gap
<1>3. \A k \in Keys : Has(sessions, k) => sessions[k] \in Session
  BY DEF BaseInv, TypeOK, Sessions, Has
<1>4. \A k \in Keys : Has(sessions, k) =>
         /\ AfterGap[k] \in Session
         /\ AfterGap[k].start = sessions[k].start
         /\ AfterGap[k].confirmed = sessions[k].confirmed
  BY <1>1, <1>2, <1>3, WithGapType
<1>5. \A k \in Keys : ~Has(sessions, k) => AfterGap[k] = None
  BY <1>2 DEF Has
<1>6. AfterGap \in Sessions
  BY <1>2, <1>4, <1>5 DEF Sessions
<1> QED
  BY <1>4, <1>5, <1>6, NoSession DEF Has

\* A tick opens a candidate, goes on with a session, or drops a candidate.
LEMMA AfterTickType ==
    ASSUME BaseInv, NEW k \in Keys, NEW act
    PROVE  /\ AfterTick(k, AfterGap[k], act) \in Session \cup {None}
           /\ AfterTick(k, AfterGap[k], act) # None =>
                 \/ /\ Has(sessions, k)
                    /\ AfterTick(k, AfterGap[k], act).start = sessions[k].start
                    /\ sessions[k].confirmed => AfterTick(k, AfterGap[k], act).confirmed
                 \/ /\ ~Has(sessions, k) /\ ~Has(pending, k)
                    /\ AfterTick(k, AfterGap[k], act).start = now
           /\ Confirmed(sessions, k) => AfterTick(k, AfterGap[k], act) # None
<1> DEFINE rec == AfterGap[k]
           base == IF rec = None THEN NewSession(now) ELSE rec
           dt == Counted(sessTick, now)
<1>1. /\ rec \in Session \cup {None}
      /\ rec # None <=> Has(sessions, k)
      /\ rec # None => /\ rec \in Session
                       /\ rec.start = sessions[k].start
                       /\ rec.confirmed = sessions[k].confirmed
  <2>1. AfterGap \in Sessions
    BY AfterGapType
  <2> QED
    BY <2>1, AfterGapType DEF Has, Sessions
<1>2. now \in Nat /\ dt \in Nat
  BY CountedType DEF BaseInv, TypeOK, ClockInv
<1>3. base \in Session /\ (rec # None => base = rec) /\ (rec = None => base.start = now)
  BY <1>1, <1>2, NewSessionType DEF NewSession
<1> HIDE DEF base, dt
<1>4. /\ Sampled(base, dt, now) \in Session
      /\ Sampled(base, dt, now).start = base.start
      /\ base.confirmed => Sampled(base, dt, now).confirmed
  BY <1>2, <1>3, SampledType
<1>5. AfterTick(k, rec, act) =
         IF Has(pending, k) THEN rec
         ELSE IF k \in act THEN Sampled(base, dt, now)
         ELSE IF rec # None /\ ~rec.confirmed THEN None ELSE rec
  BY DEF AfterTick, base, dt
<1> HIDE DEF rec
<1>6. AfterTick(k, rec, act) \in Session \cup {None}
  BY <1>1, <1>4, <1>5
<1>7. ASSUME AfterTick(k, rec, act) # None
      PROVE  \/ /\ Has(sessions, k)
                /\ AfterTick(k, rec, act).start = sessions[k].start
                /\ sessions[k].confirmed => AfterTick(k, rec, act).confirmed
             \/ /\ ~Has(sessions, k) /\ ~Has(pending, k)
                /\ AfterTick(k, rec, act).start = now
  BY <1>1, <1>3, <1>4, <1>5, <1>7
<1>8. Confirmed(sessions, k) => AfterTick(k, rec, act) # None
  BY <1>1, <1>4, <1>5, NoSession DEF Confirmed
<1> QED
  BY <1>6, <1>7, <1>8 DEF rec

LEMMA LastTicksType ==
    ASSUME NEW seq \in Seq(Nat) PROVE LastTicks(seq) \in Seq(Nat)
<1>1. Len(seq) \in Nat
  BY LenProperties
<1>2. CASE Len(seq) > Samples
  <2>1. Len(seq) - Samples + 1 \in Int /\ Len(seq) - Samples + 1 >= 1
    BY <1>1, <1>2, SessionConstants
  <2>2. \A i \in Len(seq) - Samples + 1 .. Len(seq) : seq[i] \in Nat
    BY <1>1, <2>1, ElementOfSeq
  <2>3. SubSeq(seq, Len(seq) - Samples + 1, Len(seq)) \in Seq(Nat)
    BY <1>1, <2>1, <2>2, SubSeqProperties
  <2> QED
    BY <1>2, <2>3 DEF LastTicks
<1>3. CASE ~(Len(seq) > Samples)
  BY <1>3 DEF LastTicks
<1> QED
  BY <1>2, <1>3

LEMMA BaseTick ==
    ASSUME BaseInv, Observe \/ TickAborts \/ TickEnds
    PROVE  BaseInv'
<1>1. CASE Observe
  <2>1. PICK seen \in SUBSET Keys : \E act \in SUBSET seen : ObserveTick(seen, act)
    BY <1>1 DEF Observe
  <2>2. PICK act \in SUBSET seen : ObserveTick(seen, act)
    BY <2>1
  <2>3. sessions' \in Sessions
    BY <2>2, AfterTickType DEF ObserveTick, Sessions
  <2>4. activity' \in [Keys -> Activity \cup {None}]
    <3>1. ASSUME NEW k \in Keys PROVE [at |-> now, active |-> k \in act] \in Activity
      BY DEF BaseInv, TypeOK, Activity
    <3> QED
      BY <2>2, <3>1 DEF ObserveTick, BaseInv, TypeOK
  <2>5. streak' \in [Keys -> Seq(Nat)]
    <3>1. ASSUME NEW k \in Keys PROVE LastTicks(Append(streak[k], now)) \in Seq(Nat)
      <4>1. Append(streak[k], now) \in Seq(Nat)
        BY AppendProperties DEF BaseInv, TypeOK
      <4> QED
        BY <4>1, LastTicksType
    <3>2. <<>> \in Seq(Nat)
      BY EmptySeq
    <3> QED
      BY <2>2, <3>1, <3>2 DEF ObserveTick
  <2>6. outages' \in SUBSET Gap /\ now' = now /\ lastTick' = now /\ sessTick' = now
        /\ now \in Nat
    <3>1. [from |-> lastTick, to |-> now] \in Gap
      BY DEF BaseInv, TypeOK, Gap
    <3> QED
      BY <2>2, <3>1 DEF ObserveTick, Ticks, clockVars, BaseInv, TypeOK
  <2>7. ClockInv' /\ StoppedInv'
    BY <2>2, <2>6 DEF ObserveTick, Ticks, Idle, procVars, ClockInv, StoppedInv
  <2>8. dirty' \in BOOLEAN
    BY <2>2 DEF ObserveTick
  <2> QED
    BY <2>2, <2>3, <2>4, <2>5, <2>6, <2>7, <2>8
       DEF ObserveTick, clockVars, procVars, diskVars, BaseInv, TypeOK
<1>2. CASE TickAborts
  <2>1. sessions' \in Sessions
    BY <1>2, AfterGapType DEF TickAborts
  <2>2. outages' \in SUBSET Gap /\ now' = now /\ lastTick' = now /\ sessTick' = sessTick
        /\ now \in Nat
    <3>1. [from |-> lastTick, to |-> now] \in Gap
      BY DEF BaseInv, TypeOK, Gap
    <3> QED
      BY <1>2, <3>1 DEF TickAborts, Ticks, clockVars, BaseInv, TypeOK
  <2>3. ClockInv' /\ StoppedInv'
    BY <1>2, <2>2 DEF TickAborts, Ticks, Idle, procVars, BaseInv, TypeOK, ClockInv, StoppedInv
  <2>4. dirty' \in BOOLEAN
    BY <1>2 DEF TickAborts
  <2> QED
    BY <1>2, <2>1, <2>2, <2>3, <2>4
       DEF TickAborts, clockVars, procVars, diskVars, BaseInv, TypeOK
<1>3. CASE TickEnds
  <2>1. sessions' \in Sessions
    <3>1. ASSUME NEW k \in Keys, Confirmed(sessions, k)
          PROVE  [sessions[k] EXCEPT !.incidents =
                    @ \cup {inc \in incidents \ linked : inc.workload = k}] \in Session
      <4>1. sessions[k] \in Session
        BY <3>1 DEF BaseInv, TypeOK, Sessions, Confirmed, Has
      <4>2. {inc \in incidents \ linked : inc.workload = k} \in SUBSET Incident
        BY DEF BaseInv, TypeOK
      <4> QED
        BY <4>1, <4>2 DEF Session
    <3> QED
      BY <1>3, <3>1 DEF TickEnds, BaseInv, TypeOK, Sessions
  <2>2. linked' \in SUBSET Incident
    BY <1>3 DEF TickEnds, LookedAt, BaseInv, TypeOK
  <2>3. StoppedInv'
    BY <1>3 DEF TickEnds, procVars, BaseInv, StoppedInv
  <2>4. dirty' \in BOOLEAN
    BY <1>3 DEF TickEnds
  <2> QED
    BY <1>3, <2>1, <2>2, <2>3, <2>4
       DEF TickEnds, clockVars, procVars, diskVars, BaseInv, TypeOK, ClockInv
<1> QED
  BY <1>1, <1>2, <1>3

LEMMA BaseClosing ==
    ASSUME BaseInv, NEW k \in Keys, IncidentCloses(k) \/ CloseIdle(k) \/ Reconcile(k)
    PROVE  BaseInv'
<1>0. now \in Nat /\ sessions \in Sessions /\ pending \in Sessions
  BY DEF BaseInv, TypeOK
<1>1. CASE IncidentCloses(k)
  <2>1. incidents' \in SUBSET Incident
    BY <1>1 DEF IncidentCloses, BaseInv, TypeOK, Incident
  <2> QED
    BY <1>1, <2>1 DEF IncidentCloses, clockVars, procVars, tickVars, BaseInv, TypeOK,
       ClockInv, StoppedInv
<1>2. CASE CloseIdle(k)
  <2> DEFINE rec == Finalized(k, sessions[k], now, FALSE, None)
  <2>1. sessions[k] \in Session
    BY <1>0, <1>2 DEF CloseIdle, IdleTooLong, Confirmed, Has, Sessions
  <2>2. rec \in Completed
    BY <1>0, <2>1, FinalizedType
  <2>3. /\ sessions' = [sessions EXCEPT ![k] = None]
        /\ io' = <<AppendOf(rec), SaveOf(sessions', pending)>>
    BY <1>2 DEF CloseIdle
  <2> HIDE DEF rec
  <2>4. sessions' \in Sessions
    BY <1>0, <2>3 DEF Sessions
  <2>5. io' \in Seq(Op)
    <3>1. AppendOf(rec) \in Op /\ SaveOf(sessions', pending) \in Op
      BY <1>0, <2>2, <2>4, OpTypes
    <3> QED
      BY <2>3, <3>1
  <2>6. StoppedInv'
    BY <1>2 DEF CloseIdle, procVars, BaseInv, StoppedInv
  <2> QED
    BY <1>2, <2>4, <2>5, <2>6 DEF CloseIdle, clockVars, procVars, tickVars, diskVars,
       BaseInv, TypeOK, ClockInv, Op
<1>3. ASSUME ResumeRestored(k) \/ CloseRestored(k)
      PROVE  /\ pending[k] \in Session /\ pending' \in Sessions
             /\ RestartGap(k) \in Gap
             /\ StoppedInv'
  <2>1. /\ Has(pending, k) /\ pending' = [pending EXCEPT ![k] = None]
        /\ phase = "reconcile" /\ up' = up
    BY <1>3 DEF ResumeRestored, CloseRestored, procVars
  <2>2. pending[k] \in Session
    BY <1>0, <2>1 DEF Has, Sessions
  <2>3. pending' \in Sessions
    BY <1>0, <2>1 DEF Sessions
  <2>4. RestartGap(k) \in Gap
    BY <1>0, <2>2 DEF RestartGap, Gap, Session
  <2>5. StoppedInv'
    BY <2>1 DEF BaseInv, StoppedInv
  <2> QED
    BY <2>2, <2>3, <2>4, <2>5
<1>4. CASE ResumeRestored(k)
  <2>1. activity[k].at \in Nat
    BY <1>4 DEF ResumeRestored, StillActive, Has, BaseInv, TypeOK, Activity
  <2>2. Resumed(pending[k], RestartGap(k), activity[k].at) \in Session
    BY <1>3, <1>4, <2>1, ResumedType
  <2>3. sessions' \in Sessions
    BY <1>0, <1>4, <2>2 DEF ResumeRestored, Sessions
  <2> QED
    BY <1>3, <1>4, <2>3 DEF ResumeRestored, clockVars, procVars, tickVars, diskVars,
       BaseInv, TypeOK, ClockInv
<1>5. CASE CloseRestored(k)
  <2> DEFINE rec == Finalized(k, pending[k], now, TRUE, RestartGap(k))
  <2>1. rec \in Completed
    BY <1>0, <1>3, <1>5, FinalizedType
  <2>2. io' = <<AppendOf(rec), SaveOf(sessions, pending')>>
    BY <1>5 DEF CloseRestored
  <2> HIDE DEF rec
  <2>3. io' \in Seq(Op)
    <3>1. AppendOf(rec) \in Op /\ SaveOf(sessions, pending') \in Op
      BY <1>0, <1>3, <1>5, <2>1, OpTypes
    <3> QED
      BY <2>2, <3>1
  <2> QED
    BY <1>3, <1>5, <2>3 DEF CloseRestored, clockVars, procVars, tickVars, diskVars,
       BaseInv, TypeOK, ClockInv, Op
<1> QED
  BY <1>1, <1>2, <1>4, <1>5 DEF Reconcile

LEMMA BaseCallbacks ==
    ASSUME BaseInv, ReconcileBegin \/ ReconcileEnds \/ Flush \/ CloseApp
    PROVE  BaseInv'
<1>1. io' \in Seq(Op)
  <2>1. CASE io' = io
    BY <2>1 DEF BaseInv, TypeOK, Op
  <2>2. CASE io' = <<SaveOf(sessions, pending)>>
    <3>1. SaveOf(sessions, pending) \in Op
      BY MergedKeeps DEF SaveOf, Op, BaseInv, TypeOK
    <3> QED
      BY <2>2, <3>1
  <2> QED
    BY <2>1, <2>2 DEF ReconcileBegin, ReconcileEnds, Flush, CloseApp
<1>2. up /\ up' = up
  BY DEF ReconcileBegin, ReconcileEnds, Flush, CloseApp, Idle, procVars, BaseInv, StoppedInv
<1> QED
  BY <1>1, <1>2 DEF ReconcileBegin, ReconcileEnds, Flush, CloseApp, clockVars, procVars,
     tickVars, diskVars, BaseInv, TypeOK, ClockInv, StoppedInv, Op

LEMMA BaseNext == BaseInv /\ [Next]_vars => BaseInv'
<1> SUFFICES ASSUME BaseInv, [Next]_vars PROVE BaseInv'
  OBVIOUS
<1>1. CASE UNCHANGED vars
  BY <1>1 DEF vars, BaseInv, TypeOK, ClockInv, StoppedInv
<1>2. CASE Next
  BY <1>2, BaseEnvironment, BaseDisk, BaseTick, BaseClosing, BaseCallbacks DEF Next
<1> QED
  BY <1>1, <1>2

LEMMA BaseInvariant == Spec => []BaseInv
BY BaseInit, BaseNext, PTL DEF Spec

\* Whatever the workloads do, and whenever the program is killed, every variable of
\* the session engine keeps a value of its kind.
THEOREM TypeCorrect == Spec => []TypeOK
<1>1. BaseInv => TypeOK
  BY DEF BaseInv
<1> QED
  BY <1>1, BaseInvariant, PTL

-----------------------------------------------------------------------------
(* The sessions of a workload are disjoint, over all the lives of the      *)
(* program.  Memory is easy: a session ends before another can begin.  It  *)
(* is the active file that brings sessions back, and it may be older than  *)
(* the history; what saves the order is that it only ever names a session  *)
(* that is still open or one the history has, which load_active_sessions   *)
(* looks up.                                                               *)

\* The record a callback is adding to the history.
Closing == IF io # <<>> /\ Head(io).op = "append" THEN {Head(io).rec} ELSE {}

Ended == Records \cup Closing

GoneIds == {rec.id : rec \in Ended}

\* A restored session has no other beside it before it is reconciled.
OneOpen == \A k \in Keys : ~(Has(sessions, k) /\ Has(pending, k))

\* Only confirmed sessions reach the disk.
RestoredConfirmed ==
    \A k \in Keys : \A d \in {pending, snapshot} : Has(d, k) => d[k].confirmed

\* Sessions begin in a tick; they end in the past.
TimesInv ==
    /\ \A k \in Keys : \A d \in {sessions, pending, snapshot} :
          Has(d, k) => d[k].start <= lastTick
    /\ \A rec \in Ended : rec.id[2] <= lastTick /\ rec.end <= now

\* An open session is later than all that have ended, and none of them.
OpenIsLatest ==
    \A k \in Keys : \A d \in {sessions, pending} : Has(d, k) =>
        \A rec \in Ended : rec.id[1] = k =>
            rec.end <= d[k].start /\ rec.id[2] # d[k].start

\* The one that is being completed is later than the others.
ClosingIsLatest ==
    \A rec \in Closing : \A old \in Records : old.id[1] = rec.id[1] =>
        old.end <= rec.id[2] /\ old.id # rec.id

HistoryInOrder ==
    \A i, j \in DOMAIN history :
        i < j /\ history[i].id[1] = history[j].id[1] => history[i].end <= history[j].id[2]

\* Writes to be made: one append at most, first, and saves of what is in memory.
WritesInv ==
    /\ \A i \in DOMAIN io : io[i].op = "append" => i = 1
    /\ \A i \in DOMAIN io : io[i].op = "save" => io[i].snap = Merged(sessions, pending)

\* What the active file names is open, or has ended.
FileIsKnown ==
    up => \A k \in Keys : Has(snapshot, k) =>
        \/ <<k, snapshot[k].start>> \in GoneIds
        \/ Confirmed(sessions, k) /\ sessions[k].start = snapshot[k].start
        \/ Has(pending, k) /\ pending[k].start = snapshot[k].start

\* And what it brings back has ended, or is later than all that have.
FileIsLatest ==
    \A k \in Keys : Has(snapshot, k) =>
        \/ <<k, snapshot[k].start>> \in HistoryIds
        \/ \A rec \in Records : rec.id[1] = k =>
              rec.end <= snapshot[k].start /\ rec.id[2] # snapshot[k].start

SessInv ==
    /\ BaseInv
    /\ OneOpen
    /\ RestoredConfirmed
    /\ TimesInv
    /\ OpenIsLatest
    /\ ClosingIsLatest
    /\ HistoryInOrder
    /\ WritesInv
    /\ FileIsKnown
    /\ FileIsLatest

LEMMA RecordTypes ==
    ASSUME BaseInv
    PROVE  /\ Records \subseteq Completed /\ Closing \subseteq Completed
           /\ Ended \subseteq Completed
           /\ HistoryIds = {rec.id : rec \in Records}
           /\ \A rec \in Completed :
                 /\ rec.id \in Keys \X Nat /\ rec.id = <<rec.id[1], rec.id[2]>>
                 /\ rec.id[1] \in Keys /\ rec.id[2] \in Nat /\ rec.end \in Nat
<1>1. history \in Seq(Completed) /\ io \in Seq(Op)
  BY DEF BaseInv, TypeOK, Op
<1>2. Records \subseteq Completed
  <2>1. DOMAIN history = 1 .. Len(history)
    BY <1>1, LenProperties
  <2>2. \A i \in DOMAIN history : history[i] \in Completed
    BY <1>1, <2>1, ElementOfSeq
  <2> QED
    BY <2>2 DEF Records
<1>3. Closing \subseteq Completed
  BY <1>1, WritesLeft DEF Closing
<1>4. HistoryIds = {rec.id : rec \in Records}
  BY DEF HistoryIds, Records
<1>5. \A rec \in Completed :
         /\ rec.id \in Keys \X Nat /\ rec.id = <<rec.id[1], rec.id[2]>>
         /\ rec.id[1] \in Keys /\ rec.id[2] \in Nat /\ rec.end \in Nat
  BY DEF Completed
<1> QED
  BY <1>2, <1>3, <1>4, <1>5 DEF Ended

LEMMA SessInit == Init => SessInv
<1> SUFFICES ASSUME Init PROVE SessInv
  OBVIOUS
<1>1. /\ io = <<>> /\ history = <<>> /\ DOMAIN history = {}
      /\ sessions = Empty /\ pending = Empty /\ snapshot = Empty
  BY DEF Init
<1>2. Records = {} /\ Closing = {} /\ Ended = {}
  BY <1>1 DEF Records, Closing, Ended
<1>3. \A k \in Keys : ~Has(sessions, k) /\ ~Has(pending, k) /\ ~Has(snapshot, k)
  BY <1>1, EmptyTypes
<1> QED
  BY <1>1, <1>2, <1>3, BaseInit DEF SessInv, OneOpen, RestoredConfirmed, TimesInv,
     OpenIsLatest, ClosingIsLatest, HistoryInOrder, WritesInv, FileIsKnown, FileIsLatest

\* A callback that completes nothing and at most saves.
LEMMA SessQuiet ==
    ASSUME SessInv, BaseInv', up,
           history' = history, snapshot' = snapshot, io = <<>>,
           io' = <<>> \/ io' = <<SaveOf(sessions', pending')>>,
           lastTick <= lastTick', now <= now',
           \A k \in Keys : Has(sessions', k) =>
              \/ Has(sessions, k) /\ sessions'[k].start = sessions[k].start
              \/ /\ Has(pending, k) /\ ~Has(pending', k)
                 /\ sessions'[k].start = pending[k].start
              \/ /\ ~Has(pending, k) /\ sessions'[k].start = now
                 /\ lastTick < now /\ lastTick' = now,
           \A k \in Keys : Has(pending', k) => Has(pending, k) /\ pending'[k] = pending[k],
           \A k \in Keys : Confirmed(sessions, k) =>
              Confirmed(sessions', k) /\ sessions'[k].start = sessions[k].start,
           \A k \in Keys : Has(pending, k) =>
              \/ Has(pending', k)
              \/ Confirmed(sessions', k) /\ sessions'[k].start = pending[k].start
    PROVE  SessInv'
<1>1. /\ now \in Nat /\ lastTick \in Nat /\ now' \in Nat /\ lastTick' \in Nat
      /\ sessions \in Sessions /\ pending \in Sessions /\ snapshot \in Sessions
      /\ lastTick <= now
  BY DEF SessInv, BaseInv, TypeOK, ClockInv
<1>2. Records' = Records /\ Closing = {} /\ Closing' = {} /\ HistoryIds' = HistoryIds
  <2>1. SaveOf(sessions', pending').op = "save"
    BY DEF SaveOf
  <2> QED
    BY <2>1 DEF Records, Closing, HistoryIds
<1>3. Ended' = Ended /\ GoneIds' = GoneIds
  BY <1>2 DEF Ended, GoneIds
<1>4. \A k \in Keys : \A d \in {sessions, pending, snapshot} :
         Has(d, k) => d[k].start \in Nat
  BY <1>1 DEF Sessions, Session, Has
<1>5. \A rec \in Ended : rec.id[2] \in Nat /\ rec.end \in Nat
  BY RecordTypes DEF SessInv
<1>6. OneOpen'
  BY DEF SessInv, OneOpen
<1>7. RestoredConfirmed'
  BY DEF SessInv, RestoredConfirmed, Has
<1>8. TimesInv'
  <2>1. \A rec \in Ended' : rec.id[2] <= lastTick' /\ rec.end <= now'
    BY <1>1, <1>3, <1>5 DEF SessInv, TimesInv
  <2>2. ASSUME NEW k \in Keys, Has(snapshot', k) PROVE snapshot'[k].start <= lastTick'
    BY <1>1, <1>4, <2>2 DEF SessInv, TimesInv, Has
  <2>3. ASSUME NEW k \in Keys, Has(pending', k) PROVE pending'[k].start <= lastTick'
    BY <1>1, <1>4, <2>3 DEF SessInv, TimesInv
  <2>4. ASSUME NEW k \in Keys, Has(sessions', k) PROVE sessions'[k].start <= lastTick'
    BY <1>1, <1>4, <2>4 DEF SessInv, TimesInv
  <2> QED
    BY <2>1, <2>2, <2>3, <2>4 DEF TimesInv
<1>9. OpenIsLatest'
  <2>1. ASSUME NEW k \in Keys, Has(pending', k), NEW rec \in Ended, rec.id[1] = k
        PROVE  rec.end <= pending'[k].start /\ rec.id[2] # pending'[k].start
    BY <2>1 DEF SessInv, OpenIsLatest
  <2>2. ASSUME NEW k \in Keys, Has(sessions', k), NEW rec \in Ended, rec.id[1] = k
        PROVE  rec.end <= sessions'[k].start /\ rec.id[2] # sessions'[k].start
    <3>1. CASE sessions'[k].start = now /\ lastTick < now
      BY <1>1, <1>5, <2>2, <3>1 DEF SessInv, TimesInv
    <3>2. CASE \/ Has(sessions, k) /\ sessions'[k].start = sessions[k].start
               \/ Has(pending, k) /\ sessions'[k].start = pending[k].start
      BY <2>2, <3>2 DEF SessInv, OpenIsLatest
    <3> QED
      BY <2>2, <3>1, <3>2
  <2> QED
    BY <1>3, <2>1, <2>2 DEF OpenIsLatest
<1>10. ClosingIsLatest' /\ HistoryInOrder'
  BY <1>2 DEF ClosingIsLatest, HistoryInOrder, SessInv
<1>11. WritesInv'
  <2>1. CASE io' = <<>>
    BY <2>1 DEF WritesInv
  <2>2. CASE io' = <<SaveOf(sessions', pending')>>
    <3> DEFINE save == SaveOf(sessions', pending')
    <3>1. save.op = "save" /\ save.snap = Merged(sessions', pending')
      BY DEF SaveOf
    <3> HIDE DEF save
    <3>2. io' = <<save>>
      BY <2>2 DEF save
    <3> QED
      BY <3>1, <3>2 DEF WritesInv
  <2> QED
    BY <2>1, <2>2
<1>12. FileIsKnown'
  <2> SUFFICES ASSUME NEW k \in Keys, Has(snapshot, k)
               PROVE  \/ <<k, snapshot[k].start>> \in GoneIds
                      \/ /\ Confirmed(sessions', k)
                         /\ sessions'[k].start = snapshot[k].start
                      \/ Has(pending', k) /\ pending'[k].start = snapshot[k].start
    BY <1>3 DEF FileIsKnown, Has
  <2> QED
    BY DEF SessInv, FileIsKnown
<1>13. FileIsLatest'
  BY <1>2 DEF SessInv, FileIsLatest, Has
<1> QED
  BY <1>6, <1>7, <1>8, <1>9, <1>10, <1>11, <1>12, <1>13 DEF SessInv

\* The session that d has of workload k leaves the memory for the history.
LEMMA SessCompletes ==
    ASSUME SessInv, BaseInv', up, NEW k \in Keys, NEW d \in {sessions, pending},
           Has(d, k), NEW rec \in Completed,
           rec.id = <<k, d[k].start>>, rec.end = now,
           history' = history, snapshot' = snapshot, io = <<>>,
           io' = <<AppendOf(rec), SaveOf(sessions', pending')>>,
           lastTick' = lastTick, now' = now, up' = up,
           ~Has(sessions', k), ~Has(pending', k),
           \A j \in Keys \ {k} : sessions'[j] = sessions[j] /\ pending'[j] = pending[j]
    PROVE  SessInv'
<1> DEFINE append == AppendOf(rec)
           save == SaveOf(sessions', pending')
<1>1. /\ append.op = "append" /\ append.rec = rec
      /\ save.op = "save" /\ save.snap = Merged(sessions', pending')
  BY DEF AppendOf, SaveOf
<1> HIDE DEF append, save
<1>2. io' = <<append, save>>
  BY DEF append, save
<1>3. Records' = Records /\ HistoryIds' = HistoryIds /\ Closing = {} /\ Closing' = {rec}
  BY <1>1, <1>2 DEF Records, HistoryIds, Closing
<1>4. Ended = Records /\ Ended' = Records \cup {rec} /\ GoneIds' = GoneIds \cup {rec.id}
  BY <1>3 DEF Ended, GoneIds
<1>5. WritesInv'
  BY <1>1, <1>2 DEF WritesInv
<1>6. rec.id[1] = k /\ rec.id[2] = d[k].start
  OBVIOUS
<1>7. OneOpen' /\ RestoredConfirmed'
  BY DEF SessInv, OneOpen, RestoredConfirmed, Has
<1>8. TimesInv'
  <2>1. now \in Nat /\ \A old \in Records : old.end \in Nat
    BY RecordTypes DEF SessInv, BaseInv, TypeOK
  <2>2. \A old \in Ended' : old.id[2] <= lastTick' /\ old.end <= now'
    BY <1>4, <1>6, <2>1 DEF SessInv, TimesInv
  <2>3. \A j \in Keys : \A e \in {sessions', pending', snapshot'} :
           Has(e, j) => e[j].start <= lastTick'
    BY DEF SessInv, TimesInv, Has
  <2> QED
    BY <2>2, <2>3 DEF TimesInv
<1>9. OpenIsLatest'
  BY <1>4, <1>6 DEF SessInv, OpenIsLatest, Has
<1>10. ClosingIsLatest'
  BY <1>3, <1>4, <1>6 DEF SessInv, OpenIsLatest, ClosingIsLatest
<1>11. HistoryInOrder' /\ FileIsLatest'
  BY <1>3 DEF SessInv, HistoryInOrder, FileIsLatest, Has
<1>12. FileIsKnown'
  <2> SUFFICES ASSUME NEW j \in Keys, Has(snapshot, j)
               PROVE  \/ <<j, snapshot[j].start>> \in GoneIds'
                      \/ /\ Confirmed(sessions', j)
                         /\ sessions'[j].start = snapshot[j].start
                      \/ Has(pending', j) /\ pending'[j].start = snapshot[j].start
    BY DEF FileIsKnown, Has
  <2>1. CASE j = k
    BY <1>4, <2>1 DEF SessInv, FileIsKnown, OneOpen, Confirmed
  <2>2. CASE j # k
    BY <1>4, <2>2 DEF SessInv, FileIsKnown, Confirmed, Has
  <2> QED
    BY <2>1, <2>2
<1> QED
  BY <1>5, <1>7, <1>8, <1>9, <1>10, <1>11, <1>12 DEF SessInv

\* The writes of a callback.
LEMMA SessDisk ==
    ASSUME SessInv, BaseInv', AppendSession \/ SaveSnapshot
    PROVE  SessInv'
<1>1. /\ io \in Seq(Op) /\ io # <<>> /\ io' = Tail(io) /\ up /\ up' = up
      /\ now' = now /\ lastTick' = lastTick
      /\ sessions' = sessions /\ pending' = pending
      /\ sessions \in Sessions /\ pending \in Sessions
      /\ history \in Seq(Completed)
  BY DEF AppendSession, SaveSnapshot, clockVars, procVars, tickVars, SessInv, BaseInv,
     TypeOK, StoppedInv, Op
<1>2. WritesInv' /\ Closing' = {}
  <2>1. \A i \in DOMAIN io' : i + 1 \in DOMAIN io /\ i + 1 # 1 /\ io'[i] = io[i + 1]
    BY <1>1, WritesLeft
  <2>2. \A i \in DOMAIN io' : io'[i].op # "append"
    BY <2>1 DEF SessInv, WritesInv
  <2>3. io' # <<>> => 1 \in DOMAIN io' /\ Head(io') = io'[1]
    BY <1>1, WritesLeft
  <2> QED
    BY <1>1, <2>1, <2>2, <2>3 DEF SessInv, WritesInv, Closing
<1>3. OneOpen'
  BY <1>1 DEF SessInv, OneOpen
<1>4. CASE AppendSession
  <2> DEFINE rec == Head(io).rec
  <2>1. Closing = {rec} /\ history' = Append(history, rec) /\ snapshot' = snapshot
    BY <1>1, <1>4 DEF AppendSession, Closing
  <2>2. rec \in Completed
    BY <2>1, RecordTypes DEF SessInv
  <2> HIDE DEF rec
  <2>3. /\ Len(history) \in Nat /\ DOMAIN history = 1 .. Len(history)
        /\ DOMAIN history' = 1 .. Len(history) + 1
        /\ \A i \in 1 .. Len(history) : history'[i] = history[i]
        /\ history'[Len(history) + 1] = rec
    BY <1>1, <2>1, <2>2, AppendProperties, LenProperties
  <2>4. Records' = Records \cup {rec} /\ HistoryIds' = HistoryIds \cup {rec.id}
    BY <2>3 DEF Records, HistoryIds
  <2>5. Ended' = Ended /\ GoneIds' = GoneIds /\ HistoryIds' = GoneIds
    BY <1>2, <2>1, <2>4, RecordTypes DEF Ended, GoneIds, SessInv
  <2>6. HistoryInOrder'
    <3>1. ASSUME NEW i \in DOMAIN history', NEW j \in DOMAIN history', i < j,
                 history'[i].id[1] = history'[j].id[1]
          PROVE  history'[i].end <= history'[j].id[2]
      <4>1. i \in DOMAIN history /\ history'[i] = history[i] /\ history[i] \in Records
        BY <2>3, <3>1 DEF Records
      <4>2. CASE j \in DOMAIN history
        BY <2>3, <3>1, <4>1, <4>2 DEF SessInv, HistoryInOrder
      <4>3. CASE j = Len(history) + 1
        BY <2>1, <2>3, <3>1, <4>1, <4>3 DEF SessInv, ClosingIsLatest
      <4> QED
        BY <2>3, <4>2, <4>3
    <3> QED
      BY <3>1 DEF HistoryInOrder
  <2>7. RestoredConfirmed' /\ TimesInv' /\ OpenIsLatest' /\ ClosingIsLatest' /\ FileIsKnown'
    BY <1>1, <1>2, <2>1, <2>5 DEF SessInv, RestoredConfirmed, TimesInv, OpenIsLatest,
       ClosingIsLatest, FileIsKnown
  <2>8. FileIsLatest'
    <3>1. ASSUME NEW k \in Keys, Has(snapshot, k), <<k, snapshot[k].start>> \notin GoneIds,
                 NEW old \in Ended, old.id[1] = k
          PROVE  old.end <= snapshot[k].start /\ old.id[2] # snapshot[k].start
      BY <1>1, <3>1 DEF SessInv, FileIsKnown, OpenIsLatest, Confirmed
    <3>2. Records' \subseteq Ended
      BY <2>1, <2>4 DEF Ended
    <3> QED
      BY <2>1, <2>5, <3>1, <3>2 DEF FileIsLatest
  <2> QED
    BY <1>2, <1>3, <2>6, <2>7, <2>8 DEF SessInv
<1>5. CASE SaveSnapshot
  <2>1. history' = history /\ snapshot' = Merged(sessions, pending) /\ Closing = {}
    BY <1>1, <1>5, WritesLeft DEF SaveSnapshot, SessInv, WritesInv, Closing
  <2>2. Records' = Records /\ HistoryIds' = HistoryIds /\ Ended' = Ended
        /\ GoneIds' = GoneIds /\ Ended = Records
    BY <1>2, <2>1 DEF Records, HistoryIds, Ended, GoneIds
  <2>3. \A k \in Keys : Has(snapshot', k) =>
           \/ /\ Has(pending, k)
              /\ snapshot'[k].start = pending[k].start
              /\ snapshot'[k].confirmed = pending[k].confirmed
           \/ /\ Confirmed(sessions, k)
              /\ snapshot'[k].start = sessions[k].start
              /\ snapshot'[k].confirmed = sessions[k].confirmed
    BY <1>1, <2>1, MergedKeeps
  <2>4. RestoredConfirmed'
    BY <1>1, <2>3 DEF SessInv, RestoredConfirmed, Confirmed
  <2>5. TimesInv'
    BY <1>1, <2>2, <2>3 DEF SessInv, TimesInv, Confirmed
  <2>6. OpenIsLatest' /\ ClosingIsLatest' /\ HistoryInOrder'
    BY <1>1, <1>2, <2>1, <2>2 DEF SessInv, OpenIsLatest, ClosingIsLatest, HistoryInOrder
  <2>7. FileIsKnown'
    BY <1>1, <2>3 DEF FileIsKnown
  <2>8. FileIsLatest'
    BY <2>2, <2>3 DEF SessInv, OpenIsLatest, FileIsLatest, Confirmed
  <2> QED
    BY <1>2, <1>3, <2>4, <2>5, <2>6, <2>7, <2>8 DEF SessInv
<1> QED
  BY <1>4, <1>5

\* The program ends, or is killed: only the files are left.
LEMMA SessStops ==
    ASSUME SessInv, BaseInv', Stopped,
           UNCHANGED <<clockVars, lastTick, sessTick, diskVars, outages>>
    PROVE  SessInv'
<1>1. /\ ~up' /\ io' = <<>> /\ sessions' = Empty /\ pending' = Empty
      /\ history' = history /\ snapshot' = snapshot
      /\ now' = now /\ lastTick' = lastTick
  BY DEF Stopped, clockVars, diskVars
<1>2. \A k \in Keys : ~Has(sessions', k) /\ ~Has(pending', k)
  BY <1>1, EmptyTypes
<1>3. /\ Records' = Records /\ HistoryIds' = HistoryIds /\ Closing' = {}
      /\ Ended' = Records /\ Records \subseteq Ended
  BY <1>1 DEF Records, HistoryIds, Closing, Ended
<1>4. OneOpen' /\ OpenIsLatest' /\ ClosingIsLatest' /\ FileIsKnown' /\ WritesInv'
  BY <1>1, <1>2, <1>3 DEF OneOpen, OpenIsLatest, ClosingIsLatest, FileIsKnown, WritesInv
<1>5. RestoredConfirmed' /\ TimesInv'
  BY <1>1, <1>2, <1>3 DEF SessInv, RestoredConfirmed, TimesInv
<1>6. HistoryInOrder' /\ FileIsLatest'
  BY <1>1, <1>3 DEF SessInv, HistoryInOrder, FileIsLatest
<1> QED
  BY <1>4, <1>5, <1>6 DEF SessInv

\* What is read back has not ended, for the history is asked, and is the latest of
\* its workload.
LEMMA SessStarts ==
    ASSUME SessInv, BaseInv', Start PROVE SessInv'
<1>1. /\ io = <<>> /\ io' = <<>> /\ up' /\ sessions' = Empty
      /\ history' = history /\ snapshot' = snapshot
      /\ now' = now /\ lastTick' = now
  BY DEF Start, diskVars, SessInv, BaseInv, StoppedInv
<1>2. /\ Records' = Records /\ HistoryIds' = HistoryIds /\ Closing' = {} /\ Closing = {}
      /\ Ended' = Records /\ Ended = Records /\ GoneIds' = HistoryIds
  BY <1>1, RecordTypes DEF Records, HistoryIds, Closing, Ended, GoneIds, SessInv
<1>3. \A k \in Keys :
         /\ ~Has(sessions', k)
         /\ Has(pending', k) => /\ Has(snapshot, k) /\ pending'[k] = snapshot[k]
                                /\ <<k, snapshot[k].start>> \notin HistoryIds
         /\ Has(snapshot, k) => \/ <<k, snapshot[k].start>> \in HistoryIds
                                \/ Has(pending', k) /\ pending'[k] = snapshot[k]
  BY <1>1, EmptyTypes DEF Start, Has
<1>4. /\ now \in Nat /\ lastTick \in Nat /\ lastTick <= now
      /\ \A k \in Keys : Has(snapshot, k) => snapshot[k].start \in Nat
      /\ \A rec \in Records : rec.id[2] \in Nat
  BY RecordTypes DEF SessInv, BaseInv, TypeOK, ClockInv, Sessions, Session, Has
<1>5. OneOpen' /\ ClosingIsLatest' /\ WritesInv' /\ HistoryInOrder'
  <2>1. OneOpen'
    BY <1>3 DEF OneOpen
  <2>2. ClosingIsLatest'
    BY <1>2 DEF ClosingIsLatest
  <2>3. WritesInv'
    BY <1>1 DEF WritesInv
  <2>4. HistoryInOrder'
    BY <1>1 DEF SessInv, HistoryInOrder
  <2> QED
    BY <2>1, <2>2, <2>3, <2>4
<1>6. RestoredConfirmed' /\ FileIsLatest'
  BY <1>1, <1>2, <1>3 DEF SessInv, RestoredConfirmed, FileIsLatest
<1>7. TimesInv'
  <2>1. \A k \in Keys : Has(snapshot, k) => snapshot[k].start <= now
    BY <1>4 DEF SessInv, TimesInv
  <2>2. ASSUME NEW rec \in Records PROVE rec.id[2] <= now /\ rec.end <= now
    <3>1. rec.id[2] <= lastTick /\ rec.end <= now
      BY <1>2 DEF SessInv, TimesInv
    <3>2. \A t \in Nat : t <= lastTick => t <= now
      BY <1>4
    <3>3. rec.id[2] \in Nat
      BY <1>4
    <3>4. rec.id[2] <= now
      BY <3>1, <3>2, <3>3
    <3> QED
      BY <3>1, <3>4
  <2> QED
    BY <1>1, <1>2, <1>3, <2>1, <2>2 DEF TimesInv
<1>8. OpenIsLatest'
  BY <1>2, <1>3 DEF SessInv, FileIsLatest, OpenIsLatest
<1>9. FileIsKnown'
  BY <1>1, <1>2, <1>3 DEF FileIsKnown
<1> QED
  BY <1>5, <1>6, <1>7, <1>8, <1>9 DEF SessInv

LEMMA SessAdvance ==
    ASSUME SessInv, BaseInv', Advance PROVE SessInv'
<1>1. /\ now' = now + 1 /\ lastTick' = lastTick /\ io' = io /\ up' = up
      /\ sessions' = sessions /\ pending' = pending
      /\ history' = history /\ snapshot' = snapshot
  BY DEF Advance, procVars, tickVars, diskVars
<1>2. Records' = Records /\ Closing' = Closing /\ Ended' = Ended
      /\ HistoryIds' = HistoryIds /\ GoneIds' = GoneIds
  BY <1>1 DEF Records, Closing, Ended, HistoryIds, GoneIds
<1>3. OneOpen' /\ RestoredConfirmed' /\ OpenIsLatest' /\ ClosingIsLatest'
  BY <1>1, <1>2 DEF SessInv, OneOpen, RestoredConfirmed, OpenIsLatest, ClosingIsLatest
<1>4. HistoryInOrder' /\ WritesInv' /\ FileIsKnown' /\ FileIsLatest'
  BY <1>1, <1>2 DEF SessInv, HistoryInOrder, WritesInv, FileIsKnown, FileIsLatest
<1>5. TimesInv'
  <2>1. now \in Nat /\ \A rec \in Ended : rec.end \in Nat
    BY RecordTypes DEF SessInv, BaseInv, TypeOK
  <2>2. \A rec \in Ended : rec.id[2] <= lastTick /\ rec.end <= now'
    BY <1>1, <2>1 DEF SessInv, TimesInv
  <2> QED
    BY <1>1, <1>2, <2>2 DEF SessInv, TimesInv
<1> QED
  BY <1>3, <1>4, <1>5 DEF SessInv

\* A tick may open a candidate or drop one; a confirmed session stays.
LEMMA SessTick ==
    ASSUME SessInv, BaseInv', Observe \/ TickAborts \/ TickEnds
    PROVE  SessInv'
<1>0. BaseInv /\ now \in Nat /\ lastTick \in Nat /\ lastTick <= now
  BY DEF SessInv, BaseInv, TypeOK, ClockInv
<1>1. CASE Observe
  <2>1. PICK seen \in SUBSET Keys : \E act \in SUBSET seen : ObserveTick(seen, act)
    BY <1>1 DEF Observe
  <2>2. PICK act \in SUBSET seen : ObserveTick(seen, act)
    BY <2>1
  <2>3. /\ up /\ io = <<>> /\ io' = <<>> /\ lastTick < now /\ lastTick' = now /\ now' = now
        /\ history' = history /\ snapshot' = snapshot /\ pending' = pending
        /\ sessions' = [k \in Keys |-> AfterTick(k, AfterGap[k], act)]
    BY <1>0, <2>2 DEF ObserveTick, Ticks, Idle, clockVars, diskVars
  <2>4. \A k \in Keys : Has(sessions', k) =>
           \/ Has(sessions, k) /\ sessions'[k].start = sessions[k].start
           \/ ~Has(pending, k) /\ sessions'[k].start = now
    BY <1>0, <2>3, AfterTickType DEF Has
  <2>5. \A k \in Keys : Confirmed(sessions, k) =>
           Confirmed(sessions', k) /\ sessions'[k].start = sessions[k].start
    BY <1>0, <2>3, AfterTickType DEF Has, Confirmed
  <2> QED
    BY <1>0, <2>3, <2>4, <2>5, SessQuiet
<1>2. CASE TickAborts
  <2>1. /\ up /\ io = <<>> /\ io' = <<>> /\ lastTick' = now /\ now' = now
        /\ history' = history /\ snapshot' = snapshot /\ pending' = pending
        /\ sessions' = AfterGap
    BY <1>2 DEF TickAborts, Ticks, Idle, clockVars, diskVars
  <2>2. \A k \in Keys :
           /\ Has(sessions', k) =>
                 Has(sessions, k) /\ sessions'[k].start = sessions[k].start
           /\ Confirmed(sessions, k) =>
                 Confirmed(sessions', k) /\ sessions'[k].start = sessions[k].start
    BY <1>0, <2>1, AfterGapType DEF Has, Confirmed
  <2> QED
    BY <1>0, <2>1, <2>2, SessQuiet
<1>3. CASE TickEnds
  <2>1. /\ up /\ io = <<>> /\ io' = <<>> /\ lastTick' = lastTick /\ now' = now
        /\ history' = history /\ snapshot' = snapshot /\ pending' = pending
    BY <1>0, <1>3 DEF TickEnds, clockVars, diskVars, BaseInv, StoppedInv
  <2>2. \A k \in Keys :
           /\ Has(sessions', k) =>
                 Has(sessions, k) /\ sessions'[k].start = sessions[k].start
           /\ Confirmed(sessions, k) =>
                 Confirmed(sessions', k) /\ sessions'[k].start = sessions[k].start
    <3> SUFFICES ASSUME NEW k \in Keys
                 PROVE  /\ Has(sessions', k) =>
                              Has(sessions, k) /\ sessions'[k].start = sessions[k].start
                        /\ Confirmed(sessions, k) =>
                              /\ Confirmed(sessions', k)
                              /\ sessions'[k].start = sessions[k].start
      OBVIOUS
    <3>1. CASE Confirmed(sessions, k)
      <4> DEFINE new == sessions[k].incidents
                           \cup {inc \in incidents \ linked : inc.workload = k}
      <4>1. sessions[k] \in Session /\ sessions'[k] \in Session \cup {None}
        BY <1>0, <3>1 DEF BaseInv, TypeOK, Sessions, Confirmed, Has
      <4>2. sessions'[k] = [sessions[k] EXCEPT !.incidents = new]
        BY <1>3, <3>1 DEF TickEnds
      <4> HIDE DEF new
      <4>3. /\ sessions'[k].start = sessions[k].start
            /\ sessions'[k].confirmed = sessions[k].confirmed
            /\ new = sessions'[k].incidents
        BY <4>1, <4>2 DEF Session
      <4>4. new \in SUBSET Incident
        BY <1>0, <4>1 DEF new, BaseInv, TypeOK, Session
      <4>5. sessions'[k] \in Session
        BY <4>1, <4>2, <4>4 DEF Session
      <4> QED
        BY <3>1, <4>3, <4>5, NoSession DEF Confirmed, Has
    <3>2. CASE ~Confirmed(sessions, k)
      BY <1>3, <3>2 DEF TickEnds, Has
    <3> QED
      BY <3>1, <3>2
  <2> QED
    BY <1>0, <2>1, <2>2, SessQuiet
<1> QED
  BY <1>1, <1>2, <1>3

\* Reconciling begins and ends, the flush, closing, and an incident that closes:
\* sessions and pending ones stay as they are.
LEMMA SessCallbacks ==
    ASSUME SessInv, BaseInv',
           \/ ReconcileBegin \/ ReconcileEnds \/ Flush \/ CloseApp
           \/ \E k \in Keys : IncidentCloses(k)
    PROVE  SessInv'
<1>1. /\ up /\ io = <<>> /\ lastTick' = lastTick /\ now' = now
      /\ history' = history /\ snapshot' = snapshot
      /\ pending' = pending /\ sessions' = sessions
      /\ io' = io \/ io' = <<SaveOf(sessions, pending)>>
  BY DEF ReconcileBegin, ReconcileEnds, Flush, CloseApp, IncidentCloses, Idle,
     clockVars, tickVars, diskVars, SessInv, BaseInv, StoppedInv
<1>2. now \in Nat /\ lastTick \in Nat
  BY DEF SessInv, BaseInv, TypeOK
<1>3. io' = <<>> \/ io' = <<SaveOf(sessions', pending')>>
  BY <1>1
<1>4. \A k \in Keys :
         /\ Has(sessions', k) <=> Has(sessions, k)
         /\ Has(pending', k) <=> Has(pending, k)
         /\ Confirmed(sessions', k) <=> Confirmed(sessions, k)
  BY <1>1
<1> QED
  BY <1>1, <1>2, <1>3, <1>4, SessQuiet

LEMMA SessReconcile ==
    ASSUME SessInv, BaseInv', NEW k \in Keys, CloseIdle(k) \/ Reconcile(k)
    PROVE  SessInv'
<1>0. /\ BaseInv /\ now \in Nat /\ lastTick \in Nat
      /\ sessions \in Sessions /\ pending \in Sessions
  BY DEF SessInv, BaseInv, TypeOK
<1>1. CASE CloseIdle(k)
  <2> DEFINE rec == Finalized(k, sessions[k], now, FALSE, None)
  <2>1. /\ up /\ up' = up /\ io = <<>> /\ lastTick' = lastTick /\ now' = now
        /\ history' = history /\ snapshot' = snapshot /\ pending' = pending
        /\ sessions' = [sessions EXCEPT ![k] = None]
        /\ Has(sessions, k) /\ ~Has(pending, k)
    BY <1>0, <1>1 DEF CloseIdle, IdleTooLong, Confirmed, clockVars, procVars, tickVars,
       diskVars, BaseInv, StoppedInv
  <2>2. io' = <<AppendOf(rec), SaveOf(sessions', pending')>>
    BY <1>1, <2>1 DEF CloseIdle
  <2>3. rec \in Completed /\ rec.id = <<k, sessions[k].start>> /\ rec.end = now
    <3>1. sessions[k] \in Session
      BY <1>0, <2>1 DEF Has, Sessions
    <3>2. FALSE \in BOOLEAN /\ (FALSE => None \in Gap)
      OBVIOUS
    <3>3. Finalized(k, sessions[k], now, FALSE, None) \in Completed
      BY <1>0, <3>1, <3>2, FinalizedType
    <3>4. Finalized(k, sessions[k], now, FALSE, None).id = <<k, sessions[k].start>>
      BY DEF Finalized
    <3>5. Finalized(k, sessions[k], now, FALSE, None).end = now
      BY DEF Finalized
    <3> QED
      BY <3>3, <3>4, <3>5
  <2> HIDE DEF rec
  <2>4. ~Has(sessions', k) /\ ~Has(pending', k)
        /\ \A j \in Keys \ {k} : sessions'[j] = sessions[j] /\ pending'[j] = pending[j]
    BY <1>0, <2>1 DEF Has, Sessions
  <2> QED
    BY <2>1, <2>2, <2>3, <2>4, SessCompletes
<1>2. CASE CloseRestored(k)
  <2> DEFINE rec == Finalized(k, pending[k], now, TRUE, RestartGap(k))
  <2>1. /\ up /\ up' = up /\ io = <<>> /\ lastTick' = lastTick /\ now' = now
        /\ history' = history /\ snapshot' = snapshot /\ sessions' = sessions
        /\ pending' = [pending EXCEPT ![k] = None]
        /\ Has(pending, k)
    BY <1>0, <1>2 DEF CloseRestored, clockVars, procVars, tickVars, diskVars,
       BaseInv, StoppedInv
  <2>2. io' = <<AppendOf(rec), SaveOf(sessions', pending')>>
    BY <1>2, <2>1 DEF CloseRestored
  <2>3. rec \in Completed /\ rec.id = <<k, pending[k].start>> /\ rec.end = now
    <3>1. pending[k] \in Session
      BY <1>0, <2>1 DEF Has, Sessions
    <3>2. RestartGap(k) \in Gap
      BY <1>0, <3>1 DEF RestartGap, Gap, Session
    <3>3. TRUE \in BOOLEAN /\ (TRUE => RestartGap(k) \in Gap)
      BY <3>2
    <3>4. Finalized(k, pending[k], now, TRUE, RestartGap(k)) \in Completed
      BY <1>0, <3>1, <3>3, FinalizedType
    <3>5. Finalized(k, pending[k], now, TRUE, RestartGap(k)).id = <<k, pending[k].start>>
      BY DEF Finalized
    <3>6. Finalized(k, pending[k], now, TRUE, RestartGap(k)).end = now
      BY DEF Finalized
    <3> QED
      BY <3>4, <3>5, <3>6
  <2> HIDE DEF rec
  <2>4. ~Has(sessions', k) /\ ~Has(pending', k)
        /\ \A j \in Keys \ {k} : sessions'[j] = sessions[j] /\ pending'[j] = pending[j]
    BY <1>0, <2>1 DEF Has, Sessions, SessInv, OneOpen
  <2> QED
    BY <2>1, <2>2, <2>3, <2>4, SessCompletes
<1>3. CASE ResumeRestored(k)
  <2> DEFINE rec == Resumed(pending[k], RestartGap(k), activity[k].at)
  <2>1. /\ up /\ io = <<>> /\ io' = <<>> /\ lastTick' = lastTick /\ now' = now
        /\ history' = history /\ snapshot' = snapshot
        /\ pending' = [pending EXCEPT ![k] = None]
        /\ Has(pending, k)
    BY <1>0, <1>3 DEF ResumeRestored, clockVars, procVars, tickVars, diskVars,
       BaseInv, StoppedInv
  <2>2. sessions' = [sessions EXCEPT ![k] = rec]
    BY <1>3 DEF ResumeRestored
  <2>3. rec \in Session /\ rec.start = pending[k].start /\ rec.confirmed
    <3>1. pending[k] \in Session /\ pending[k].confirmed
      BY <1>0, <2>1 DEF Has, Sessions, SessInv, RestoredConfirmed
    <3>2. RestartGap(k) \in Gap
      BY <1>0, <3>1 DEF RestartGap, Gap, Session
    <3>3. activity[k].at \in Nat
      BY <1>0, <1>3 DEF ResumeRestored, StillActive, Has, BaseInv, TypeOK, Activity
    <3> QED
      BY <3>1, <3>2, <3>3, ResumedType
  <2> HIDE DEF rec
  <2>4. /\ ~Has(pending', k)
        /\ Confirmed(sessions', k) /\ sessions'[k].start = pending[k].start
        /\ \A j \in Keys \ {k} : sessions'[j] = sessions[j] /\ pending'[j] = pending[j]
    BY <1>0, <2>1, <2>2, <2>3, NoSession DEF Has, Confirmed, Sessions
  <2>5. ~Has(sessions, k)
    BY <2>1 DEF SessInv, OneOpen
  <2>6. \A j \in Keys : Has(sessions', j) =>
           \/ Has(sessions, j) /\ sessions'[j].start = sessions[j].start
           \/ /\ Has(pending, j) /\ ~Has(pending', j)
              /\ sessions'[j].start = pending[j].start
    BY <2>1, <2>4 DEF Has
  <2>7. \A j \in Keys :
           /\ Has(pending', j) => Has(pending, j) /\ pending'[j] = pending[j]
           /\ Confirmed(sessions, j) =>
                 Confirmed(sessions', j) /\ sessions'[j].start = sessions[j].start
           /\ Has(pending, j) =>
                 \/ Has(pending', j)
                 \/ Confirmed(sessions', j) /\ sessions'[j].start = pending[j].start
    BY <2>4, <2>5 DEF Has, Confirmed
  <2>8. lastTick <= lastTick' /\ now <= now'
    BY <1>0, <2>1
  <2> QED
    BY <2>1, <2>6, <2>7, <2>8, SessQuiet, Zenon
<1> QED
  BY <1>1, <1>2, <1>3 DEF Reconcile

LEMMA SessNext == SessInv /\ [Next]_vars => SessInv'
<1> SUFFICES ASSUME SessInv, [Next]_vars PROVE SessInv'
  OBVIOUS
<1>0. BaseInv'
  BY BaseNext DEF SessInv
<1>1. CASE UNCHANGED vars
  <2>1. Records' = Records /\ Closing' = Closing /\ Ended' = Ended
        /\ HistoryIds' = HistoryIds /\ GoneIds' = GoneIds
    BY <1>1 DEF vars, Records, Closing, Ended, HistoryIds, GoneIds
  <2>2. OneOpen' /\ RestoredConfirmed' /\ TimesInv' /\ OpenIsLatest' /\ ClosingIsLatest'
    BY <1>1, <2>1 DEF vars, SessInv, OneOpen, RestoredConfirmed, TimesInv, OpenIsLatest,
       ClosingIsLatest
  <2>3. HistoryInOrder' /\ WritesInv' /\ FileIsKnown' /\ FileIsLatest'
    BY <1>1, <2>1 DEF vars, SessInv, HistoryInOrder, WritesInv, FileIsKnown, FileIsLatest
  <2> QED
    BY <1>0, <2>2, <2>3 DEF SessInv
<1>2. CASE Advance
  BY <1>0, <1>2, SessAdvance
<1>3. CASE Crash \/ Exit
  BY <1>0, <1>3, SessStops DEF Crash, Exit
<1>4. CASE Start
  BY <1>0, <1>4, SessStarts
<1>5. CASE AppendSession \/ SaveSnapshot
  BY <1>0, <1>5, SessDisk
<1>6. CASE Observe \/ TickAborts \/ TickEnds
  BY <1>0, <1>6, SessTick
<1>7. CASE \E k \in Keys : CloseIdle(k) \/ Reconcile(k)
  BY <1>0, <1>7, SessReconcile
<1>8. CASE \/ ReconcileBegin \/ ReconcileEnds \/ Flush \/ CloseApp
           \/ \E k \in Keys : IncidentCloses(k)
  BY <1>0, <1>8, SessCallbacks
<1> QED
  BY <1>1, <1>2, <1>3, <1>4, <1>5, <1>6, <1>7, <1>8 DEF Next

LEMMA SessInvariant == Spec => []SessInv
BY SessInit, SessNext, PTL DEF Spec

\* No hour of a workload is counted in two of its sessions: for every number of
\* workloads, every threshold, and any number of restarts and kills between two
\* writes, a session ends before the next one of its workload begins.
THEOREM SessionsNeverOverlap == Spec => []SessionsAreDisjoint
<1>1. SessInv => SessionsAreDisjoint
  <2> SUFFICES ASSUME SessInv PROVE SessionsAreDisjoint
    OBVIOUS
  <2>1. \A i, j \in DOMAIN history :
           i < j /\ history[i].id[1] = history[j].id[1] =>
               history[i].end <= history[j].id[2]
    BY DEF SessInv, HistoryInOrder
  <2>2. ASSUME NEW rec \in Records, NEW d \in {sessions, pending}, Has(d, rec.id[1])
        PROVE  rec.end <= d[rec.id[1]].start
    <3>1. rec.id[1] \in Keys /\ rec \in Ended
      BY RecordTypes DEF SessInv, Ended
    <3> QED
      BY <2>2, <3>1 DEF SessInv, OpenIsLatest
  <2> QED
    BY <2>1, <2>2 DEF SessionsAreDisjoint
<1> QED
  BY <1>1, SessInvariant, PTL

-----------------------------------------------------------------------------
(* The two session files keep the promise of RecordLedger.                 *)

LedgerIds == Keys \X (0 .. MaxTime)

LedgerInv == SessInv /\ now <= MaxTime

LEMMA LedgerNext == LedgerInv /\ [Next]_vars => LedgerInv'
<1> SUFFICES ASSUME LedgerInv, [Next]_vars PROVE LedgerInv'
  OBVIOUS
<1>1. SessInv'
  BY SessNext DEF LedgerInv
<1>2. now' = now \/ Advance
  BY DEF Next, vars, clockVars, Crash, Start, AppendSession, SaveSnapshot, Observe,
     ObserveTick, Ticks, TickAborts, TickEnds, IncidentCloses, CloseIdle, Reconcile,
     ResumeRestored, CloseRestored, ReconcileBegin, ReconcileEnds, Flush, CloseApp, Exit
<1>3. now' <= MaxTime
  <2>1. CASE Advance
    <3>1. now \in Nat /\ MaxTime \in Nat /\ now < MaxTime /\ now' = now + 1
      BY <2>1, SessionConstants DEF Advance, LedgerInv, SessInv, BaseInv, TypeOK
    <3> QED
      BY <3>1
  <2>2. CASE now' = now
    BY <2>2 DEF LedgerInv
  <2> QED
    BY <1>2, <2>1, <2>2
<1> QED
  BY <1>1, <1>3 DEF LedgerInv

\* Every session begins within the bounds of the clock.
LEMMA StartsAreBounded ==
    ASSUME LedgerInv, NEW k \in Keys, NEW t \in Nat, t <= lastTick
    PROVE  <<k, t>> \in LedgerIds
<1>1. lastTick \in Nat /\ now \in Nat /\ MaxTime \in Nat /\ lastTick <= now /\ now <= MaxTime
  BY SessionConstants DEF LedgerInv, SessInv, BaseInv, TypeOK, ClockInv
<1>2. t \in 0 .. MaxTime
  BY <1>1
<1> QED
  BY <1>2 DEF LedgerIds

LEMMA EndedIds ==
    ASSUME LedgerInv, NEW rec \in Ended PROVE rec.id \in LedgerIds
<1>1. /\ rec.id = <<rec.id[1], rec.id[2]>> /\ rec.id[1] \in Keys /\ rec.id[2] \in Nat
      /\ rec.id[2] <= lastTick
  BY RecordTypes DEF LedgerInv, SessInv, TimesInv
<1>2. <<rec.id[1], rec.id[2]>> \in LedgerIds
  BY <1>1, StartsAreBounded
<1> QED
  BY <1>1, <1>2

LEMMA LedgerSave ==
    ASSUME LedgerInv, SaveSnapshot
    PROVE  /\ history' = history
           /\ SnapshotIds \cup HistoryIds \subseteq SnapshotIds' \cup HistoryIds
           /\ SnapshotIds' \cup HistoryIds \subseteq LedgerIds
<1>1. /\ history' = history /\ io # <<>> /\ up /\ Closing = {}
      /\ sessions \in Sessions /\ pending \in Sessions
      /\ snapshot' = Merged(sessions, pending)
  <2>1. io \in Seq(Op) /\ io # <<>> /\ up /\ Head(io).op = "save"
        /\ sessions \in Sessions /\ pending \in Sessions
    BY DEF SaveSnapshot, LedgerInv, SessInv, BaseInv, TypeOK, StoppedInv, Op
  <2> QED
    BY <2>1, WritesLeft DEF SaveSnapshot, LedgerInv, SessInv, WritesInv, Closing
<1>2. GoneIds = HistoryIds /\ Ended = Records
  BY <1>1, RecordTypes DEF GoneIds, Ended, LedgerInv, SessInv
<1>3. \A k \in Keys :
         /\ Has(snapshot', k) =>
               \/ Has(pending, k) /\ snapshot'[k].start = pending[k].start
               \/ Has(sessions, k) /\ snapshot'[k].start = sessions[k].start
         /\ Has(pending, k) \/ Confirmed(sessions, k) => Has(snapshot', k)
         /\ Has(pending, k) => snapshot'[k].start = pending[k].start
         /\ Confirmed(sessions, k) => snapshot'[k].start = sessions[k].start
  BY <1>1, MergedKeeps DEF LedgerInv, SessInv, OneOpen, Confirmed
<1>4. SnapshotIds \subseteq SnapshotIds' \cup HistoryIds
  <2> SUFFICES ASSUME NEW k \in Keys, Has(snapshot, k),
                      <<k, snapshot[k].start>> \notin HistoryIds
               PROVE  <<k, snapshot[k].start>> \in SnapshotIds'
    BY DEF SnapshotIds
  <2>1. \/ Confirmed(sessions, k) /\ sessions[k].start = snapshot[k].start
        \/ Has(pending, k) /\ pending[k].start = snapshot[k].start
    BY <1>1, <1>2 DEF LedgerInv, SessInv, FileIsKnown
  <2>2. Has(snapshot', k) /\ snapshot'[k].start = snapshot[k].start
    BY <1>3, <2>1
  <2>3. <<k, snapshot'[k].start>> \in SnapshotIds'
    BY <2>2 DEF SnapshotIds, Has
  <2> QED
    BY <2>2, <2>3
<1>5. SnapshotIds' \subseteq LedgerIds
  <2> SUFFICES ASSUME NEW k \in Keys, Has(snapshot', k)
               PROVE  <<k, snapshot'[k].start>> \in LedgerIds
    BY DEF SnapshotIds, Has
  <2>1. snapshot'[k].start \in Nat /\ snapshot'[k].start <= lastTick
    <3>1. \A d \in {sessions, pending} : Has(d, k) =>
             d[k].start \in Nat /\ d[k].start <= lastTick
      BY <1>1 DEF LedgerInv, SessInv, TimesInv, Sessions, Session, Has
    <3> QED
      BY <1>3, <3>1
  <2> QED
    BY <2>1, StartsAreBounded
<1>6. HistoryIds \subseteq LedgerIds
  BY <1>2, EndedIds DEF GoneIds
<1> QED
  BY <1>1, <1>4, <1>5, <1>6

\* Every step of the engine that changes one of the files records or completes
\* sessions; and no other step is visible to the ledger.
LEMMA LedgerStep ==
    ASSUME LedgerInv, [Next]_vars
    PROVE  [Ledger!Next]_(Ledger!ledgerVars)
<1> DEFINE completed == [i \in DOMAIN history |-> history[i].id]
           recorded  == SnapshotIds \cup HistoryIds
<1>0. Ledger!Next <=> Ledger!Record \/ \E id \in LedgerIds : Ledger!Complete(id)
  BY DEF Ledger!Next, LedgerIds
<1>1. CASE history' = history /\ snapshot' = snapshot
  <2>1. UNCHANGED <<recorded, completed>>
    BY <1>1 DEF SnapshotIds, HistoryIds
  <2> QED
    BY <2>1 DEF Ledger!ledgerVars
<1>2. CASE SaveSnapshot
  <2>1. /\ history' = history /\ HistoryIds' = HistoryIds
        /\ recorded \subseteq recorded' /\ recorded' \subseteq LedgerIds
    BY <1>2, LedgerSave DEF HistoryIds
  <2>2. completed' = completed
    BY <2>1
  <2> HIDE DEF completed, recorded
  <2>3. Ledger!Record
    BY <2>1, <2>2 DEF Ledger!Record, LedgerIds, completed, recorded
  <2> QED
    BY <1>0, <2>3
<1>3. CASE AppendSession
  <2> DEFINE rec == Head(io).rec
             id == rec.id
  <2>1. /\ history \in Seq(Completed) /\ rec \in Completed
        /\ history' = Append(history, rec) /\ snapshot' = snapshot
        /\ Closing = {rec}
    <3>1. io \in Seq(Op) /\ io # <<>> /\ history \in Seq(Completed)
      BY <1>3 DEF AppendSession, LedgerInv, SessInv, BaseInv, TypeOK, Op
    <3> QED
      BY <1>3, <3>1, WritesLeft DEF AppendSession, Closing
  <2>2. /\ DOMAIN history = 1 .. Len(history) /\ Len(history) \in Nat
        /\ history' \in Seq(Completed) /\ Len(history') = Len(history) + 1
        /\ DOMAIN history' = 1 .. Len(history) + 1
        /\ \A i \in 1 .. Len(history) : history'[i] = history[i]
        /\ history'[Len(history) + 1] = rec
    <3> HIDE DEF rec
    <3> QED
      BY <2>1, LenProperties, AppendProperties
  <2>3. \A old \in Completed : old.id \in Keys \X Nat
    BY DEF Completed
  <2>4. id \in LedgerIds
    BY <2>1, EndedIds DEF Ended
  <2>5. id \notin HistoryIds
    <3>1. \A old \in Records : old.id # id
      BY <2>1 DEF LedgerInv, SessInv, ClosingIsLatest
    <3> QED
      BY <3>1 DEF HistoryIds, Records
  <2>6. HistoryIds' = HistoryIds \cup {id} /\ SnapshotIds' = SnapshotIds
    <3> HIDE DEF rec
    <3> QED
      BY <2>1, <2>2 DEF HistoryIds, SnapshotIds
  <2>7. completed' = Append(completed, id)
    <3>1. /\ completed = [i \in 1 .. Len(history) |-> history[i].id]
          /\ completed' = [i \in 1 .. Len(history) + 1 |-> history'[i].id]
      BY <2>2
    <3>2. completed \in Seq(Keys \X Nat) /\ Len(completed) = Len(history)
      <4>1. \A i \in 1 .. Len(history) : history[i] \in Completed
        BY <2>1, ElementOfSeq
      <4>2. completed \in [1 .. Len(history) -> Keys \X Nat]
        BY <2>3, <3>1, <4>1
      <4> QED
        BY <2>2, <3>1, <4>2, SeqDef, LenProperties
    <3>3. id \in Keys \X Nat
      BY <2>1, <2>3
    <3> HIDE DEF completed, id
    <3>4. /\ Append(completed, id) \in Seq(Keys \X Nat)
          /\ Len(Append(completed, id)) = Len(history) + 1
          /\ \A i \in 1 .. Len(history) : Append(completed, id)[i] = completed[i]
          /\ Append(completed, id)[Len(history) + 1] = id
      BY <3>2, <3>3, AppendProperties
    <3>5. completed' \in Seq(Keys \X Nat) /\ Len(completed') = Len(history) + 1
      <4>1. \A i \in 1 .. Len(history) + 1 : history'[i] \in Completed
        BY <2>2, ElementOfSeq
      <4>2. completed' \in [1 .. Len(history) + 1 -> Keys \X Nat]
        BY <2>3, <3>1, <4>1
      <4> QED
        BY <2>2, <3>1, <4>2, SeqDef, LenProperties
    <3>6. \A i \in 1 .. Len(history) + 1 : completed'[i] = Append(completed, id)[i]
      BY <2>2, <3>1, <3>4 DEF id
    <3> QED
      BY <3>4, <3>5, <3>6, SeqEqual
  <2>8. \A i \in DOMAIN completed : completed[i] # id
    BY <2>5 DEF HistoryIds
  <2>9. recorded' = recorded \cup {id}
    BY <2>6
  <2> HIDE DEF completed, recorded, id
  <2>10. PICK i \in LedgerIds : i = id
    BY <2>4
  <2>11. Ledger!Complete(i)
    BY <2>7, <2>8, <2>9, <2>10 DEF Ledger!Complete, completed, recorded
  <2> QED
    BY <1>0, <2>11
<1>4. \/ SaveSnapshot \/ AppendSession
      \/ history' = history /\ snapshot' = snapshot
  BY DEF Next, vars, diskVars, Advance, Crash, Start, Observe, ObserveTick, TickAborts,
     TickEnds, IncidentCloses, CloseIdle, Reconcile, ResumeRestored, CloseRestored,
     ReconcileBegin, ReconcileEnds, Flush, CloseApp, Exit
<1> QED
  BY <1>1, <1>2, <1>3, <1>4

\* The two session files keep the promise of the ledger for every workload and
\* threshold, whatever the program is killed in: a session that reached the disk is
\* never forgotten, and is completed once.
THEOREM TheFilesImplementTheLedger == Spec => ImplementsLedger
<1>1. Init => Ledger!Init
  <2> SUFFICES ASSUME Init PROVE Ledger!Init
    OBVIOUS
  <2>1. history = <<>> /\ DOMAIN history = {} /\ snapshot = Empty
    BY DEF Init
  <2>2. SnapshotIds \cup HistoryIds = {}
    BY <2>1, EmptyTypes DEF SnapshotIds, HistoryIds
  <2>3. [i \in DOMAIN history |-> history[i].id] = <<>>
    BY <2>1
  <2> QED
    BY <2>2, <2>3 DEF Ledger!Init
<1>2. Init => LedgerInv
  BY SessInit, SessionConstants DEF Init, LedgerInv
<1> QED
  BY <1>1, <1>2, LedgerNext, LedgerStep, PTL DEF Spec, ImplementsLedger, Ledger!Spec

-----------------------------------------------------------------------------
(* A session is confirmed by an unbroken row of samples.  The row may be   *)
(* longer than the candidate is old, for a workload that is waiting for    *)
(* its reconciliation is seen but not counted.                             *)

\* The last samples of the row are those that the candidate rec has counted.
InRow(rec, row) ==
    /\ rec.consecutive < Samples
    /\ rec.consecutive <= Len(row)
    /\ \A i \in 1 .. Len(row) :
          i > Len(row) - rec.consecutive => rec.start <= row[i]

SampleInv ==
    \A k \in Keys :
        /\ Len(streak[k]) <= Samples
        /\ Has(sessions, k) /\ ~sessions[k].confirmed => InRow(sessions[k], streak[k])

\* A row is as long as the debounce, at most, and ends with the sample just taken.
LEMMA RowGrows ==
    ASSUME NEW row \in Seq(Nat), Len(row) <= Samples, NEW t \in Nat
    PROVE  LET new == LastTicks(Append(row, t))
               cut == Len(row) + 1 - Len(new)
           IN  /\ Len(new) \in Nat /\ Len(new) <= Samples
               /\ Len(new) = Len(row) + 1 \/ Len(new) = Samples
               /\ cut \in Nat /\ Len(new) >= 1 /\ new[Len(new)] = t
               /\ \A i \in 1 .. Len(new) - 1 : i + cut \in 1 .. Len(row)
                                              /\ new[i] = row[i + cut]
<1> DEFINE longer == Append(row, t)
           new == LastTicks(longer)
<1>1. /\ Len(row) \in Nat /\ longer \in Seq(Nat) /\ Len(longer) = Len(row) + 1
      /\ \A i \in 1 .. Len(row) : longer[i] = row[i]
      /\ longer[Len(row) + 1] = t
      /\ Samples \in Nat \ {0}
  BY LenProperties, AppendProperties, SessionConstants
<1> HIDE DEF longer
<1>2. CASE Len(longer) > Samples
  <2>1. Len(row) = Samples
    BY <1>1, <1>2
  <2>2. new = SubSeq(longer, 2, Samples + 1)
    BY <1>1, <1>2, <2>1 DEF LastTicks
  <2>3. \A i \in 2 .. Samples + 1 : longer[i] \in Nat
    BY <1>1, <2>1, ElementOfSeq
  <2>4. /\ Len(new) = Samples
        /\ \A i \in 1 .. Samples : new[i] = longer[i + 1]
    BY <1>1, <2>2, <2>3, SubSeqProperties
  <2> HIDE DEF new
  <2> QED
    BY <1>1, <2>1, <2>4 DEF longer, new
<1>3. CASE ~(Len(longer) > Samples)
  <2>1. new = longer
    BY <1>3 DEF LastTicks
  <2> HIDE DEF new
  <2> QED
    BY <1>1, <1>3, <2>1 DEF longer, new
<1> QED
  BY <1>2, <1>3

\* What a sample makes of a candidate: another candidate, or a session whose start
\* is not later than any of the last samples.
LEMMA RowOfSample ==
    ASSUME NEW rec \in Session, ~rec.confirmed, NEW row \in Seq(Nat),
           Len(row) <= Samples, InRow(rec, row), NEW dt \in Nat, NEW t \in Nat,
           rec.start <= t
    PROVE  LET new == LastTicks(Append(row, t))
               next == Sampled(rec, dt, t)
           IN  /\ ~next.confirmed => InRow(next, new)
               /\ next.confirmed => Len(new) = Samples /\ next.start <= new[1]
<1> DEFINE new == LastTicks(Append(row, t))
           next == Sampled(rec, dt, t)
           cut == Len(row) + 1 - Len(new)
<1>1. /\ Len(row) \in Nat /\ Samples \in Nat \ {0}
      /\ rec.consecutive \in Nat /\ rec.start \in Nat
      /\ rec.consecutive < Samples /\ rec.consecutive <= Len(row)
  BY LenProperties, SessionConstants DEF InRow, Session
<1>2. /\ next.consecutive = rec.consecutive + 1 /\ next.start = rec.start
      /\ next.confirmed <=> rec.consecutive + 1 >= Samples
  BY <1>1 DEF Sampled, Session
<1>3. /\ Len(new) \in Nat /\ Len(new) <= Samples
      /\ Len(new) = Len(row) + 1 \/ Len(new) = Samples
      /\ cut \in Nat /\ Len(new) >= 1 /\ new[Len(new)] = t
      /\ \A i \in 1 .. Len(new) - 1 : i + cut \in 1 .. Len(row) /\ new[i] = row[i + cut]
  BY RowGrows
<1> HIDE DEF new, next
<1>4. rec.consecutive + 1 <= Len(new)
  BY <1>1, <1>3
<1>5. ASSUME NEW i \in 1 .. Len(new), i > Len(new) - (rec.consecutive + 1)
      PROVE  rec.start <= new[i]
  <2>1. CASE i = Len(new)
    BY <1>3, <2>1
  <2>2. CASE i # Len(new)
    <3>1. i \in 1 .. Len(new) - 1 /\ i + cut \in 1 .. Len(row) /\ new[i] = row[i + cut]
      BY <1>3, <2>2
    <3>2. i + cut > Len(row) - rec.consecutive
      BY <1>1, <1>3, <1>5
    <3>3. rec.start <= row[i + cut]
      BY <3>1, <3>2 DEF InRow
    <3> QED
      BY <3>1, <3>3
  <2> QED
    BY <2>1, <2>2
<1>6. ~next.confirmed => InRow(next, new)
  BY <1>1, <1>2, <1>4, <1>5 DEF InRow
<1>7. next.confirmed => Len(new) = Samples /\ next.start <= new[1]
  <2> HAVE next.confirmed
  <2>1. rec.consecutive + 1 = Samples /\ Len(new) = Samples
    BY <1>1, <1>2, <1>3, <1>4
  <2>2. 1 \in 1 .. Len(new) /\ 1 > Len(new) - (rec.consecutive + 1)
    BY <1>1, <2>1
  <2> QED
    BY <1>2, <1>5, <2>1, <2>2
<1> QED
  BY <1>6, <1>7 DEF new, next

\* What a tick makes of a workload that has no confirmed session.
LEMMA RowOfTick ==
    ASSUME SessInv, SampleInv, NEW k \in Keys, NEW act,
           ~Has(pending, k), ~Confirmed(sessions, k), AfterTick(k, AfterGap[k], act) # None
    PROVE  LET new == LastTicks(Append(streak[k], now))
               next == AfterTick(k, AfterGap[k], act)
           IN  /\ k \in act
               /\ ~next.confirmed => InRow(next, new)
               /\ next.confirmed => Len(new) = Samples /\ next.start <= new[1]
<1> DEFINE rec == AfterGap[k]
           base == IF rec = None THEN NewSession(now) ELSE rec
           dt == Counted(sessTick, now)
           next == AfterTick(k, rec, act)
<1>1. /\ now \in Nat /\ streak[k] \in Seq(Nat) /\ Len(streak[k]) <= Samples
      /\ dt \in Nat /\ lastTick \in Nat /\ lastTick <= now
  BY CountedType DEF SessInv, SampleInv, BaseInv, TypeOK, ClockInv
<1>2. CASE Has(sessions, k)
  <2>1. /\ rec # None /\ rec \in Session /\ rec.start = sessions[k].start
        /\ ~rec.confirmed /\ sessions[k] \in Session
    BY <1>2, AfterGapType DEF SessInv, BaseInv, TypeOK, Sessions, Has, Confirmed
  <2>2. rec.consecutive = sessions[k].consecutive
    <3>1. rec = sessions[k] \/ rec = WithGap(sessions[k], [from |-> lastTick, to |-> now])
      BY DEF AfterGap
    <3>2. \A gap : WithGap(sessions[k], gap).consecutive = sessions[k].consecutive
      BY <2>1 DEF WithGap, Session
    <3> QED
      BY <3>1, <3>2
  <2>3. InRow(rec, streak[k])
    BY <1>2, <2>1, <2>2 DEF SampleInv, InRow, Confirmed
  <2>4. rec.start \in Nat /\ rec.start <= now
    <3>1. sessions[k].start \in Nat /\ sessions[k].start <= lastTick
      BY <1>2, <2>1 DEF SessInv, TimesInv, Session
    <3> QED
      BY <1>1, <2>1, <3>1
  <2>5. k \in act /\ next = Sampled(rec, dt, now)
    BY <2>1 DEF AfterTick
  <2> HIDE DEF rec, dt, next
  <2> QED
    BY <1>1, <2>1, <2>3, <2>4, <2>5, RowOfSample DEF rec, next
<1>3. CASE ~Has(sessions, k)
  <2>1. rec = None
    BY <1>3, AfterGapType DEF SessInv, Has
  <2>2. k \in act /\ next = Sampled(NewSession(now), dt, now)
    BY <2>1 DEF AfterTick
  <2>3. /\ NewSession(now) \in Session /\ NewSession(now).start = now
        /\ ~NewSession(now).confirmed /\ NewSession(now).consecutive = 0
    BY <1>1, NewSessionType DEF NewSession
  <2>4. InRow(NewSession(now), streak[k])
    <3>1. Len(streak[k]) \in Nat /\ Samples \in Nat \ {0}
      BY <1>1, LenProperties, SessionConstants
    <3> QED
      BY <2>3, <3>1 DEF InRow
  <2> HIDE DEF rec, dt, next
  <2> QED
    BY <1>1, <2>2, <2>3, <2>4, RowOfSample DEF rec, next
<1> QED
  BY <1>2, <1>3

LEMMA SampleTick ==
    ASSUME SessInv, SampleInv, Observe
    PROVE  /\ SampleInv'
           /\ \A k \in Keys :
                 Confirmed(sessions', k) /\ ~Confirmed(sessions, k) /\ ~Has(pending, k) =>
                     Len(streak'[k]) = Samples /\ sessions'[k].start <= streak'[k][1]
<1>1. PICK seen \in SUBSET Keys : \E act \in SUBSET seen : ObserveTick(seen, act)
  BY DEF Observe
<1>2. PICK act \in SUBSET seen : ObserveTick(seen, act)
  BY <1>1
<1>3. \A k \in Keys :
         /\ sessions'[k] = AfterTick(k, AfterGap[k], act)
         /\ streak'[k] = IF k \in act THEN LastTicks(Append(streak[k], now)) ELSE <<>>
  BY <1>2 DEF ObserveTick
<1>4. ASSUME NEW k \in Keys PROVE Len(streak'[k]) <= Samples
  <2>1. Len(LastTicks(Append(streak[k], now))) <= Samples
    <3>1. streak[k] \in Seq(Nat) /\ Len(streak[k]) <= Samples /\ now \in Nat
      BY DEF SessInv, SampleInv, BaseInv, TypeOK
    <3> QED
      BY <3>1, RowGrows
  <2>2. Len(<<>>) <= Samples
    BY EmptySeq, SessionConstants
  <2> QED
    BY <1>3, <2>1, <2>2
<1>5. ASSUME NEW k \in Keys, Has(sessions', k), ~Confirmed(sessions, k), ~Has(pending, k)
      PROVE  /\ ~sessions'[k].confirmed => InRow(sessions'[k], streak'[k])
             /\ sessions'[k].confirmed =>
                   Len(streak'[k]) = Samples /\ sessions'[k].start <= streak'[k][1]
  <2>1. AfterTick(k, AfterGap[k], act) # None
    BY <1>3, <1>5 DEF Has
  <2> QED
    BY <1>3, <1>5, <2>1, RowOfTick
<1>6. ASSUME NEW k \in Keys, Has(sessions', k), ~sessions'[k].confirmed
      PROVE  ~Confirmed(sessions, k) /\ ~Has(pending, k)
  <2>1. /\ Has(sessions, k) /\ sessions[k].confirmed => sessions'[k].confirmed
        /\ Has(sessions, k) \/ ~Has(pending, k)
    BY <1>3, <1>6, AfterTickType DEF SessInv, Has
  <2> QED
    BY <1>6, <2>1 DEF SessInv, OneOpen, Confirmed
<1>7. SampleInv'
  BY <1>4, <1>5, <1>6 DEF SampleInv
<1> QED
  BY <1>5, <1>7 DEF Confirmed

\* No other step confirms a session, or looks at a row.
LEMMA SampleKept ==
    ASSUME SampleInv, streak' = streak,
           \A k \in Keys : Has(sessions', k) /\ ~sessions'[k].confirmed =>
               Has(sessions, k) /\ sessions'[k] = sessions[k]
    PROVE  SampleInv'
BY DEF SampleInv

LEMMA SampleOther ==
    ASSUME SessInv, SampleInv, [Next]_vars, ~Observe, ~Stopped
    PROVE  /\ SampleInv'
           /\ \A k \in Keys :
                 Confirmed(sessions', k) => Confirmed(sessions, k) \/ Has(pending, k)
<1>0. sessions \in Sessions /\ pending \in Sessions /\ BaseInv
  BY DEF SessInv, BaseInv, TypeOK
<1>1. CASE UNCHANGED <<sessions, streak>>
  BY <1>1, SampleKept DEF Confirmed, Has
<1>2. CASE TickAborts
  <2>1. /\ streak' = streak /\ sessions' = AfterGap
    BY <1>2 DEF TickAborts
  <2>2. ASSUME NEW k \in Keys, Has(sessions, k)
        PROVE  sessions'[k].consecutive = sessions[k].consecutive
    <3>1. \/ sessions'[k] = sessions[k]
          \/ sessions'[k] = WithGap(sessions[k], [from |-> lastTick, to |-> now])
      BY <2>1 DEF AfterGap
    <3>2. \A gap : WithGap(sessions[k], gap).consecutive = sessions[k].consecutive
      BY <1>0, <2>2 DEF WithGap, Session, Sessions, Has
    <3> QED
      BY <3>1, <3>2
  <2>3. \A k \in Keys :
           /\ Has(sessions', k) <=> Has(sessions, k)
           /\ Has(sessions, k) => /\ sessions'[k].start = sessions[k].start
                                  /\ sessions'[k].confirmed = sessions[k].confirmed
    BY <1>0, <2>1, AfterGapType DEF Has
  <2> QED
    BY <2>1, <2>2, <2>3 DEF SampleInv, InRow, Confirmed
<1>3. CASE TickEnds
  <2>1. streak' = streak
    BY <1>3 DEF TickEnds
  <2>2. \A k \in Keys :
           /\ ~Confirmed(sessions, k) => sessions'[k] = sessions[k]
           /\ Confirmed(sessions, k) => sessions'[k].confirmed
    <3>1. ASSUME NEW k \in Keys, Confirmed(sessions, k) PROVE sessions'[k].confirmed
      <4> DEFINE new == sessions[k].incidents
                           \cup {inc \in incidents \ linked : inc.workload = k}
      <4>1. sessions[k] \in Session /\ sessions[k].confirmed
        BY <1>0, <3>1 DEF Sessions, Confirmed, Has
      <4>2. sessions'[k] = [sessions[k] EXCEPT !.incidents = new]
        BY <1>3, <3>1 DEF TickEnds
      <4> HIDE DEF new
      <4> QED
        BY <4>1, <4>2 DEF Session
    <3> QED
      BY <1>3, <3>1 DEF TickEnds
  <2> QED
    BY <2>1, <2>2, SampleKept DEF Confirmed, Has
<1>4. ASSUME NEW k \in Keys, CloseIdle(k)
      PROVE  /\ streak' = streak
             /\ \A j \in Keys : Has(sessions', j) =>
                   Has(sessions, j) /\ sessions'[j] = sessions[j]
  <2>1. streak' = streak /\ sessions' = [sessions EXCEPT ![k] = None]
    BY <1>4 DEF CloseIdle, tickVars
  <2> QED
    BY <1>0, <2>1 DEF Has, Sessions
<1>5. ASSUME NEW k \in Keys, ResumeRestored(k)
      PROVE  /\ streak' = streak /\ Has(pending, k) /\ sessions'[k].confirmed
             /\ \A j \in Keys \ {k} : sessions'[j] = sessions[j]
  <2> DEFINE rec == Resumed(pending[k], RestartGap(k), activity[k].at)
  <2>1. streak' = streak /\ Has(pending, k) /\ sessions' = [sessions EXCEPT ![k] = rec]
    BY <1>5 DEF ResumeRestored, tickVars
  <2>2. rec.confirmed
    <3>1. pending[k] \in Session /\ pending[k].confirmed
      BY <1>0, <2>1 DEF Has, Sessions, SessInv, RestoredConfirmed
    <3>2. now \in Nat /\ RestartGap(k) \in Gap
      BY <1>0, <3>1 DEF RestartGap, Gap, Session, BaseInv, TypeOK
    <3>3. activity[k].at \in Nat
      BY <1>0, <1>5 DEF ResumeRestored, StillActive, Has, BaseInv, TypeOK, Activity
    <3> QED
      BY <3>1, <3>2, <3>3, ResumedType
  <2> HIDE DEF rec
  <2> QED
    BY <1>0, <2>1, <2>2 DEF Sessions
<1>6. \/ UNCHANGED <<sessions, streak>> \/ TickAborts \/ TickEnds
      \/ \E k \in Keys : CloseIdle(k) \/ ResumeRestored(k)
  BY DEF Next, vars, Advance, Crash, Exit, Start, AppendSession, SaveSnapshot,
     IncidentCloses, Reconcile, CloseRestored, ReconcileBegin, ReconcileEnds, Flush,
     CloseApp, tickVars
<1>7. CASE \E k \in Keys : CloseIdle(k)
  BY <1>4, <1>7, SampleKept DEF Confirmed
<1>8. CASE \E k \in Keys : ResumeRestored(k)
  <2>1. PICK k \in Keys : ResumeRestored(k)
    BY <1>8
  <2>2. /\ streak' = streak /\ Has(pending, k) /\ sessions'[k].confirmed
        /\ \A j \in Keys \ {k} : sessions'[j] = sessions[j]
    BY <1>5, <2>1
  <2>3. \A j \in Keys : Has(sessions', j) /\ ~sessions'[j].confirmed =>
           Has(sessions, j) /\ sessions'[j] = sessions[j]
    BY <2>2 DEF Has
  <2> QED
    BY <2>2, <2>3, SampleKept DEF Confirmed, Has
<1> QED
  BY <1>1, <1>2, <1>3, <1>6, <1>7, <1>8

LEMMA SampleStep ==
    ASSUME SessInv, SampleInv, [Next]_vars
    PROVE  /\ SampleInv'
           /\ \A k \in Keys :
                 Confirmed(sessions', k) /\ ~Confirmed(sessions, k) /\ ~Has(pending, k) =>
                     Len(streak'[k]) = Samples /\ sessions'[k].start <= streak'[k][1]
<1>1. CASE Observe
  BY <1>1, SampleTick
<1>2. CASE Stopped
  <2>1. \A k \in Keys : ~Has(sessions', k) /\ streak'[k] = <<>>
    BY <1>2, EmptyTypes DEF Stopped
  <2>2. Len(<<>>) <= Samples
    BY EmptySeq, SessionConstants
  <2> QED
    BY <2>1, <2>2 DEF SampleInv, Confirmed
<1>3. CASE ~Observe /\ ~Stopped
  BY <1>3, SampleOther
<1> QED
  BY <1>1, <1>2, <1>3

LEMMA SampleInit == Init => SampleInv
<1>1. Len(<<>>) <= Samples
  BY EmptySeq, SessionConstants
<1> QED
  BY <1>1, EmptyTypes DEF Init, SampleInv

\* A spike opens no session, however many samples the debounce asks for, and
\* whatever suspends, failed ticks and restarts come between the samples.
THEOREM SpikesOpenNothing == Spec => ConfirmedWasSustained
<1>1. SessInv /\ SampleInv /\ [Next]_vars =>
         [\A k \in Keys :
             Confirmed(sessions', k) /\ ~Confirmed(sessions, k) /\ ~Has(pending, k) =>
                 /\ Len(streak'[k]) = Samples
                 /\ sessions'[k].start <= streak'[k][1]]_vars
  BY SampleStep
<1>2. SessInv /\ SampleInv /\ [Next]_vars => SampleInv'
  BY SampleStep
<1> QED
  BY <1>1, <1>2, SampleInit, SessInvariant, PTL DEF Spec, ConfirmedWasSustained

-----------------------------------------------------------------------------
(* What was not watched is in a gap.  A session in memory has a gap for    *)
(* every outage it lived through; one that comes from the file may miss    *)
(* those after its last sample, which its reconciliation adds.             *)

Covers(gaps, from, to) == \E i \in DOMAIN gaps : gaps[i].from <= from /\ to <= gaps[i].to

GapsBegin(gaps, t) == \A i \in DOMAIN gaps : gaps[i].from <= t

\* Every outage that rec lived through lies in one of its gaps.
LiveCovered(rec, outs) ==
    \A o \in outs : rec.start <= o.from /\ o.from < o.to => Covers(rec.gaps, o.from, o.to)

\* Or begins after its last sample.
StoredCovered(rec, outs) ==
    \A o \in outs : rec.start <= o.from /\ o.from < o.to =>
        Covers(rec.gaps, o.from, o.to) \/ rec.lastObs <= o.from

EndCovered(rec, outs) ==
    \A o \in outs : rec.id[2] <= o.from /\ o.from < o.to /\ o.to <= rec.end =>
        ~rec.exact /\ Covers(rec.gaps, o.from, o.to)

\* A record that ended after the last tick has a gap for the time since then.
Since(rec, t) == rec.end > t => ~rec.exact /\ Covers(rec.gaps, t, rec.end)

OutageInv ==
    /\ \A o \in outages : o.to <= lastTick
    /\ \A k \in Keys : Has(activity, k) => activity[k].at <= lastTick
    /\ phase = "tick" => now = lastTick
    /\ \A k \in Keys : Has(sessions, k) => LiveCovered(sessions[k], outages)
    /\ \A k \in Keys : \A d \in {pending, snapshot} :
          Has(d, k) => StoredCovered(d[k], outages)
    /\ \A k \in Keys : \A d \in {sessions, pending, snapshot} :
          Has(d, k) => GapsBegin(d[k].gaps, lastTick) /\ d[k].lastObs <= lastTick
    /\ \A rec \in Ended : EndCovered(rec, outages) /\ Since(rec, lastTick)

LEMMA CoversAppend ==
    ASSUME NEW gaps \in Seq(Gap), NEW gap \in Gap
    PROVE  /\ Append(gaps, gap) \in Seq(Gap)
           /\ Append(gaps, gap) # <<>>
           /\ \A f, t : Covers(gaps, f, t) => Covers(Append(gaps, gap), f, t)
           /\ \A f, t \in Nat :
                 gap.from <= f /\ t <= gap.to => Covers(Append(gaps, gap), f, t)
           /\ \A t \in Nat :
                 GapsBegin(gaps, t) /\ gap.from <= t => GapsBegin(Append(gaps, gap), t)
<1> DEFINE new == Append(gaps, gap)
<1>1. /\ Len(gaps) \in Nat /\ DOMAIN gaps = 1 .. Len(gaps)
      /\ new \in Seq(Gap) /\ DOMAIN new = 1 .. Len(gaps) + 1
      /\ \A i \in 1 .. Len(gaps) : new[i] = gaps[i]
      /\ new[Len(gaps) + 1] = gap
  BY LenProperties, AppendProperties
<1> HIDE DEF new
<1>2. new # <<>>
  <2>1. 1 \in DOMAIN new
    BY <1>1
  <2> QED
    BY <2>1
<1>3. Len(gaps) + 1 \in DOMAIN new
  BY <1>1
<1>4. \A i \in DOMAIN gaps : i \in DOMAIN new /\ new[i] = gaps[i]
  BY <1>1
<1>5. \A f, t : Covers(gaps, f, t) => Covers(new, f, t)
  BY <1>4 DEF Covers
<1>6. \A f, t \in Nat : gap.from <= f /\ t <= gap.to => Covers(new, f, t)
  BY <1>1, <1>3 DEF Covers
<1>7. \A t \in Nat : GapsBegin(gaps, t) /\ gap.from <= t => GapsBegin(new, t)
  BY <1>1 DEF GapsBegin
<1> QED
  BY <1>1, <1>2, <1>5, <1>6, <1>7 DEF new

\* A live gap is added, or there is one already that ends with it.
LEMMA CoversWithGap ==
    ASSUME NEW rec \in Session, NEW gap \in Gap, GapsBegin(rec.gaps, gap.from)
    PROVE  /\ WithGap(rec, gap) \in Session
           /\ WithGap(rec, gap).start = rec.start
           /\ WithGap(rec, gap).lastObs = rec.lastObs
           /\ \A f, t : Covers(rec.gaps, f, t) => Covers(WithGap(rec, gap).gaps, f, t)
           /\ Covers(WithGap(rec, gap).gaps, gap.from, gap.to)
           /\ \A t \in Nat : GapsBegin(rec.gaps, t) /\ gap.from <= t =>
                 GapsBegin(WithGap(rec, gap).gaps, t)
<1>0. rec.gaps \in Seq(Gap) /\ gap.from \in Nat /\ gap.to \in Nat
  BY DEF Session, Gap
<1>1. CASE \E i \in DOMAIN rec.gaps : rec.gaps[i].to = gap.to
  <2>1. WithGap(rec, gap) = rec
    BY <1>1 DEF WithGap
  <2>2. PICK i \in DOMAIN rec.gaps : rec.gaps[i].to = gap.to
    BY <1>1
  <2>3. rec.gaps[i].from <= gap.from /\ gap.to <= rec.gaps[i].to
    BY <1>0, <2>2 DEF GapsBegin
  <2>4. Covers(rec.gaps, gap.from, gap.to)
    BY <2>3 DEF Covers
  <2> QED
    BY <2>1, <2>4
<1>2. CASE ~\E i \in DOMAIN rec.gaps : rec.gaps[i].to = gap.to
  <2>1. WithGap(rec, gap) = [rec EXCEPT !.gaps = Append(rec.gaps, gap)]
    BY <1>2 DEF WithGap
  <2>2. Append(rec.gaps, gap) \in Seq(Gap)
    BY <1>0, CoversAppend
  <2>3. /\ WithGap(rec, gap) \in Session
        /\ WithGap(rec, gap).start = rec.start
        /\ WithGap(rec, gap).lastObs = rec.lastObs
        /\ WithGap(rec, gap).gaps = Append(rec.gaps, gap)
    BY <2>1, <2>2 DEF Session
  <2>4. gap.from <= gap.from /\ gap.to <= gap.to
    BY <1>0
  <2> QED
    BY <1>0, <2>3, <2>4, CoversAppend
<1> QED
  BY <1>1, <1>2

\* Two records that tell the same of the gaps.
Alike(rec, old) ==
    rec.start = old.start /\ rec.gaps = old.gaps /\ rec.lastObs = old.lastObs

\* A step in which nothing is watched, saved or completed.
LEMMA OutageQuiet ==
    ASSUME OutageInv,
           UNCHANGED <<lastTick, snapshot, outages>>,
           activity' = activity \/ activity' = Empty,
           phase' = "tick" => now' = lastTick',
           \A k \in Keys : Has(sessions', k) =>
               Has(sessions, k) /\ Alike(sessions'[k], sessions[k]),
           \A k \in Keys : Has(pending', k) => Has(pending, k) /\ pending'[k] = pending[k],
           \A rec \in Ended' :
              rec \in Ended \/ (EndCovered(rec, outages) /\ Since(rec, lastTick))
    PROVE  OutageInv'
<1>1. \A k \in Keys : Has(activity', k) => activity'[k].at <= lastTick'
  BY EmptyTypes DEF OutageInv
<1>2. \A k \in Keys : Has(sessions', k) =>
         /\ LiveCovered(sessions'[k], outages')
         /\ GapsBegin(sessions'[k].gaps, lastTick') /\ sessions'[k].lastObs <= lastTick'
  BY DEF OutageInv, LiveCovered, Alike
<1>3. \A k \in Keys : \A d \in {pending', snapshot'} : Has(d, k) =>
         /\ StoredCovered(d[k], outages')
         /\ GapsBegin(d[k].gaps, lastTick') /\ d[k].lastObs <= lastTick'
  BY DEF OutageInv, Has
<1>4. \A rec \in Ended' : EndCovered(rec, outages') /\ Since(rec, lastTick')
  BY DEF OutageInv
<1>5. \A o \in outages' : o.to <= lastTick'
  BY DEF OutageInv
<1> QED
  BY <1>1, <1>2, <1>3, <1>4, <1>5 DEF OutageInv

\* The time since the last tick becomes an outage, as at a tick and a start.
NewOutage == outages \cup {[from |-> lastTick, to |-> now]}

LEMMA OutageTimes ==
    ASSUME SessInv, OutageInv
    PROVE  /\ now \in Nat /\ lastTick \in Nat /\ lastTick <= now
           /\ \A o \in NewOutage : o.from \in Nat /\ o.to \in Nat /\ o.to <= now
<1>1. /\ now \in Nat /\ lastTick \in Nat /\ lastTick <= now /\ outages \subseteq Gap
  BY DEF SessInv, BaseInv, TypeOK, ClockInv
<1>2. \A o \in outages : o.from \in Nat /\ o.to \in Nat /\ o.to <= now
  BY <1>1 DEF OutageInv, Gap
<1> QED
  BY <1>1, <1>2 DEF NewOutage

LEMMA GapsLater ==
    ASSUME NEW gaps \in Seq(Gap), NEW t \in Nat, NEW u \in Nat, t <= u, GapsBegin(gaps, t)
    PROVE  GapsBegin(gaps, u)
<1>1. \A i \in DOMAIN gaps : gaps[i] \in Gap
  BY LenProperties, ElementOfSeq
<1> QED
  BY <1>1 DEF GapsBegin, Gap

LEMMA StoredOutage ==
    ASSUME SessInv, OutageInv, NEW k \in Keys, NEW d \in {pending, snapshot}, Has(d, k),
           NEW outs, outs \subseteq NewOutage
    PROVE  /\ StoredCovered(d[k], outs)
           /\ GapsBegin(d[k].gaps, now) /\ d[k].lastObs <= now
<1>1. now \in Nat /\ lastTick \in Nat /\ lastTick <= now
  BY OutageTimes
<1>2. d[k] \in Session
  BY DEF SessInv, BaseInv, TypeOK, Sessions, Has
<1>3. d[k].gaps \in Seq(Gap) /\ d[k].lastObs \in Nat
  BY <1>2 DEF Session
<1>4. /\ StoredCovered(d[k], outages) /\ GapsBegin(d[k].gaps, lastTick)
      /\ d[k].lastObs <= lastTick
  BY DEF OutageInv
<1>5. StoredCovered(d[k], outs)
  BY <1>4 DEF StoredCovered, NewOutage
<1>6. GapsBegin(d[k].gaps, now)
  BY <1>1, <1>3, <1>4, GapsLater
<1> QED
  BY <1>1, <1>3, <1>4, <1>5, <1>6

LEMMA EndedOutage ==
    ASSUME SessInv, OutageInv, NEW rec \in Ended, NEW outs, outs \subseteq NewOutage
    PROVE  EndCovered(rec, outs) /\ Since(rec, now)
<1>1. now \in Nat /\ lastTick \in Nat /\ lastTick <= now
  BY OutageTimes
<1>2. rec.end \in Nat /\ rec.end <= now
  BY RecordTypes DEF SessInv, TimesInv
<1>3. EndCovered(rec, outages) /\ Since(rec, lastTick)
  BY DEF OutageInv
<1>4. ASSUME lastTick < now, now <= rec.end
      PROVE  ~rec.exact /\ Covers(rec.gaps, lastTick, now)
  <2>1. rec.end = now /\ rec.end > lastTick
    BY <1>1, <1>2, <1>4
  <2> QED
    BY <1>3, <2>1 DEF Since
<1>5. EndCovered(rec, outs)
  BY <1>3, <1>4 DEF EndCovered, NewOutage
<1>6. Since(rec, now)
  BY <1>1, <1>2 DEF Since
<1> QED
  BY <1>5, <1>6

\* _sessions_record_live_gap: a session in memory gets a gap for the suspend.
LEMMA GapTaken ==
    ASSUME SessInv, OutageInv, NEW k \in Keys, Has(sessions, k),
           NEW outs, outs = IF IsGap THEN NewOutage ELSE outages
    PROVE  /\ AfterGap[k] \in Session
           /\ AfterGap[k].start = sessions[k].start
           /\ LiveCovered(AfterGap[k], outs)
           /\ GapsBegin(AfterGap[k].gaps, now)
           /\ AfterGap[k].lastObs <= now
<1> DEFINE gap == [from |-> lastTick, to |-> now]
<1>1. now \in Nat /\ lastTick \in Nat /\ lastTick <= now
  BY OutageTimes
<1>2. sessions[k] \in Session
  BY DEF SessInv, BaseInv, TypeOK, Sessions, Has
<1>3. sessions[k].gaps \in Seq(Gap) /\ sessions[k].lastObs \in Nat
  BY <1>2 DEF Session
<1>4. /\ LiveCovered(sessions[k], outages) /\ GapsBegin(sessions[k].gaps, lastTick)
      /\ sessions[k].lastObs <= lastTick
  BY DEF OutageInv
<1>5. GapsBegin(sessions[k].gaps, now)
  BY <1>1, <1>3, <1>4, GapsLater
<1>6. CASE IsGap
  <2>1. /\ gap \in Gap /\ gap.from = lastTick /\ gap.to = now
    BY <1>1 DEF Gap
  <2>2. AfterGap[k] = WithGap(sessions[k], gap)
    BY <1>6 DEF AfterGap
  <2> HIDE DEF gap
  <2>3. /\ WithGap(sessions[k], gap) \in Session
        /\ WithGap(sessions[k], gap).start = sessions[k].start
        /\ WithGap(sessions[k], gap).lastObs = sessions[k].lastObs
        /\ \A f, t : Covers(sessions[k].gaps, f, t) =>
              Covers(WithGap(sessions[k], gap).gaps, f, t)
        /\ Covers(WithGap(sessions[k], gap).gaps, lastTick, now)
        /\ GapsBegin(WithGap(sessions[k], gap).gaps, now)
    BY <1>1, <1>2, <1>4, <1>5, <2>1, CoversWithGap
  <2>4. LiveCovered(AfterGap[k], outs)
    BY <1>4, <1>6, <2>2, <2>3 DEF LiveCovered, NewOutage
  <2> QED
    BY <1>1, <1>3, <1>4, <2>2, <2>3, <2>4
<1>7. CASE ~IsGap
  <2>1. AfterGap[k] = sessions[k] /\ outs = outages
    BY <1>7 DEF AfterGap
  <2> QED
    BY <1>1, <1>2, <1>3, <1>4, <1>5, <2>1
<1> QED
  BY <1>6, <1>7

LEMMA OutageTicks ==
    ASSUME SessInv, OutageInv, Ticks, now' = now, io' = <<>>, history' = history,
           pending' = pending, snapshot' = snapshot,
           \A k \in Keys : Has(activity', k) =>
              activity'[k].at = now \/ (Has(activity, k) /\ activity'[k] = activity[k]),
           \A k \in Keys : Has(sessions', k) =>
              \/ /\ Has(sessions, k)
                 /\ sessions'[k].start = AfterGap[k].start
                 /\ sessions'[k].gaps = AfterGap[k].gaps
                 /\ sessions'[k].lastObs \in {AfterGap[k].lastObs, now}
              \/ /\ sessions'[k].start = now /\ sessions'[k].gaps = <<>>
                 /\ sessions'[k].lastObs = now
    PROVE  OutageInv'
<1>1. /\ now \in Nat /\ lastTick \in Nat /\ lastTick <= now
      /\ \A o \in NewOutage : o.from \in Nat /\ o.to \in Nat /\ o.to <= now
  BY OutageTimes
<1>2. /\ io = <<>> /\ lastTick' = now
      /\ outages' = IF IsGap THEN NewOutage ELSE outages
      /\ outages' \subseteq NewOutage
  BY DEF Ticks, Idle, NewOutage
<1>3. Ended' = Ended
  BY <1>2 DEF Ended, Records, Closing
<1>4. \A o \in outages' : o.to <= lastTick'
  BY <1>1, <1>2
<1>5. \A k \in Keys : Has(activity', k) => activity'[k].at <= lastTick'
  <2>1. \A k \in Keys : Has(activity, k) =>
           activity[k].at \in Nat /\ activity[k].at <= lastTick
    BY DEF OutageInv, SessInv, BaseInv, TypeOK, Activity, Has
  <2> QED
    BY <1>1, <1>2, <2>1
<1>6. ASSUME NEW k \in Keys, Has(sessions', k)
      PROVE  /\ LiveCovered(sessions'[k], outages')
             /\ GapsBegin(sessions'[k].gaps, lastTick') /\ sessions'[k].lastObs <= lastTick'
  <2>1. CASE /\ Has(sessions, k)
             /\ sessions'[k].start = AfterGap[k].start
             /\ sessions'[k].gaps = AfterGap[k].gaps
             /\ sessions'[k].lastObs \in {AfterGap[k].lastObs, now}
    <3>1. /\ LiveCovered(AfterGap[k], outages')
          /\ GapsBegin(AfterGap[k].gaps, now) /\ AfterGap[k].lastObs <= now
      BY <1>2, <2>1, GapTaken
    <3> QED
      BY <1>1, <1>2, <2>1, <3>1 DEF LiveCovered
  <2>2. CASE /\ sessions'[k].start = now /\ sessions'[k].gaps = <<>>
             /\ sessions'[k].lastObs = now
    <3>1. \A o \in outages' : ~(now <= o.from /\ o.from < o.to)
      BY <1>1, <1>2
    <3>2. GapsBegin(<<>>, now)
      BY DEF GapsBegin
    <3> QED
      BY <1>1, <1>2, <2>2, <3>1, <3>2 DEF LiveCovered
  <2> QED
    BY <1>6, <2>1, <2>2
<1>7. \A k \in Keys : \A d \in {pending', snapshot'} : Has(d, k) =>
         /\ StoredCovered(d[k], outages')
         /\ GapsBegin(d[k].gaps, lastTick') /\ d[k].lastObs <= lastTick'
  BY <1>2, StoredOutage
<1>8. \A rec \in Ended' : EndCovered(rec, outages') /\ Since(rec, lastTick')
  BY <1>2, <1>3, EndedOutage
<1> QED
  BY <1>2, <1>4, <1>5, <1>6, <1>7, <1>8 DEF OutageInv

LEMMA OutageTick ==
    ASSUME SessInv, OutageInv, Observe \/ TickAborts
    PROVE  OutageInv'
<1>0. now \in Nat /\ BaseInv
  BY DEF SessInv, BaseInv, TypeOK
<1>1. CASE TickAborts
  <2>1. /\ Ticks /\ now' = now /\ io' = <<>> /\ history' = history
        /\ pending' = pending /\ snapshot' = snapshot /\ activity' = activity
        /\ sessions' = AfterGap
    BY <1>1 DEF TickAborts, Ticks, Idle, clockVars, diskVars
  <2>2. \A k \in Keys : Has(AfterGap, k) => Has(sessions, k)
    BY <1>0, AfterGapType
  <2>3. \A k \in Keys : Has(activity', k) => Has(activity, k) /\ activity'[k] = activity[k]
    BY <2>1
  <2>4. \A k \in Keys : Has(sessions', k) =>
           /\ Has(sessions, k)
           /\ sessions'[k].start = AfterGap[k].start
           /\ sessions'[k].gaps = AfterGap[k].gaps
           /\ sessions'[k].lastObs \in {AfterGap[k].lastObs, now}
    BY <2>1, <2>2
  <2> QED
    BY <2>1, <2>3, <2>4, OutageTicks
<1>2. CASE Observe
  <2>1. PICK seen \in SUBSET Keys : \E act \in SUBSET seen : ObserveTick(seen, act)
    BY <1>2 DEF Observe
  <2>2. PICK act \in SUBSET seen : ObserveTick(seen, act)
    BY <2>1
  <2>3. /\ Ticks /\ now' = now /\ io' = <<>> /\ history' = history
        /\ pending' = pending /\ snapshot' = snapshot
        /\ sessions' = [k \in Keys |-> AfterTick(k, AfterGap[k], act)]
    BY <2>2 DEF ObserveTick, Ticks, Idle, clockVars, diskVars
  <2>4. \A k \in Keys : Has(activity', k) =>
           activity'[k].at = now \/ (Has(activity, k) /\ activity'[k] = activity[k])
    BY <2>2 DEF ObserveTick, Has
  <2>5. ASSUME NEW k \in Keys, Has(sessions', k)
        PROVE  \/ /\ Has(sessions, k)
                  /\ sessions'[k].start = AfterGap[k].start
                  /\ sessions'[k].gaps = AfterGap[k].gaps
                  /\ sessions'[k].lastObs \in {AfterGap[k].lastObs, now}
               \/ /\ sessions'[k].start = now /\ sessions'[k].gaps = <<>>
                  /\ sessions'[k].lastObs = now
    <3> DEFINE old == AfterGap[k]
               dt == Counted(sessTick, now)
    <3>1. ASSUME NEW rec \in Session
          PROVE  /\ Sampled(rec, dt, now).start = rec.start
                 /\ Sampled(rec, dt, now).gaps = rec.gaps
                 /\ Sampled(rec, dt, now).lastObs = now
      BY DEF Sampled, Session
    <3>2. /\ old \in Session \cup {None} /\ (old # None <=> Has(sessions, k))
          /\ NewSession(now) \in Session /\ NewSession(now).start = now
          /\ NewSession(now).gaps = <<>>
      BY <1>0, AfterGapType, NewSessionType DEF Sessions, Has, NewSession
    <3>3. \/ sessions'[k] = old
          \/ old # None /\ sessions'[k] = Sampled(old, dt, now)
          \/ old = None /\ sessions'[k] = Sampled(NewSession(now), dt, now)
      BY <2>3, <2>5 DEF AfterTick, Has
    <3> HIDE DEF old, dt
    <3>4. CASE sessions'[k] = old
      BY <2>5, <3>2, <3>4 DEF old, Has
    <3>5. CASE old # None /\ sessions'[k] = Sampled(old, dt, now)
      <4>1. old \in Session
        BY <3>2, <3>5
      <4>2. /\ sessions'[k].start = old.start /\ sessions'[k].gaps = old.gaps
            /\ sessions'[k].lastObs = now
        BY <3>1, <3>5, <4>1
      <4> QED
        BY <3>2, <3>5, <4>2 DEF old
    <3>6. CASE old = None /\ sessions'[k] = Sampled(NewSession(now), dt, now)
      <4>1. /\ sessions'[k].start = now /\ sessions'[k].gaps = <<>>
            /\ sessions'[k].lastObs = now
        BY <3>1, <3>2, <3>6
      <4> QED
        BY <4>1
    <3> QED
      BY <3>3, <3>4, <3>5, <3>6
  <2> QED
    BY <2>3, <2>4, <2>5, OutageTicks
<1> QED
  BY <1>1, <1>2

\* What is read back at a start misses the time the program was not running.
LEMMA OutageStart ==
    ASSUME SessInv, OutageInv, Start PROVE OutageInv'
<1>1. /\ now \in Nat /\ lastTick \in Nat /\ lastTick <= now
      /\ \A o \in NewOutage : o.from \in Nat /\ o.to \in Nat /\ o.to <= now
  BY OutageTimes
<1>2. /\ io = <<>> /\ io' = <<>> /\ lastTick' = now /\ sessions' = Empty /\ phase' = "idle"
      /\ history' = history /\ snapshot' = snapshot /\ activity' = activity
      /\ outages' \subseteq NewOutage
  BY DEF Start, diskVars, SessInv, BaseInv, StoppedInv, NewOutage
<1>3. Ended' = Ended
  BY <1>2 DEF Ended, Records, Closing
<1>4. \A o \in outages' : o.to <= lastTick'
  BY <1>1, <1>2
<1>5. \A k \in Keys : Has(activity', k) => activity'[k].at <= lastTick'
  <2>1. \A k \in Keys : Has(activity, k) =>
           activity[k].at \in Nat /\ activity[k].at <= lastTick
    BY DEF OutageInv, SessInv, BaseInv, TypeOK, Activity, Has
  <2> QED
    BY <1>1, <1>2, <2>1 DEF Has
<1>6. \A k \in Keys : ~Has(sessions', k)
  BY <1>2, EmptyTypes
<1>7. \A k \in Keys : Has(snapshot, k) =>
         /\ StoredCovered(snapshot[k], outages')
         /\ GapsBegin(snapshot[k].gaps, now) /\ snapshot[k].lastObs <= now
  BY <1>2, StoredOutage
<1>8. \A k \in Keys : Has(pending', k) => Has(snapshot, k) /\ pending'[k] = snapshot[k]
  BY DEF Start, Has
<1>9. \A rec \in Ended' : EndCovered(rec, outages') /\ Since(rec, lastTick')
  BY <1>2, <1>3, EndedOutage
<1> QED
  BY <1>2, <1>4, <1>5, <1>6, <1>7, <1>8, <1>9 DEF OutageInv, Has

LEMMA OutageDisk ==
    ASSUME SessInv, OutageInv, AppendSession \/ SaveSnapshot
    PROVE  OutageInv'
<1>1. /\ io \in Seq(Op) /\ io # <<>> /\ io' = Tail(io)
      /\ now' = now /\ lastTick' = lastTick /\ phase' = phase
      /\ sessions' = sessions /\ pending' = pending
      /\ activity' = activity /\ outages' = outages
      /\ sessions \in Sessions /\ pending \in Sessions
      /\ history \in Seq(Completed)
  BY DEF AppendSession, SaveSnapshot, clockVars, procVars, tickVars, SessInv, BaseInv,
     TypeOK, Op
<1>2. Closing' = {}
  <2>1. \A i \in DOMAIN io' : i + 1 \in DOMAIN io /\ i + 1 # 1 /\ io'[i] = io[i + 1]
    BY <1>1, WritesLeft
  <2>2. \A i \in DOMAIN io' : io'[i].op # "append"
    BY <2>1 DEF SessInv, WritesInv
  <2>3. io' # <<>> => 1 \in DOMAIN io' /\ Head(io') = io'[1]
    BY <1>1, WritesLeft
  <2> QED
    BY <2>2, <2>3 DEF Closing
<1>3. CASE AppendSession
  <2> DEFINE rec == Head(io).rec
  <2>1. Closing = {rec} /\ history' = Append(history, rec) /\ snapshot' = snapshot
    BY <1>1, <1>3 DEF AppendSession, Closing
  <2>2. rec \in Completed
    BY <2>1, RecordTypes DEF SessInv
  <2> HIDE DEF rec
  <2>3. /\ DOMAIN history = 1 .. Len(history)
        /\ DOMAIN history' = 1 .. Len(history) + 1 /\ Len(history) \in Nat
        /\ \A i \in 1 .. Len(history) : history'[i] = history[i]
        /\ history'[Len(history) + 1] = rec
    BY <1>1, <2>1, <2>2, AppendProperties, LenProperties
  <2>4. Ended' = Ended
    BY <1>2, <2>1, <2>3 DEF Records, Ended
  <2>5. \A k \in Keys : Has(sessions', k) =>
           Has(sessions, k) /\ Alike(sessions'[k], sessions[k])
    BY <1>1 DEF Alike
  <2> QED
    BY <1>1, <2>1, <2>4, <2>5, OutageQuiet DEF OutageInv
<1>4. CASE SaveSnapshot
  <2>1. history' = history /\ snapshot' = Merged(sessions, pending) /\ Closing = {}
    BY <1>1, <1>4, WritesLeft DEF SaveSnapshot, SessInv, WritesInv, Closing
  <2>2. Ended' = Ended
    BY <1>2, <2>1 DEF Records, Ended
  <2>3. ASSUME NEW k \in Keys, Has(snapshot', k)
        PROVE  \/ Has(pending, k) /\ Alike(snapshot'[k], pending[k])
               \/ Has(sessions, k) /\ Alike(snapshot'[k], sessions[k])
    <3>1. \A rec \in Session : Alike([rec EXCEPT !.consecutive = 0], rec)
      BY DEF Alike, Session
    <3>2. \/ Has(pending, k) /\ snapshot'[k] = [pending[k] EXCEPT !.consecutive = 0]
          \/ Has(sessions, k) /\ snapshot'[k] = [sessions[k] EXCEPT !.consecutive = 0]
      BY <2>1, <2>3 DEF Merged, Has, Confirmed
    <3>3. /\ Has(pending, k) => pending[k] \in Session
          /\ Has(sessions, k) => sessions[k] \in Session
      BY <1>1 DEF Sessions, Has
    <3> QED
      BY <3>1, <3>2, <3>3
  <2>4. ASSUME NEW k \in Keys, Has(snapshot', k)
        PROVE  /\ StoredCovered(snapshot'[k], outages)
               /\ GapsBegin(snapshot'[k].gaps, lastTick) /\ snapshot'[k].lastObs <= lastTick
    <3>1. CASE Has(pending, k) /\ Alike(snapshot'[k], pending[k])
      BY <3>1 DEF OutageInv, Alike, StoredCovered
    <3>2. CASE Has(sessions, k) /\ Alike(snapshot'[k], sessions[k])
      BY <3>2 DEF OutageInv, Alike, StoredCovered, LiveCovered
    <3> QED
      BY <2>3, <2>4, <3>1, <3>2
  <2> QED
    BY <1>1, <2>2, <2>4 DEF OutageInv
<1> QED
  BY <1>3, <1>4

\* The gap of a restart reaches from the last sample to now: with it, every outage
\* is covered.
LEMMA RestartCovers ==
    ASSUME SessInv, OutageInv, NEW k \in Keys, Has(pending, k)
    PROVE  LET gaps == Append(pending[k].gaps, RestartGap(k))
           IN  /\ pending[k] \in Session /\ RestartGap(k) \in Gap
               /\ \A o \in outages : pending[k].start <= o.from /\ o.from < o.to =>
                     Covers(gaps, o.from, o.to)
               /\ GapsBegin(gaps, lastTick)
               /\ Covers(gaps, lastTick, now)
<1> DEFINE gap == RestartGap(k)
           gaps == Append(pending[k].gaps, gap)
<1>1. /\ now \in Nat /\ lastTick \in Nat /\ lastTick <= now
      /\ \A o \in outages : o.from \in Nat /\ o.to \in Nat /\ o.to <= now
  BY OutageTimes DEF NewOutage
<1>2. pending[k] \in Session
  BY DEF SessInv, BaseInv, TypeOK, Sessions, Has
<1>3. /\ pending[k].gaps \in Seq(Gap) /\ pending[k].lastObs \in Nat
      /\ gap \in Gap /\ gap.from = pending[k].lastObs /\ gap.to = now
  BY <1>1, <1>2 DEF Session, RestartGap, Gap
<1>4. /\ StoredCovered(pending[k], outages) /\ GapsBegin(pending[k].gaps, lastTick)
      /\ pending[k].lastObs <= lastTick
  BY DEF OutageInv
<1> HIDE DEF gap
<1>5. /\ \A f, t : Covers(pending[k].gaps, f, t) => Covers(gaps, f, t)
      /\ \A f, t \in Nat : gap.from <= f /\ t <= gap.to => Covers(gaps, f, t)
      /\ \A t \in Nat : GapsBegin(pending[k].gaps, t) /\ gap.from <= t => GapsBegin(gaps, t)
  BY <1>3, CoversAppend
<1> HIDE DEF gaps
<1>6. \A o \in outages : pending[k].start <= o.from /\ o.from < o.to =>
         Covers(gaps, o.from, o.to)
  BY <1>1, <1>3, <1>4, <1>5 DEF StoredCovered
<1>7. GapsBegin(gaps, lastTick)
  BY <1>1, <1>3, <1>4, <1>5
<1>8. Covers(gaps, lastTick, now)
  <2>1. gap.from <= lastTick /\ now <= gap.to
    BY <1>1, <1>3, <1>4
  <2> QED
    BY <1>1, <1>5, <2>1
<1> QED
  BY <1>2, <1>3, <1>6, <1>7, <1>8 DEF gaps, gap

LEMMA OutageCloses ==
    ASSUME SessInv, OutageInv, NEW k \in Keys, CloseIdle(k) \/ CloseRestored(k)
    PROVE  OutageInv'
<1>0. /\ sessions \in Sessions /\ pending \in Sessions
      /\ now \in Nat /\ lastTick \in Nat
  BY DEF SessInv, BaseInv, TypeOK
<1>1. /\ io = <<>> /\ history' = history /\ snapshot' = snapshot /\ outages' = outages
      /\ activity' = activity /\ phase' = phase /\ now' = now /\ lastTick' = lastTick
  BY DEF CloseIdle, CloseRestored, clockVars, tickVars, diskVars
<1>2. Closing = {} /\ Records' = Records
  BY <1>1 DEF Closing, Records
<1>3. CASE CloseIdle(k)
  <2> DEFINE rec == Finalized(k, sessions[k], now, FALSE, None)
  <2>1. /\ Has(sessions, k) /\ now = lastTick /\ pending' = pending
        /\ sessions' = [sessions EXCEPT ![k] = None]
        /\ io' = <<AppendOf(rec), SaveOf(sessions', pending)>>
    BY <1>3 DEF CloseIdle, IdleTooLong, Confirmed, OutageInv
  <2>2. /\ rec.id = <<k, sessions[k].start>> /\ rec.end = now
        /\ rec.gaps = sessions[k].gaps
        /\ rec.exact = (sessions[k].gaps = <<>>)
    BY DEF Finalized
  <2> HIDE DEF rec
  <2>3. Closing' = {rec}
    BY <2>1 DEF Closing, AppendOf
  <2>4. EndCovered(rec, outages) /\ Since(rec, lastTick)
    <3>1. sessions[k].gaps = <<>> => \A f, t : ~Covers(sessions[k].gaps, f, t)
      BY DEF Covers
    <3>2. rec.id[2] = sessions[k].start
      BY <2>2
    <3>3. EndCovered(rec, outages)
      BY <2>1, <2>2, <3>1, <3>2 DEF OutageInv, LiveCovered, EndCovered
    <3>4. ~(rec.end > lastTick)
      BY <1>0, <2>1, <2>2
    <3> QED
      BY <3>3, <3>4 DEF Since
  <2>5. \A j \in Keys : Has(sessions', j) =>
           Has(sessions, j) /\ Alike(sessions'[j], sessions[j])
    BY <1>0, <2>1 DEF Sessions, Has, Alike
  <2>6. \A old \in Ended' : old \in Ended \/ (EndCovered(old, outages) /\ Since(old, lastTick))
    BY <1>2, <2>3, <2>4 DEF Ended
  <2> QED
    BY <1>1, <2>1, <2>5, <2>6, OutageQuiet DEF OutageInv
<1>4. CASE CloseRestored(k)
  <2> DEFINE rec == Finalized(k, pending[k], now, TRUE, RestartGap(k))
             gaps == Append(pending[k].gaps, RestartGap(k))
  <2>1. /\ Has(pending, k) /\ sessions' = sessions
        /\ pending' = [pending EXCEPT ![k] = None]
        /\ io' = <<AppendOf(rec), SaveOf(sessions, pending')>>
    BY <1>4 DEF CloseRestored
  <2>2. /\ rec.id = <<k, pending[k].start>> /\ rec.end = now
        /\ rec.gaps = gaps /\ ~rec.exact
    BY DEF Finalized
  <2>3. /\ \A o \in outages : pending[k].start <= o.from /\ o.from < o.to =>
              Covers(gaps, o.from, o.to)
        /\ Covers(gaps, lastTick, now)
    BY <2>1, RestartCovers
  <2> HIDE DEF rec, gaps
  <2>4. Closing' = {rec}
    BY <2>1 DEF Closing, AppendOf
  <2>5. EndCovered(rec, outages) /\ Since(rec, lastTick)
    <3>1. rec.id[2] = pending[k].start
      BY <2>2
    <3> QED
      BY <2>2, <2>3, <3>1 DEF EndCovered, Since
  <2>6. \A j \in Keys : Has(pending', j) => Has(pending, j) /\ pending'[j] = pending[j]
    BY <1>0, <2>1 DEF Sessions, Has
  <2>7. \A j \in Keys : Has(sessions', j) =>
           Has(sessions, j) /\ Alike(sessions'[j], sessions[j])
    BY <2>1 DEF Alike
  <2>8. \A old \in Ended' : old \in Ended \/ (EndCovered(old, outages) /\ Since(old, lastTick))
    BY <1>2, <2>4, <2>5 DEF Ended
  <2> QED
    BY <1>1, <2>6, <2>7, <2>8, OutageQuiet DEF OutageInv
<1> QED
  BY <1>3, <1>4

LEMMA OutageResumes ==
    ASSUME SessInv, OutageInv, NEW k \in Keys, ResumeRestored(k)
    PROVE  OutageInv'
<1> DEFINE rec == Resumed(pending[k], RestartGap(k), activity[k].at)
           gaps == Append(pending[k].gaps, RestartGap(k))
<1>0. sessions \in Sessions /\ pending \in Sessions
  BY DEF SessInv, BaseInv, TypeOK
<1>1. /\ io = <<>> /\ io' = <<>> /\ history' = history /\ snapshot' = snapshot
      /\ outages' = outages /\ activity' = activity
      /\ phase' = phase /\ now' = now /\ lastTick' = lastTick
      /\ Has(pending, k) /\ Has(activity, k)
      /\ pending' = [pending EXCEPT ![k] = None]
      /\ sessions' = [sessions EXCEPT ![k] = rec]
  BY DEF ResumeRestored, StillActive, clockVars, tickVars, diskVars
<1>2. /\ pending[k] \in Session
      /\ \A o \in outages : pending[k].start <= o.from /\ o.from < o.to =>
            Covers(gaps, o.from, o.to)
      /\ GapsBegin(gaps, lastTick)
  BY <1>1, RestartCovers
<1>3. rec.start = pending[k].start /\ rec.gaps = gaps /\ rec.lastObs = activity[k].at
  BY <1>2 DEF Resumed, Session
<1> HIDE DEF rec, gaps
<1>4. /\ LiveCovered(rec, outages) /\ GapsBegin(rec.gaps, lastTick)
      /\ rec.lastObs <= lastTick
  BY <1>1, <1>2, <1>3 DEF OutageInv, LiveCovered
<1>5. Ended' = Ended
  BY <1>1 DEF Ended, Records, Closing
<1>6. \A j \in Keys : Has(sessions', j) =>
         /\ LiveCovered(sessions'[j], outages')
         /\ GapsBegin(sessions'[j].gaps, lastTick') /\ sessions'[j].lastObs <= lastTick'
  BY <1>0, <1>1, <1>4 DEF OutageInv, Sessions, Has
<1>7. \A j \in Keys : Has(pending', j) => Has(pending, j) /\ pending'[j] = pending[j]
  BY <1>0, <1>1 DEF Sessions, Has
<1>8. \A j \in Keys : \A d \in {pending', snapshot'} : Has(d, j) =>
         /\ StoredCovered(d[j], outages')
         /\ GapsBegin(d[j].gaps, lastTick') /\ d[j].lastObs <= lastTick'
  BY <1>1, <1>7 DEF OutageInv, Has
<1>9. /\ \A o \in outages' : o.to <= lastTick'
      /\ \A j \in Keys : Has(activity', j) => activity'[j].at <= lastTick'
      /\ phase' = "tick" => now' = lastTick'
      /\ \A old \in Ended' : EndCovered(old, outages') /\ Since(old, lastTick')
  BY <1>1, <1>5 DEF OutageInv, Has
<1> QED
  BY <1>6, <1>8, <1>9 DEF OutageInv

\* The other steps leave the records of the sessions as they are.
LEMMA OutageOther ==
    ASSUME SessInv, OutageInv,
           \/ Advance \/ Crash \/ Exit \/ TickEnds
           \/ ReconcileBegin \/ ReconcileEnds \/ Flush \/ CloseApp
           \/ \E k \in Keys : IncidentCloses(k)
    PROVE  OutageInv'
<1>1. /\ UNCHANGED <<lastTick, snapshot, outages, history>>
      /\ phase' = "tick" => now' = lastTick'
      /\ activity' = activity \/ activity' = Empty
  BY DEF Advance, Crash, Exit, Stopped, TickEnds, ReconcileBegin, ReconcileEnds, Flush,
     CloseApp, IncidentCloses, Idle, clockVars, procVars, tickVars, diskVars, SessInv,
     BaseInv, StoppedInv
<1>2. Ended' \subseteq Ended
  <2>1. io' = <<>> \/ io' = io \/ io' = <<SaveOf(sessions, pending)>>
    BY DEF Advance, Crash, Exit, Stopped, TickEnds, ReconcileBegin, ReconcileEnds, Flush,
       CloseApp, IncidentCloses
  <2>2. SaveOf(sessions, pending).op = "save"
    BY DEF SaveOf
  <2>3. Closing' \subseteq Closing
    BY <2>1, <2>2 DEF Closing
  <2> QED
    BY <1>1, <2>3 DEF Ended, Records
<1>3. \A k \in Keys : Has(pending', k) => Has(pending, k) /\ pending'[k] = pending[k]
  <2>1. pending' = pending \/ pending' = Empty
    BY DEF Advance, Crash, Exit, Stopped, TickEnds, ReconcileBegin, ReconcileEnds, Flush,
       CloseApp, IncidentCloses
  <2> QED
    BY <2>1, EmptyTypes
<1>4. ASSUME NEW k \in Keys, Has(sessions', k)
      PROVE  Has(sessions, k) /\ Alike(sessions'[k], sessions[k])
  <2>1. CASE sessions' = sessions \/ sessions' = Empty
    BY <1>4, <2>1, EmptyTypes DEF Alike
  <2>2. CASE TickEnds
    <3>1. CASE Confirmed(sessions, k)
      <4> DEFINE new == sessions[k].incidents
                           \cup {inc \in incidents \ linked : inc.workload = k}
      <4>1. sessions[k] \in Session /\ Has(sessions, k)
        BY <3>1 DEF SessInv, BaseInv, TypeOK, Sessions, Confirmed, Has
      <4>2. sessions'[k] = [sessions[k] EXCEPT !.incidents = new]
        BY <2>2, <3>1 DEF TickEnds
      <4> HIDE DEF new
      <4> QED
        BY <4>1, <4>2 DEF Session, Alike
    <3>2. CASE ~Confirmed(sessions, k)
      BY <1>4, <2>2, <3>2 DEF TickEnds, Has, Alike
    <3> QED
      BY <3>1, <3>2
  <2> QED
    BY <2>1, <2>2 DEF Advance, Crash, Exit, Stopped, ReconcileBegin, ReconcileEnds,
       Flush, CloseApp, IncidentCloses
<1> QED
  BY <1>1, <1>2, <1>3, <1>4, OutageQuiet

LEMMA OutageNext == SessInv /\ OutageInv /\ [Next]_vars => OutageInv'
<1> SUFFICES ASSUME SessInv, OutageInv, [Next]_vars PROVE OutageInv'
  OBVIOUS
<1>1. CASE UNCHANGED vars
  <2>1. Ended' = Ended /\ UNCHANGED <<lastTick, snapshot, outages>> /\ activity' = activity
        /\ phase' = phase /\ now' = now /\ sessions' = sessions /\ pending' = pending
    BY <1>1 DEF vars, Ended, Records, Closing
  <2>2. \A k \in Keys : Alike(sessions'[k], sessions[k])
    BY <2>1 DEF Alike
  <2> QED
    BY <2>1, <2>2, OutageQuiet DEF OutageInv
<1>2. CASE Start
  BY <1>2, OutageStart
<1>3. CASE AppendSession \/ SaveSnapshot
  BY <1>3, OutageDisk
<1>4. CASE Observe \/ TickAborts
  BY <1>4, OutageTick
<1>5. CASE \E k \in Keys : CloseIdle(k) \/ Reconcile(k)
  BY <1>5, OutageCloses, OutageResumes DEF Reconcile
<1>6. CASE \/ Advance \/ Crash \/ Exit \/ TickEnds
           \/ ReconcileBegin \/ ReconcileEnds \/ Flush \/ CloseApp
           \/ \E k \in Keys : IncidentCloses(k)
  BY <1>6, OutageOther
<1> QED
  BY <1>1, <1>2, <1>3, <1>4, <1>5, <1>6 DEF Next

LEMMA OutageInit == Init => OutageInv
<1> SUFFICES ASSUME Init PROVE OutageInv
  OBVIOUS
<1>1. /\ outages = {} /\ phase = "idle" /\ io = <<>> /\ DOMAIN history = {}
      /\ sessions = Empty /\ pending = Empty /\ snapshot = Empty /\ activity = Empty
  BY DEF Init
<1>2. Ended = {}
  BY <1>1 DEF Ended, Records, Closing
<1> QED
  BY <1>1, <1>2, EmptyTypes DEF OutageInv

\* What was not watched is never passed off as watched: whatever the sequence of
\* suspends, kills and restarts, each lies in a gap of every session it fell in, and
\* such a session is not exact.
THEOREM OutagesAreInGaps == Spec => []EveryOutageIsRecorded
<1>1. OutageInv => EveryOutageIsRecorded
  BY DEF OutageInv, EveryOutageIsRecorded, EndCovered, Covers, Ended
<1> QED
  BY <1>1, OutageInit, OutageNext, SessInvariant, PTL DEF Spec

-----------------------------------------------------------------------------
(* An incident is linked once.  It is linked in the tick after it closed,  *)
(* to the session of its workload; a session of a later time begins after  *)
(* every incident of the earlier ones.  After a restart every incident is  *)
(* looked at again, in the first tick, when no session is confirmed yet,   *)
(* as long as the debounce asks for more than one sample.                  *)

Linked(rec, k, t) ==
    \A inc \in rec.incidents : inc.workload = k /\ rec.start <= inc.at /\ inc.at <= t

\* The records of workload k have no incident at time s or later.
Later(recs, k, s) ==
    \A rec \in recs : rec.id[1] = k => \A inc \in rec.incidents : inc.at < s

LinkOrder ==
    /\ \A rec \in Ended : \A inc \in rec.incidents :
          /\ inc.workload = rec.id[1] /\ rec.id[2] <= inc.at
          /\ inc.at <= rec.end /\ inc.at <= lastTick
    /\ \A k \in Keys : \A d \in {sessions, pending} :
          Has(d, k) => Later(Ended, k, d[k].start)
    /\ \A rec \in Closing : Later(Records, rec.id[1], rec.id[2])
    /\ \A i, j \in DOMAIN history : i < j /\ history[i].id[1] = history[j].id[1] =>
          \A inc \in history[i].incidents : inc.at < history[j].id[2]
    /\ \A k \in Keys : Has(snapshot, k) =>
          <<k, snapshot[k].start>> \in HistoryIds \/ Later(Records, k, snapshot[k].start)

LinkOpen ==
    \A k \in Keys : \A d \in {sessions, pending, snapshot} :
        Has(d, k) => Linked(d[k], k, lastTick)

\* An incident that was not looked at closed after the sessions in memory began,
\* unless a session is in its first tick.
LinkNew ==
    /\ \A inc \in incidents : inc.at <= now
    /\ startedAt <= lastTick
    /\ \A k \in Keys : Has(pending, k) => pending[k].start <= startedAt
    /\ \A k \in Keys : Has(sessions, k) =>
          \/ \A inc \in incidents \ linked : sessions[k].start <= inc.at
          \/ phase = "tick" /\ ~sessions[k].confirmed
    /\ \A k \in Keys : Has(activity, k) =>
          /\ up
          /\ phase # "tick" => \A inc \in incidents \ linked : startedAt <= inc.at

LinkInv == LinkOrder /\ LinkOpen /\ LinkNew

LEMMA IncidentTimes ==
    ASSUME SessInv
    PROVE  /\ now \in Nat /\ lastTick \in Nat /\ startedAt \in Nat /\ lastTick <= now
           /\ \A inc \in incidents : inc.at \in Nat
           /\ \A k \in Keys : \A d \in {sessions, pending, snapshot} : Has(d, k) =>
                 /\ d[k] \in Session /\ d[k].start \in Nat
                 /\ \A inc \in d[k].incidents : inc.at \in Nat
           /\ \A rec \in Ended : \A inc \in rec.incidents : inc.at \in Nat
<1>1. /\ now \in Nat /\ lastTick \in Nat /\ startedAt \in Nat /\ lastTick <= now
      /\ incidents \subseteq Incident
      /\ sessions \in Sessions /\ pending \in Sessions /\ snapshot \in Sessions
  BY DEF SessInv, BaseInv, TypeOK, ClockInv
<1>2. \A inc \in Incident : inc.at \in Nat
  BY DEF Incident
<1>3. \A k \in Keys : \A d \in {sessions, pending, snapshot} : Has(d, k) => d[k] \in Session
  BY <1>1 DEF Sessions, Has
<1>4. \A rec \in Session : rec.start \in Nat /\ rec.incidents \subseteq Incident
  BY DEF Session
<1>5. \A rec \in Completed : rec.incidents \subseteq Incident
  BY DEF Completed
<1>6. Ended \subseteq Completed
  BY RecordTypes DEF SessInv
<1> QED
  BY <1>1, <1>2, <1>3, <1>4, <1>5, <1>6

\* A step that leaves the records as they are, and what is in memory or empties it.
LEMMA LinkQuiet ==
    ASSUME LinkInv, UNCHANGED <<lastTick, history, snapshot, incidents>>,
           Closing' \subseteq Closing,
           \A inc \in incidents : inc.at <= now',
           \/ /\ UNCHANGED <<up, sessions, pending, linked, activity, startedAt>>
              /\ phase = "tick" <=> phase' = "tick"
           \/ /\ sessions' = Empty /\ pending' = Empty /\ activity' = Empty
              /\ startedAt' <= lastTick
    PROVE  LinkInv'
<1>1. Records' = Records /\ HistoryIds' = HistoryIds /\ Ended' \subseteq Ended
  BY DEF Records, HistoryIds, Ended
<1>2. \A k \in Keys : /\ Has(sessions', k) => Has(sessions, k) /\ sessions' = sessions
                      /\ Has(pending', k) => Has(pending, k) /\ pending' = pending
                      /\ Has(activity', k) => Has(activity, k) /\ activity' = activity
  BY EmptyTypes
<1>3. LinkOrder'
  <2>1. \A k \in Keys : \A d \in {sessions', pending'} :
           Has(d, k) => Later(Ended', k, d[k].start)
    BY <1>1, <1>2 DEF LinkInv, LinkOrder, Later
  <2>2. \A rec \in Ended' : \A inc \in rec.incidents :
           /\ inc.workload = rec.id[1] /\ rec.id[2] <= inc.at
           /\ inc.at <= rec.end /\ inc.at <= lastTick'
    BY <1>1 DEF LinkInv, LinkOrder
  <2>3. /\ \A rec \in Closing' : Later(Records', rec.id[1], rec.id[2])
        /\ \A k \in Keys : Has(snapshot', k) =>
              \/ <<k, snapshot'[k].start>> \in HistoryIds'
              \/ Later(Records', k, snapshot'[k].start)
    BY <1>1 DEF LinkInv, LinkOrder, Has
  <2>4. \A i, j \in DOMAIN history' : i < j /\ history'[i].id[1] = history'[j].id[1] =>
           \A inc \in history'[i].incidents : inc.at < history'[j].id[2]
    BY DEF LinkInv, LinkOrder
  <2> QED
    BY <2>1, <2>2, <2>3, <2>4 DEF LinkOrder
<1>4. LinkOpen'
  BY <1>2 DEF LinkInv, LinkOpen, Has
<1>5. LinkNew'
  <2>1. CASE /\ UNCHANGED <<up, sessions, pending, linked, activity, startedAt>>
             /\ phase = "tick" <=> phase' = "tick"
    BY <2>1 DEF LinkInv, LinkNew, Has
  <2>2. CASE /\ sessions' = Empty /\ pending' = Empty /\ activity' = Empty
             /\ startedAt' <= lastTick
    BY <2>2, EmptyTypes DEF LinkInv, LinkNew
  <2> QED
    BY <2>1, <2>2
<1> QED
  BY <1>3, <1>4, <1>5 DEF LinkInv

\* One sample confirms nothing, where the debounce asks for more.
LEMMA FirstSample ==
    ASSUME Samples > 1, NEW dt, NEW t \in Nat
    PROVE  ~Sampled(NewSession(t), dt, t).confirmed
<1> DEFINE rec == NewSession(t)
<1>1. rec \in Session /\ rec.consecutive = 0 /\ ~rec.confirmed
  BY NewSessionType DEF NewSession
<1>2. Samples \in Nat
  BY SessionConstants
<1> HIDE DEF rec
<1>3. Sampled(rec, dt, t).confirmed <=> 1 >= Samples
  BY <1>1, <1>2 DEF Sampled, Session
<1> QED
  BY <1>2, <1>3 DEF rec

\* A step that links nothing: memory keeps its sessions, or begins one now.
LEMMA LinkTick ==
    ASSUME Samples > 1, SessInv, LinkInv, Observe \/ TickAborts
    PROVE  LinkInv'
<1>0. /\ now \in Nat /\ lastTick \in Nat /\ startedAt \in Nat /\ lastTick <= now
      /\ BaseInv /\ \A rec \in Ended : \A inc \in rec.incidents : inc.at \in Nat
  BY IncidentTimes DEF SessInv
<1>1. /\ io = <<>> /\ io' = <<>> /\ lastTick' = now /\ lastTick < now /\ now' = now
      /\ history' = history /\ snapshot' = snapshot /\ incidents' = incidents
      /\ pending' = pending /\ linked' = linked /\ startedAt' = startedAt /\ phase = "idle"
      /\ up'
  BY <1>0 DEF Observe, ObserveTick, TickAborts, Ticks, Idle, clockVars, procVars, diskVars
<1>2. Records' = Records /\ HistoryIds' = HistoryIds /\ Ended' = Ended /\ Closing' = {}
  BY <1>1 DEF Records, HistoryIds, Ended, Closing
<1>3. ASSUME NEW k \in Keys, Has(sessions', k)
      PROVE  \/ /\ Has(sessions, k) /\ sessions'[k].start = sessions[k].start
                /\ sessions'[k].incidents = sessions[k].incidents
             \/ /\ sessions'[k].start = now /\ sessions'[k].incidents = {}
                /\ ~sessions'[k].confirmed /\ phase' = "tick"
  <2>1. ASSUME NEW rec \in Session, NEW gap
        PROVE  /\ WithGap(rec, gap).start = rec.start
               /\ WithGap(rec, gap).incidents = rec.incidents
    BY DEF WithGap, Session
  <2>2. /\ AfterGap[k] \in Session \cup {None} /\ (AfterGap[k] # None <=> Has(sessions, k))
        /\ sessions[k] \in Session \cup {None}
    BY <1>0, AfterGapType DEF Sessions, Has, BaseInv, TypeOK
  <2>3. Has(sessions, k) => /\ AfterGap[k].start = sessions[k].start
                            /\ AfterGap[k].incidents = sessions[k].incidents
    BY <2>1, <2>2 DEF AfterGap, Has
  <2>4. CASE TickAborts
    BY <1>3, <2>2, <2>3, <2>4 DEF TickAborts, Has
  <2>5. CASE Observe
    <3>1. PICK seen \in SUBSET Keys : \E act \in SUBSET seen : ObserveTick(seen, act)
      BY <2>5 DEF Observe
    <3>2. PICK act \in SUBSET seen : ObserveTick(seen, act)
      BY <3>1
    <3> DEFINE old == AfterGap[k]
               dt == Counted(sessTick, now)
    <3>3. ASSUME NEW rec \in Session
          PROVE  /\ Sampled(rec, dt, now).start = rec.start
                 /\ Sampled(rec, dt, now).incidents = rec.incidents
      BY DEF Sampled, Session
    <3>4. /\ NewSession(now) \in Session /\ NewSession(now).start = now
          /\ NewSession(now).incidents = {}
          /\ ~Sampled(NewSession(now), dt, now).confirmed
      BY <1>0, FirstSample, NewSessionType DEF NewSession
    <3>5. /\ phase' = "tick"
          /\ \/ sessions'[k] = old
             \/ old # None /\ sessions'[k] = Sampled(old, dt, now)
             \/ old = None /\ sessions'[k] = Sampled(NewSession(now), dt, now)
      BY <1>3, <3>2 DEF ObserveTick, AfterTick, Has
    <3> HIDE DEF old, dt
    <3>6. CASE sessions'[k] = old
      BY <1>3, <2>2, <2>3, <3>6 DEF old, Has
    <3>7. CASE old # None /\ sessions'[k] = Sampled(old, dt, now)
      <4>1. old \in Session
        BY <2>2, <3>7 DEF old
      <4>2. sessions'[k].start = old.start /\ sessions'[k].incidents = old.incidents
        BY <3>3, <3>7, <4>1
      <4> QED
        BY <2>2, <2>3, <3>7, <4>2 DEF old
    <3>8. CASE old = None /\ sessions'[k] = Sampled(NewSession(now), dt, now)
      <4>1. /\ sessions'[k].start = now /\ sessions'[k].incidents = {}
            /\ ~sessions'[k].confirmed
        BY <3>3, <3>4, <3>8
      <4> QED
        BY <3>5, <4>1
    <3> QED
      BY <3>5, <3>6, <3>7, <3>8
  <2> QED
    BY <2>4, <2>5
<1>4. LinkOrder'
  <2>1. \A rec \in Ended' : \A inc \in rec.incidents :
           /\ inc.workload = rec.id[1] /\ rec.id[2] <= inc.at
           /\ inc.at <= rec.end /\ inc.at <= lastTick' /\ inc.at < now
    BY <1>0, <1>1, <1>2 DEF LinkInv, LinkOrder
  <2>2. \A k \in Keys : \A d \in {sessions', pending'} :
           Has(d, k) => Later(Ended', k, d[k].start)
    <3>1. ASSUME NEW k \in Keys, Has(sessions', k)
          PROVE  Later(Ended', k, sessions'[k].start)
      BY <1>2, <1>3, <2>1, <3>1 DEF LinkInv, LinkOrder, Later
    <3>2. ASSUME NEW k \in Keys, Has(pending', k)
          PROVE  Later(Ended', k, pending'[k].start)
      BY <1>1, <1>2, <3>2 DEF LinkInv, LinkOrder
    <3> QED
      BY <3>1, <3>2
  <2>3. \A k \in Keys : Has(snapshot', k) =>
           \/ <<k, snapshot'[k].start>> \in HistoryIds'
           \/ Later(Records', k, snapshot'[k].start)
    BY <1>1, <1>2 DEF LinkInv, LinkOrder
  <2>4. \A i, j \in DOMAIN history' : i < j /\ history'[i].id[1] = history'[j].id[1] =>
           \A inc \in history'[i].incidents : inc.at < history'[j].id[2]
    BY <1>1 DEF LinkInv, LinkOrder
  <2> QED
    BY <1>2, <2>1, <2>2, <2>3, <2>4 DEF LinkOrder
<1>5. LinkOpen'
  <2>1. \A k \in Keys : \A d \in {sessions, pending, snapshot} :
           Has(d, k) => Linked(d[k], k, now)
    BY <1>0, IncidentTimes DEF LinkInv, LinkOpen, Linked
  <2>2. ASSUME NEW k \in Keys, Has(sessions', k) PROVE Linked(sessions'[k], k, now)
    BY <1>3, <2>1, <2>2 DEF Linked
  <2> QED
    BY <1>1, <2>1, <2>2 DEF LinkOpen
<1>6. LinkNew'
  <2>1. ASSUME NEW k \in Keys, Has(sessions', k)
        PROVE  \/ \A inc \in incidents' \ linked' : sessions'[k].start <= inc.at
               \/ phase' = "tick" /\ ~sessions'[k].confirmed
    BY <1>1, <1>3, <2>1 DEF LinkInv, LinkNew
  <2>2. \A k \in Keys : Has(activity', k) =>
           /\ up'
           /\ phase' # "tick" => \A inc \in incidents' \ linked' : startedAt' <= inc.at
    <3>1. phase' # "tick" => activity' = activity
      BY DEF Observe, ObserveTick, TickAborts
    <3> QED
      BY <1>1, <3>1 DEF LinkInv, LinkNew
  <2>3. /\ \A inc \in incidents' : inc.at <= now'
        /\ startedAt' <= lastTick'
        /\ \A k \in Keys : Has(pending', k) => pending'[k].start <= startedAt'
    BY <1>0, <1>1 DEF LinkInv, LinkNew
  <2> QED
    BY <2>1, <2>2, <2>3 DEF LinkNew
<1> QED
  BY <1>4, <1>5, <1>6 DEF LinkInv

\* _session_link_incidents.
LEMMA LinkTickEnds ==
    ASSUME SessInv, OutageInv, LinkInv, TickEnds
    PROVE  LinkInv'
<1>0. now = lastTick /\ BaseInv
  BY DEF TickEnds, OutageInv, SessInv
<1>1. /\ io = <<>> /\ io' = <<>> /\ lastTick' = lastTick /\ now' = now /\ phase' = "idle"
      /\ history' = history /\ snapshot' = snapshot /\ incidents' = incidents
      /\ pending' = pending /\ linked' = incidents /\ startedAt' = startedAt
      /\ activity' = activity /\ up' = up
  BY DEF TickEnds, LookedAt, clockVars, procVars, diskVars
<1>2. Records' = Records /\ HistoryIds' = HistoryIds /\ Ended' = Ended /\ Closing' = {}
  BY <1>1 DEF Records, HistoryIds, Ended, Closing
<1>3. ASSUME NEW k \in Keys, Has(sessions', k)
      PROVE  /\ Has(sessions, k) /\ sessions'[k].start = sessions[k].start
             /\ \A inc \in sessions'[k].incidents :
                   \/ inc \in sessions[k].incidents
                   \/ /\ inc \in incidents \ linked /\ inc.workload = k
                      /\ sessions[k].confirmed
  <2>1. CASE Confirmed(sessions, k)
    <3> DEFINE new == sessions[k].incidents
                         \cup {inc \in incidents \ linked : inc.workload = k}
    <3>1. sessions[k] \in Session /\ Has(sessions, k) /\ sessions[k].confirmed
      BY <1>0, <2>1 DEF BaseInv, TypeOK, Sessions, Confirmed, Has
    <3>2. sessions'[k] = [sessions[k] EXCEPT !.incidents = new]
      BY <2>1 DEF TickEnds
    <3> HIDE DEF new
    <3>3. sessions'[k].start = sessions[k].start /\ sessions'[k].incidents = new
      BY <3>1, <3>2 DEF Session
    <3> QED
      BY <3>1, <3>3 DEF new
  <2>2. CASE ~Confirmed(sessions, k)
    BY <1>3, <2>2 DEF TickEnds, Has
  <2> QED
    BY <2>1, <2>2
<1>4. LinkOrder'
  <2>1. \A k \in Keys : \A d \in {sessions', pending'} :
           Has(d, k) => Later(Ended', k, d[k].start)
    BY <1>1, <1>2, <1>3 DEF LinkInv, LinkOrder
  <2>2. /\ \A rec \in Ended' : \A inc \in rec.incidents :
              /\ inc.workload = rec.id[1] /\ rec.id[2] <= inc.at
              /\ inc.at <= rec.end /\ inc.at <= lastTick'
        /\ \A k \in Keys : Has(snapshot', k) =>
              \/ <<k, snapshot'[k].start>> \in HistoryIds'
              \/ Later(Records', k, snapshot'[k].start)
        /\ \A i, j \in DOMAIN history' : i < j /\ history'[i].id[1] = history'[j].id[1] =>
              \A inc \in history'[i].incidents : inc.at < history'[j].id[2]
    BY <1>1, <1>2 DEF LinkInv, LinkOrder
  <2> QED
    BY <1>2, <2>1, <2>2 DEF LinkOrder
<1>5. LinkOpen'
  <2>1. ASSUME NEW k \in Keys, Has(sessions', k)
        PROVE  Linked(sessions'[k], k, lastTick)
    <3>1. sessions[k].confirmed =>
             \A inc \in incidents \ linked : sessions[k].start <= inc.at
      BY <1>3, <2>1 DEF LinkInv, LinkNew
    <3>2. \A inc \in incidents : inc.at <= lastTick
      BY <1>0 DEF LinkInv, LinkNew
    <3>3. Linked(sessions[k], k, lastTick)
      BY <1>3, <2>1 DEF LinkInv, LinkOpen
    <3> QED
      BY <1>3, <2>1, <3>1, <3>2, <3>3 DEF Linked
  <2> QED
    BY <1>1, <2>1 DEF LinkInv, LinkOpen
<1>6. LinkNew'
  BY <1>1 DEF LinkInv, LinkNew
<1> QED
  BY <1>4, <1>5, <1>6 DEF LinkInv

\* The incident engine completes an incident now.
LEMMA LinkIncident ==
    ASSUME SessInv, LinkInv, NEW k \in Keys, IncidentCloses(k)
    PROVE  LinkInv'
<1>0. /\ now \in Nat /\ lastTick \in Nat /\ startedAt \in Nat /\ lastTick <= now
      /\ \A j \in Keys : Has(sessions, j) =>
            sessions[j].start \in Nat /\ sessions[j].start <= lastTick
  BY IncidentTimes DEF SessInv, TimesInv
<1>1. /\ io' = io /\ lastTick' = lastTick /\ now' = now /\ phase' = phase
      /\ history' = history /\ snapshot' = snapshot
      /\ incidents' = incidents \cup {[at |-> now, workload |-> k]}
      /\ sessions' = sessions /\ pending' = pending /\ linked' = linked
      /\ startedAt' = startedAt /\ activity' = activity /\ up' = up
  BY DEF IncidentCloses, clockVars, procVars, tickVars
<1>2. /\ Records' = Records /\ HistoryIds' = HistoryIds
      /\ Ended' = Ended /\ Closing' = Closing
  BY <1>1 DEF Records, HistoryIds, Ended, Closing
<1>3. LinkOrder' /\ LinkOpen'
  BY <1>1, <1>2 DEF LinkInv, LinkOrder, LinkOpen
<1>4. LinkNew'
  <2>1. \A inc \in incidents' : inc \in incidents \/ inc.at = now
    BY <1>1
  <2>2. startedAt <= now
    BY <1>0 DEF LinkInv, LinkNew
  <2>3. \A j \in Keys : Has(sessions, j) => sessions[j].start <= now
    BY <1>0
  <2> QED
    BY <1>0, <1>1, <2>1, <2>2, <2>3 DEF LinkInv, LinkNew
<1> QED
  BY <1>3, <1>4 DEF LinkInv

\* Every incident is to be looked at again.
LEMMA LinkStart ==
    ASSUME SessInv, LinkInv, Start PROVE LinkInv'
<1>0. /\ now \in Nat /\ lastTick \in Nat /\ lastTick <= now
      /\ \A k \in Keys : Has(snapshot, k) =>
            snapshot[k].start \in Nat /\ snapshot[k].start <= lastTick
      /\ \A rec \in Ended : \A inc \in rec.incidents : inc.at \in Nat
  BY IncidentTimes DEF SessInv, TimesInv
<1>1. /\ io = <<>> /\ io' = <<>> /\ lastTick' = now /\ now' = now /\ ~up
      /\ history' = history /\ snapshot' = snapshot /\ incidents' = incidents
      /\ sessions' = Empty /\ activity' = activity /\ startedAt' = now
  BY DEF Start, diskVars, SessInv, BaseInv, StoppedInv
<1>2. /\ Records' = Records /\ HistoryIds' = HistoryIds /\ Closing' = {}
      /\ Ended' = Records /\ Ended = Records
  BY <1>1 DEF Records, HistoryIds, Ended, Closing
<1>3. \A k \in Keys :
         /\ ~Has(sessions', k)
         /\ Has(pending', k) => /\ Has(snapshot, k) /\ pending'[k] = snapshot[k]
                                /\ <<k, snapshot[k].start>> \notin HistoryIds
  BY <1>1, EmptyTypes DEF Start, Has
<1>4. LinkOrder'
  <2>1. \A k \in Keys : \A d \in {sessions', pending'} :
           Has(d, k) => Later(Ended', k, d[k].start)
    BY <1>2, <1>3 DEF LinkInv, LinkOrder
  <2>2. \A rec \in Ended' : \A inc \in rec.incidents :
           /\ inc.workload = rec.id[1] /\ rec.id[2] <= inc.at
           /\ inc.at <= rec.end /\ inc.at <= lastTick'
    BY <1>0, <1>1, <1>2 DEF LinkInv, LinkOrder
  <2>3. /\ \A k \in Keys : Has(snapshot', k) =>
              \/ <<k, snapshot'[k].start>> \in HistoryIds'
              \/ Later(Records', k, snapshot'[k].start)
        /\ \A i, j \in DOMAIN history' : i < j /\ history'[i].id[1] = history'[j].id[1] =>
              \A inc \in history'[i].incidents : inc.at < history'[j].id[2]
    BY <1>1, <1>2 DEF LinkInv, LinkOrder
  <2> QED
    BY <1>2, <2>1, <2>2, <2>3 DEF LinkOrder
<1>5. LinkOpen'
  <2>1. \A k \in Keys : Has(snapshot, k) => Linked(snapshot[k], k, now)
    BY <1>0, IncidentTimes DEF LinkInv, LinkOpen, Linked
  <2> QED
    BY <1>1, <1>3, <2>1 DEF LinkOpen, Has
<1>6. LinkNew'
  <2>1. \A k \in Keys : ~Has(activity', k)
    BY <1>1 DEF LinkInv, LinkNew
  <2>2. \A k \in Keys : Has(pending', k) => pending'[k].start <= startedAt'
    <3>1. \A k \in Keys : Has(snapshot, k) => snapshot[k].start <= now
      BY <1>0
    <3> QED
      BY <1>1, <1>3, <3>1
  <2>3. \A inc \in incidents' : inc.at <= now'
    BY <1>1 DEF LinkInv, LinkNew
  <2>4. startedAt' <= lastTick'
    BY <1>0, <1>1
  <2> QED
    BY <1>3, <2>1, <2>2, <2>3, <2>4 DEF LinkNew
<1> QED
  BY <1>4, <1>5, <1>6 DEF LinkInv

LEMMA LinkDisk ==
    ASSUME SessInv, LinkInv, AppendSession \/ SaveSnapshot
    PROVE  LinkInv'
<1>1. /\ io \in Seq(Op) /\ io # <<>> /\ io' = Tail(io)
      /\ now' = now /\ lastTick' = lastTick /\ phase' = phase /\ up' = up /\ up
      /\ sessions' = sessions /\ pending' = pending /\ incidents' = incidents
      /\ activity' = activity /\ linked' = linked /\ startedAt' = startedAt
      /\ sessions \in Sessions /\ pending \in Sessions
      /\ history \in Seq(Completed)
  BY DEF AppendSession, SaveSnapshot, clockVars, procVars, tickVars, SessInv, BaseInv,
     TypeOK, Op, StoppedInv
<1>2. Closing' = {}
  <2>1. \A i \in DOMAIN io' : i + 1 \in DOMAIN io /\ i + 1 # 1 /\ io'[i] = io[i + 1]
    BY <1>1, WritesLeft
  <2>2. \A i \in DOMAIN io' : io'[i].op # "append"
    BY <2>1 DEF SessInv, WritesInv
  <2>3. io' # <<>> => 1 \in DOMAIN io' /\ Head(io') = io'[1]
    BY <1>1, WritesLeft
  <2> QED
    BY <2>2, <2>3 DEF Closing
<1>3. LinkNew'
  BY <1>1 DEF LinkInv, LinkNew
<1>4. CASE AppendSession
  <2> DEFINE rec == Head(io).rec
  <2>1. Closing = {rec} /\ history' = Append(history, rec) /\ snapshot' = snapshot
    BY <1>1, <1>4 DEF AppendSession, Closing
  <2>2. rec \in Completed
    BY <2>1, RecordTypes DEF SessInv
  <2> HIDE DEF rec
  <2>3. /\ DOMAIN history = 1 .. Len(history)
        /\ DOMAIN history' = 1 .. Len(history) + 1 /\ Len(history) \in Nat
        /\ \A i \in 1 .. Len(history) : history'[i] = history[i]
        /\ history'[Len(history) + 1] = rec
    BY <1>1, <2>1, <2>2, AppendProperties, LenProperties
  <2>4. Records' = Records \cup {rec} /\ HistoryIds' = HistoryIds \cup {rec.id}
    BY <2>3 DEF Records, HistoryIds
  <2>5. Ended' = Ended /\ Ended = Records' /\ HistoryIds' = GoneIds
    BY <1>2, <2>1, <2>4, RecordTypes DEF Ended, GoneIds, SessInv
  <2>6. ASSUME NEW i \in DOMAIN history', NEW j \in DOMAIN history', i < j,
               history'[i].id[1] = history'[j].id[1]
        PROVE  \A inc \in history'[i].incidents : inc.at < history'[j].id[2]
    <3>1. i \in DOMAIN history /\ history'[i] = history[i] /\ history[i] \in Records
      BY <2>3, <2>6 DEF Records
    <3>2. CASE j \in DOMAIN history
      BY <2>3, <2>6, <3>1, <3>2 DEF LinkInv, LinkOrder
    <3>3. CASE j = Len(history) + 1
      BY <2>1, <2>3, <2>6, <3>1, <3>3 DEF LinkInv, LinkOrder, Later
    <3> QED
      BY <2>3, <3>2, <3>3
  <2>7. ASSUME NEW k \in Keys, Has(snapshot', k)
        PROVE  \/ <<k, snapshot'[k].start>> \in HistoryIds'
               \/ Later(Records', k, snapshot'[k].start)
    <3>1. \/ <<k, snapshot[k].start>> \in GoneIds
          \/ Has(sessions, k) /\ sessions[k].start = snapshot[k].start
          \/ Has(pending, k) /\ pending[k].start = snapshot[k].start
      BY <1>1, <2>1, <2>7 DEF SessInv, FileIsKnown, Confirmed, Has
    <3>2. \A d \in {sessions, pending} : Has(d, k) => Later(Ended, k, d[k].start)
      BY DEF LinkInv, LinkOrder
    <3> QED
      BY <2>1, <2>5, <3>1, <3>2
  <2>8. LinkOrder'
    <3>1. /\ \A old \in Ended' : \A inc \in old.incidents :
                /\ inc.workload = old.id[1] /\ old.id[2] <= inc.at
                /\ inc.at <= old.end /\ inc.at <= lastTick'
          /\ \A k \in Keys : \A d \in {sessions', pending'} :
                Has(d, k) => Later(Ended', k, d[k].start)
      BY <1>1, <2>5 DEF LinkInv, LinkOrder
    <3> QED
      BY <1>2, <2>6, <2>7, <3>1 DEF LinkOrder
  <2>9. LinkOpen'
    BY <1>1, <2>1 DEF LinkInv, LinkOpen
  <2> QED
    BY <1>3, <2>8, <2>9 DEF LinkInv
<1>5. CASE SaveSnapshot
  <2>1. history' = history /\ snapshot' = Merged(sessions, pending) /\ Closing = {}
    BY <1>1, <1>5, WritesLeft DEF SaveSnapshot, SessInv, WritesInv, Closing
  <2>2. /\ Records' = Records /\ HistoryIds' = HistoryIds
        /\ Ended' = Records /\ Ended = Records
    BY <1>2, <2>1 DEF Records, Ended, HistoryIds
  <2>3. ASSUME NEW k \in Keys, Has(snapshot', k)
        PROVE  \E d \in {sessions, pending} :
                  /\ Has(d, k) /\ snapshot'[k].start = d[k].start
                  /\ snapshot'[k].incidents = d[k].incidents
    <3>1. \A rec \in Session : /\ [rec EXCEPT !.consecutive = 0].start = rec.start
                               /\ [rec EXCEPT !.consecutive = 0].incidents = rec.incidents
      BY DEF Session
    <3>2. \/ Has(pending, k) /\ snapshot'[k] = [pending[k] EXCEPT !.consecutive = 0]
          \/ Has(sessions, k) /\ snapshot'[k] = [sessions[k] EXCEPT !.consecutive = 0]
      BY <2>1, <2>3 DEF Merged, Has, Confirmed
    <3>3. /\ Has(pending, k) => pending[k] \in Session
          /\ Has(sessions, k) => sessions[k] \in Session
      BY <1>1 DEF Sessions, Has
    <3> QED
      BY <3>1, <3>2, <3>3
  <2>4. ASSUME NEW k \in Keys, Has(snapshot', k)
        PROVE  /\ Later(Records', k, snapshot'[k].start)
               /\ Linked(snapshot'[k], k, lastTick')
    <3>1. PICK d \in {sessions, pending} :
             /\ Has(d, k) /\ snapshot'[k].start = d[k].start
             /\ snapshot'[k].incidents = d[k].incidents
      BY <2>3, <2>4
    <3>2. Later(Ended, k, d[k].start) /\ Linked(d[k], k, lastTick)
      BY <3>1 DEF LinkInv, LinkOrder, LinkOpen
    <3> QED
      BY <1>1, <2>2, <3>1, <3>2 DEF Linked
  <2>5. LinkOrder'
    <3>1. /\ \A old \in Ended' : \A inc \in old.incidents :
                /\ inc.workload = old.id[1] /\ old.id[2] <= inc.at
                /\ inc.at <= old.end /\ inc.at <= lastTick'
          /\ \A k \in Keys : \A d \in {sessions', pending'} :
                Has(d, k) => Later(Ended', k, d[k].start)
          /\ \A i, j \in DOMAIN history' : i < j /\ history'[i].id[1] = history'[j].id[1] =>
                \A inc \in history'[i].incidents : inc.at < history'[j].id[2]
      BY <1>1, <2>1, <2>2 DEF LinkInv, LinkOrder
    <3> QED
      BY <1>2, <2>4, <3>1 DEF LinkOrder
  <2>6. LinkOpen'
    BY <1>1, <2>4 DEF LinkInv, LinkOpen
  <2> QED
    BY <1>3, <2>5, <2>6 DEF LinkInv
<1> QED
  BY <1>4, <1>5

\* The session that d has of workload k takes its incidents to the history.
LEMMA LinkCompletes ==
    ASSUME SessInv, LinkInv, NEW k \in Keys, NEW d \in {sessions, pending}, Has(d, k),
           NEW rec, rec.id = <<k, d[k].start>>, rec.end = now,
           rec.incidents = d[k].incidents,
           history' = history, snapshot' = snapshot, Closing = {}, Closing' = {rec},
           lastTick' = lastTick, now' = now, up' = up, phase' = phase,
           incidents' = incidents, linked' = linked, activity' = activity,
           startedAt' = startedAt,
           ~Has(sessions', k), ~Has(pending', k),
           \A j \in Keys \ {k} : sessions'[j] = sessions[j] /\ pending'[j] = pending[j]
    PROVE  LinkInv'
<1>0. /\ now \in Nat /\ lastTick \in Nat /\ lastTick <= now
      /\ \A inc \in d[k].incidents : inc.at \in Nat
  BY IncidentTimes
<1>1. /\ Records' = Records /\ HistoryIds' = HistoryIds
      /\ Ended = Records /\ Ended' = Records \cup {rec}
  BY DEF Records, HistoryIds, Ended
<1>2. rec.id[1] = k /\ rec.id[2] = d[k].start
  OBVIOUS
<1>3. \A inc \in rec.incidents :
         /\ inc.workload = rec.id[1] /\ rec.id[2] <= inc.at
         /\ inc.at <= rec.end /\ inc.at <= lastTick
  <2>1. Linked(d[k], k, lastTick)
    BY DEF LinkInv, LinkOpen
  <2> QED
    BY <1>0, <1>2, <2>1 DEF Linked
<1>4. Later(Records, k, d[k].start)
  BY <1>1 DEF LinkInv, LinkOrder
<1>5. ASSUME NEW j \in Keys, NEW e \in {sessions', pending'}, Has(e, j)
      PROVE  Later(Ended', j, e[j].start)
  <2>1. j # k
    BY <1>5
  <2>2. Later(Records, j, e[j].start)
    BY <1>1, <1>5, <2>1 DEF LinkInv, LinkOrder, Has
  <2> QED
    BY <1>1, <1>2, <2>1, <2>2 DEF Later
<1>6. LinkOrder'
  <2>1. /\ \A j \in Keys : Has(snapshot', j) =>
              \/ <<j, snapshot'[j].start>> \in HistoryIds'
              \/ Later(Records', j, snapshot'[j].start)
        /\ \A i, j \in DOMAIN history' : i < j /\ history'[i].id[1] = history'[j].id[1] =>
              \A inc \in history'[i].incidents : inc.at < history'[j].id[2]
    BY <1>1 DEF LinkInv, LinkOrder
  <2>2. \A old \in Ended' : \A inc \in old.incidents :
           /\ inc.workload = old.id[1] /\ old.id[2] <= inc.at
           /\ inc.at <= old.end /\ inc.at <= lastTick'
    BY <1>1, <1>3 DEF LinkInv, LinkOrder
  <2>3. \A new \in Closing' : Later(Records', new.id[1], new.id[2])
    BY <1>1, <1>2, <1>4
  <2> QED
    BY <1>5, <2>1, <2>2, <2>3 DEF LinkOrder
<1>7. \A j \in Keys :
         /\ Has(sessions', j) => Has(sessions, j) /\ sessions'[j] = sessions[j]
         /\ Has(pending', j) => Has(pending, j) /\ pending'[j] = pending[j]
  BY DEF Has
<1>8. LinkOpen' /\ LinkNew'
  BY <1>7 DEF LinkInv, LinkOpen, LinkNew
<1> QED
  BY <1>6, <1>8 DEF LinkInv

LEMMA LinkCloses ==
    ASSUME SessInv, LinkInv, NEW k \in Keys, CloseIdle(k) \/ CloseRestored(k)
    PROVE  LinkInv'
<1>0. sessions \in Sessions /\ pending \in Sessions
  BY DEF SessInv, BaseInv, TypeOK
<1>1. /\ io = <<>> /\ history' = history /\ snapshot' = snapshot /\ incidents' = incidents
      /\ lastTick' = lastTick /\ now' = now /\ up' = up /\ phase' = phase
      /\ linked' = linked /\ activity' = activity /\ startedAt' = startedAt
      /\ Closing = {}
  BY DEF CloseIdle, CloseRestored, clockVars, procVars, tickVars, diskVars, Closing
<1>2. CASE CloseIdle(k)
  <2> DEFINE rec == Finalized(k, sessions[k], now, FALSE, None)
  <2>1. /\ Has(sessions, k) /\ ~Has(pending, k) /\ pending' = pending
        /\ sessions' = [sessions EXCEPT ![k] = None]
        /\ io' = <<AppendOf(rec), SaveOf(sessions', pending)>>
    BY <1>2 DEF CloseIdle, IdleTooLong, Confirmed
  <2>2. /\ rec.id = <<k, sessions[k].start>> /\ rec.end = now
        /\ rec.incidents = sessions[k].incidents
    BY DEF Finalized
  <2> HIDE DEF rec
  <2>3. Closing' = {rec}
    BY <2>1 DEF Closing, AppendOf
  <2>4. /\ ~Has(sessions', k) /\ ~Has(pending', k)
        /\ \A j \in Keys \ {k} : sessions'[j] = sessions[j] /\ pending'[j] = pending[j]
    BY <1>0, <2>1 DEF Has, Sessions
  <2> QED
    BY <1>1, <2>1, <2>2, <2>3, <2>4, LinkCompletes
<1>3. CASE CloseRestored(k)
  <2> DEFINE rec == Finalized(k, pending[k], now, TRUE, RestartGap(k))
  <2>1. /\ Has(pending, k) /\ sessions' = sessions
        /\ pending' = [pending EXCEPT ![k] = None]
        /\ io' = <<AppendOf(rec), SaveOf(sessions, pending')>>
    BY <1>3 DEF CloseRestored
  <2>2. /\ rec.id = <<k, pending[k].start>> /\ rec.end = now
        /\ rec.incidents = pending[k].incidents
    BY DEF Finalized
  <2> HIDE DEF rec
  <2>3. Closing' = {rec}
    BY <2>1 DEF Closing, AppendOf
  <2>4. /\ ~Has(sessions', k) /\ ~Has(pending', k)
        /\ \A j \in Keys \ {k} : sessions'[j] = sessions[j] /\ pending'[j] = pending[j]
    BY <1>0, <2>1 DEF Has, Sessions, SessInv, OneOpen
  <2> QED
    BY <1>1, <2>1, <2>2, <2>3, <2>4, LinkCompletes
<1> QED
  BY <1>2, <1>3

\* A session is resumed after a tick has seen its workload: by then every incident
\* of the lives before was looked at.
LEMMA LinkResumes ==
    ASSUME SessInv, LinkInv, NEW k \in Keys, ResumeRestored(k)
    PROVE  LinkInv'
<1> DEFINE rec == Resumed(pending[k], RestartGap(k), activity[k].at)
<1>0. /\ sessions \in Sessions /\ pending \in Sessions /\ startedAt \in Nat
      /\ \A inc \in incidents : inc.at \in Nat
  BY IncidentTimes DEF SessInv, BaseInv, TypeOK
<1>1. /\ io = <<>> /\ io' = <<>> /\ history' = history /\ snapshot' = snapshot
      /\ incidents' = incidents /\ linked' = linked /\ activity' = activity
      /\ phase' = phase /\ phase # "tick" /\ now' = now /\ lastTick' = lastTick
      /\ up' = up /\ startedAt' = startedAt
      /\ Has(pending, k) /\ Has(activity, k)
      /\ pending' = [pending EXCEPT ![k] = None]
      /\ sessions' = [sessions EXCEPT ![k] = rec]
  BY DEF ResumeRestored, StillActive, clockVars, procVars, tickVars, diskVars
<1>2. pending[k] \in Session /\ pending[k].start \in Nat
  BY <1>1, IncidentTimes
<1>3. rec.start = pending[k].start /\ rec.incidents = pending[k].incidents
  BY <1>2 DEF Resumed, Session
<1> HIDE DEF rec
<1>4. /\ Records' = Records /\ HistoryIds' = HistoryIds /\ Ended' = Ended /\ Closing' = {}
  BY <1>1 DEF Records, HistoryIds, Ended, Closing
<1>5. \A j \in Keys :
         /\ Has(pending', j) => Has(pending, j) /\ pending'[j] = pending[j]
         /\ j # k => sessions'[j] = sessions[j]
  BY <1>0, <1>1 DEF Sessions, Has
<1>6. sessions'[k] = rec
  BY <1>0, <1>1 DEF Sessions
<1>7. LinkOrder'
  <2>1. ASSUME NEW j \in Keys, Has(sessions', j)
        PROVE  Later(Ended', j, sessions'[j].start)
    BY <1>1, <1>3, <1>4, <1>5, <1>6, <2>1 DEF LinkInv, LinkOrder, Has
  <2>2. ASSUME NEW j \in Keys, Has(pending', j)
        PROVE  Later(Ended', j, pending'[j].start)
    BY <1>4, <1>5, <2>2 DEF LinkInv, LinkOrder
  <2>3. /\ \A j \in Keys : Has(snapshot', j) =>
              \/ <<j, snapshot'[j].start>> \in HistoryIds'
              \/ Later(Records', j, snapshot'[j].start)
        /\ \A i, j \in DOMAIN history' : i < j /\ history'[i].id[1] = history'[j].id[1] =>
              \A inc \in history'[i].incidents : inc.at < history'[j].id[2]
        /\ \A old \in Ended' : \A inc \in old.incidents :
              /\ inc.workload = old.id[1] /\ old.id[2] <= inc.at
              /\ inc.at <= old.end /\ inc.at <= lastTick'
    BY <1>1, <1>4 DEF LinkInv, LinkOrder
  <2> QED
    BY <1>4, <2>1, <2>2, <2>3 DEF LinkOrder
<1>8. LinkOpen'
  <2>1. Linked(sessions'[k], k, lastTick')
    BY <1>1, <1>3, <1>6 DEF LinkInv, LinkOpen, Linked
  <2> QED
    BY <1>1, <1>5, <2>1 DEF LinkInv, LinkOpen, Has
<1>9. LinkNew'
  <2>1. \A inc \in incidents \ linked : startedAt <= inc.at
    BY <1>1 DEF LinkInv, LinkNew
  <2>2. pending[k].start <= startedAt
    BY <1>1 DEF LinkInv, LinkNew
  <2>3. \A inc \in incidents \ linked : sessions'[k].start <= inc.at
    BY <1>0, <1>2, <1>3, <1>6, <2>1, <2>2
  <2>4. \A j \in Keys : Has(sessions', j) =>
           \/ \A inc \in incidents' \ linked' : sessions'[j].start <= inc.at
           \/ phase' = "tick" /\ ~sessions'[j].confirmed
    BY <1>1, <1>5, <2>3 DEF LinkInv, LinkNew, Has
  <2>5. /\ \A inc \in incidents' : inc.at <= now'
        /\ startedAt' <= lastTick'
        /\ \A j \in Keys : Has(activity', j) =>
              /\ up'
              /\ phase' # "tick" => \A inc \in incidents' \ linked' : startedAt' <= inc.at
    BY <1>1 DEF LinkInv, LinkNew
  <2>6. \A j \in Keys : Has(pending', j) => pending'[j].start <= startedAt'
    BY <1>1, <1>5 DEF LinkInv, LinkNew
  <2> QED
    BY <2>4, <2>5, <2>6 DEF LinkNew
<1> QED
  BY <1>7, <1>8, <1>9 DEF LinkInv

\* Time passes, the program stops, and the callbacks that touch no session.
LEMMA LinkOther ==
    ASSUME SessInv, LinkInv,
           \/ Advance \/ Crash \/ Exit
           \/ ReconcileBegin \/ ReconcileEnds \/ Flush \/ CloseApp
    PROVE  LinkInv'
<1>1. UNCHANGED <<lastTick, history, snapshot, incidents>>
  BY DEF Advance, Crash, Exit, ReconcileBegin, ReconcileEnds, Flush, CloseApp,
     tickVars, diskVars
<1>2. Closing' \subseteq Closing
  <2>1. io' = <<>> \/ io' = io \/ io' = <<SaveOf(sessions, pending)>>
    BY DEF Advance, Crash, Exit, Stopped, ReconcileBegin, ReconcileEnds, Flush, CloseApp
  <2>2. SaveOf(sessions, pending).op = "save"
    BY DEF SaveOf
  <2> QED
    BY <2>1, <2>2 DEF Closing
<1>3. now \in Nat /\ startedAt \in Nat /\ lastTick \in Nat
      /\ \A inc \in incidents : inc.at \in Nat /\ inc.at <= now
  BY IncidentTimes DEF LinkInv, LinkNew
<1>4. \A inc \in incidents : inc.at <= now'
  <2>1. now' = now \/ now' = now + 1
    BY DEF Advance, Crash, Exit, ReconcileBegin, ReconcileEnds, Flush, CloseApp, clockVars
  <2> QED
    BY <1>3, <2>1
<1>5. CASE Crash \/ Exit
  <2>1. sessions' = Empty /\ pending' = Empty /\ activity' = Empty /\ startedAt' <= lastTick
    BY <1>3, <1>5 DEF Crash, Exit, Stopped
  <2> QED
    BY <1>1, <1>2, <1>4, <2>1, LinkQuiet
<1>6. CASE Advance \/ ReconcileBegin \/ ReconcileEnds \/ Flush \/ CloseApp
  <2>1. /\ UNCHANGED <<up, sessions, pending, linked, activity, startedAt>>
        /\ phase = "tick" <=> phase' = "tick"
    BY <1>6 DEF Advance, ReconcileBegin, ReconcileEnds, Flush, CloseApp, Idle, procVars,
       tickVars
  <2> QED
    BY <1>1, <1>2, <1>4, <2>1, LinkQuiet
<1> QED
  BY <1>5, <1>6

LEMMA LinkNext ==
    ASSUME Samples > 1
    PROVE  SessInv /\ OutageInv /\ LinkInv /\ [Next]_vars => LinkInv'
<1> SUFFICES ASSUME SessInv, OutageInv, LinkInv, [Next]_vars PROVE LinkInv'
  OBVIOUS
<1>1. CASE UNCHANGED vars
  <2>1. /\ UNCHANGED <<lastTick, history, snapshot, incidents>> /\ now' = now
        /\ UNCHANGED <<up, sessions, pending, linked, activity, startedAt>>
        /\ phase' = phase /\ Closing' = Closing
    BY <1>1 DEF vars, Closing
  <2>2. \A inc \in incidents : inc.at <= now'
    BY <2>1 DEF LinkInv, LinkNew
  <2> QED
    BY <2>1, <2>2, LinkQuiet
<1>2. CASE Start
  BY <1>2, LinkStart
<1>3. CASE AppendSession \/ SaveSnapshot
  BY <1>3, LinkDisk
<1>4. CASE Observe \/ TickAborts
  BY <1>4, LinkTick
<1>5. CASE TickEnds
  BY <1>5, LinkTickEnds
<1>6. CASE \E k \in Keys : IncidentCloses(k) \/ CloseIdle(k) \/ Reconcile(k)
  BY <1>6, LinkIncident, LinkCloses, LinkResumes DEF Reconcile
<1>7. CASE \/ Advance \/ Crash \/ Exit
           \/ ReconcileBegin \/ ReconcileEnds \/ Flush \/ CloseApp
  BY <1>7, LinkOther
<1> QED
  BY <1>1, <1>2, <1>3, <1>4, <1>5, <1>6, <1>7 DEF Next

LEMMA LinkInit == Init => LinkInv
<1> SUFFICES ASSUME Init PROVE LinkInv
  OBVIOUS
<1>1. /\ io = <<>> /\ DOMAIN history = {} /\ incidents = {}
      /\ startedAt = 0 /\ lastTick = 0
      /\ sessions = Empty /\ pending = Empty /\ snapshot = Empty /\ activity = Empty
  BY DEF Init
<1>2. Ended = {} /\ Closing = {}
  BY <1>1 DEF Ended, Records, Closing
<1> QED
  BY <1>1, <1>2, EmptyTypes DEF LinkInv, LinkOrder, LinkOpen, LinkNew

\* No incident is in two sessions, in the history or in memory, and each is in one of
\* its workload that was going on when it ended: however often the program is killed
\* and looks at all the old incidents again, if a session takes more than one sample.
THEOREM IncidentsAreLinkedOnce == ASSUME Samples > 1 PROVE Spec => []LinkedOnce
<1>1. SessInv /\ LinkInv => LinkedOnce
  <2> SUFFICES ASSUME SessInv, LinkInv PROVE LinkedOnce
    OBVIOUS
  <2>0. /\ history \in Seq(Completed) /\ DOMAIN history = 1 .. Len(history)
        /\ Len(history) \in Nat /\ Records \subseteq Ended
    BY LenProperties DEF SessInv, BaseInv, TypeOK, Ended
  <2>1. \A rec \in Records :
           /\ rec.id[1] \in Keys /\ rec.id[2] \in Nat /\ rec.end \in Nat
           /\ \A inc \in rec.incidents :
                 /\ inc.workload = rec.id[1] /\ inc.at \in Nat
                 /\ rec.id[2] <= inc.at /\ inc.at <= rec.end
    BY <2>0, RecordTypes, IncidentTimes DEF LinkInv, LinkOrder, SessInv
  <2>2. \A rec \in Records : \A inc \in rec.incidents :
           inc.workload = rec.id[1] /\ inc.at \in rec.id[2] .. rec.end
    BY <2>1
  <2>3. ASSUME NEW i \in DOMAIN history, NEW j \in DOMAIN history, i < j,
               NEW inc \in history[i].incidents
        PROVE  inc \notin history[j].incidents
    <3>1. history[i] \in Records /\ history[j] \in Records
      BY DEF Records
    <3>2. SUFFICES ASSUME inc \in history[j].incidents PROVE FALSE
      OBVIOUS
    <3>3. history[i].id[1] = history[j].id[1]
      BY <2>1, <3>1, <3>2
    <3>4. inc.at < history[j].id[2]
      BY <2>3, <3>3 DEF LinkInv, LinkOrder
    <3>5. history[j].id[2] <= inc.at /\ inc.at \in Nat /\ history[j].id[2] \in Nat
      BY <2>1, <3>1, <3>2
    <3> QED
      BY <3>4, <3>5
  <2>4. \A i, j \in DOMAIN history :
           i # j => history[i].incidents \cap history[j].incidents = {}
    <3> SUFFICES ASSUME NEW i \in DOMAIN history, NEW j \in DOMAIN history, i # j
                 PROVE  history[i].incidents \cap history[j].incidents = {}
      OBVIOUS
    <3>1. i < j \/ j < i
      BY <2>0
    <3> QED
      BY <2>3, <3>1
  <2>5. ASSUME NEW k \in Keys, NEW d \in {sessions, pending}, Has(d, k),
               NEW inc \in d[k].incidents
        PROVE  /\ inc.workload = k /\ d[k].start <= inc.at
               /\ \A rec \in Records : inc \notin rec.incidents
    <3>1. inc.workload = k /\ d[k].start <= inc.at
      BY <2>5 DEF LinkInv, LinkOpen, Linked
    <3>2. inc.at \in Nat /\ d[k].start \in Nat
      BY <2>5, IncidentTimes
    <3>3. ASSUME NEW rec \in Records, inc \in rec.incidents PROVE FALSE
      <4>1. rec.id[1] = k /\ rec \in Ended
        BY <2>0, <2>1, <3>1, <3>3
      <4>2. inc.at < d[k].start
        BY <2>5, <3>3, <4>1 DEF LinkInv, LinkOrder, Later
      <4> QED
        BY <3>1, <3>2, <4>2
    <3> QED
      BY <3>1, <3>3
  <2> QED
    BY <2>2, <2>4, <2>5 DEF LinkedOnce
<1> QED
  BY <1>1, LinkInit, LinkNext, OutageInit, OutageNext, SessInvariant, PTL DEF Spec

-----------------------------------------------------------------------------
(* What a session counts was watched.  A sample stands for the time since  *)
(* the last tick that came to the sessions; where a gap lies in between, it*)
(* is the sample that the gap allows for, and until that sample is taken   *)
(* the session has one to spare.                                           *)

\* The time units from start to t that are in none of the gaps.
Units(start, gaps, t) ==
    {u \in start .. t - 1 : \A i \in DOMAIN gaps : u \notin gaps[i].from .. gaps[i].to - 1}

GapsEnd(gaps, t) == \A i \in DOMAIN gaps : gaps[i].to <= t

\* What is counted up to the last sample is watched, but for n samples.
Fair(rec, n) ==
    rec.zoneTime <= Cardinality(Units(rec.start, rec.gaps, rec.lastObs)) + SampleGap * n

Kept(rec, t) ==
    /\ rec.start <= rec.lastObs /\ GapsEnd(rec.gaps, t)
    /\ Fair(rec, 1 + Len(rec.gaps))

\* A session in memory, the last tick that came to the sessions having been at tick.
Going(rec, tick, t) ==
    /\ Kept(rec, t) /\ rec.lastObs <= tick
    /\ ~GapsEnd(rec.gaps, tick) => Fair(rec, Len(rec.gaps))

Told(rec) == rec.zoneTime <= Cardinality(Watched(rec)) + SampleGap * (1 + Len(rec.gaps))

WatchInv ==
    /\ sessTick <= lastTick
    /\ ~up => activity = Empty
    /\ \A k \in Keys : Has(activity, k) =>
          /\ activity[k].at <= sessTick
          /\ Has(pending, k) => pending[k].lastObs <= activity[k].at
    /\ \A k \in Keys : Has(sessions, k) => Going(sessions[k], sessTick, now)
    /\ \A k \in Keys : \A d \in {pending, snapshot} : Has(d, k) => Kept(d[k], now)
    /\ \A rec \in Ended : Told(rec)

LEMMA GapTimes ==
    ASSUME NEW gaps \in Seq(Gap)
    PROVE  \A i \in DOMAIN gaps : gaps[i].from \in Nat /\ gaps[i].to \in Nat
<1>1. \A i \in DOMAIN gaps : gaps[i] \in Gap
  BY LenProperties, ElementOfSeq
<1> QED
  BY <1>1 DEF Gap

LEMMA UnitsAreFinite ==
    ASSUME NEW s \in Nat, NEW t \in Nat, NEW gaps
    PROVE  IsFiniteSet(Units(s, gaps, t)) /\ Cardinality(Units(s, gaps, t)) \in Nat
<1>1. IsFiniteSet(s .. t - 1)
  BY FS_Interval
<1>2. Units(s, gaps, t) \in SUBSET (s .. t - 1)
  BY DEF Units
<1> QED
  BY <1>1, <1>2, FS_Subset, FS_CardinalityType

LEMMA UnitsGrow ==
    ASSUME NEW s \in Nat, NEW t \in Nat, NEW u \in Nat, t <= u, NEW gaps
    PROVE  Cardinality(Units(s, gaps, t)) <= Cardinality(Units(s, gaps, u))
<1>1. Units(s, gaps, t) \in SUBSET Units(s, gaps, u)
  BY DEF Units
<1> QED
  BY <1>1, UnitsAreFinite, FS_Subset

\* The time after the last of the gaps is all watched.
LEMMA UnitsExtend ==
    ASSUME NEW s \in Nat, NEW t \in Nat, NEW v \in Nat, NEW u \in Nat,
           s <= t, t <= v, v <= u, NEW gaps \in Seq(Gap), GapsEnd(gaps, v)
    PROVE  Cardinality(Units(s, gaps, t)) + (u - v) <= Cardinality(Units(s, gaps, u))
<1> DEFINE old == Units(s, gaps, t)
           new == v .. u - 1
<1>1. IsFiniteSet(old) /\ Cardinality(old) \in Nat
  BY UnitsAreFinite
<1>2. IsFiniteSet(new) /\ Cardinality(new) = u - v
  <2>1. v \in Int /\ u - 1 \in Int
    OBVIOUS
  <2>2. /\ IsFiniteSet(v .. u - 1)
        /\ Cardinality(v .. u - 1) = IF v > u - 1 THEN 0 ELSE (u - 1) - v + 1
    BY <2>1, FS_Interval
  <2> QED
    BY <2>2
<1>3. old \cap new = {}
  BY DEF Units
<1>4. \A i \in DOMAIN gaps : gaps[i].from \in Nat /\ gaps[i].to \in Nat
  BY GapTimes
<1>5. old \cup new \in SUBSET Units(s, gaps, u)
  BY <1>4 DEF Units, GapsEnd
<1> HIDE DEF old, new
<1>6. Cardinality(old \cup new) = Cardinality(old) + Cardinality(new)
  <2>1. Cardinality(old \cap new) = 0
    BY <1>3, FS_EmptySet
  <2>2. Cardinality(old \cup new)
           = Cardinality(old) + Cardinality(new) - Cardinality(old \cap new)
    BY <1>1, <1>2, FS_Union
  <2> QED
    BY <1>1, <1>2, <2>1, <2>2
<1>7. Cardinality(old \cup new) <= Cardinality(Units(s, gaps, u))
  BY <1>5, UnitsAreFinite, FS_Subset
<1> QED
  BY <1>1, <1>2, <1>6, <1>7 DEF old

\* A gap that begins later takes nothing away.
LEMMA UnitsAppend ==
    ASSUME NEW s \in Nat, NEW t \in Nat, NEW gaps \in Seq(Gap), NEW gap \in Gap, t <= gap.from
    PROVE  Units(s, Append(gaps, gap), t) = Units(s, gaps, t)
<1> DEFINE new == Append(gaps, gap)
<1>1. /\ Len(gaps) \in Nat /\ DOMAIN gaps = 1 .. Len(gaps) /\ DOMAIN new = 1 .. Len(gaps) + 1
      /\ \A i \in 1 .. Len(gaps) : new[i] = gaps[i]
      /\ new[Len(gaps) + 1] = gap
  BY LenProperties, AppendProperties
<1> HIDE DEF new
<1>2. gap.from \in Nat /\ gap.to \in Nat
  BY DEF Gap
<1>3. ASSUME NEW u \in s .. t - 1 PROVE u \notin gap.from .. gap.to - 1
  BY <1>2
<1>4. DOMAIN new = DOMAIN gaps \cup {Len(gaps) + 1} /\ \A i \in DOMAIN gaps : new[i] = gaps[i]
  BY <1>1
<1> QED
  BY <1>1, <1>3, <1>4 DEF Units, new

LEMMA GapsEndAppend ==
    ASSUME NEW t, NEW gaps \in Seq(Gap), NEW gap \in Gap
    PROVE  /\ GapsEnd(Append(gaps, gap), t) <=> GapsEnd(gaps, t) /\ gap.to <= t
           /\ Len(Append(gaps, gap)) = Len(gaps) + 1 /\ Len(gaps) \in Nat
<1> DEFINE new == Append(gaps, gap)
<1>1. /\ Len(gaps) \in Nat /\ DOMAIN gaps = 1 .. Len(gaps) /\ DOMAIN new = 1 .. Len(gaps) + 1
      /\ \A i \in 1 .. Len(gaps) : new[i] = gaps[i]
      /\ new[Len(gaps) + 1] = gap /\ Len(new) = Len(gaps) + 1
  BY LenProperties, AppendProperties
<1> HIDE DEF new
<1>2. GapsEnd(new, t) => GapsEnd(gaps, t) /\ gap.to <= t
  BY <1>1 DEF GapsEnd
<1>3. GapsEnd(gaps, t) /\ gap.to <= t => GapsEnd(new, t)
  BY <1>1 DEF GapsEnd
<1> QED
  BY <1>1, <1>2, <1>3 DEF new

LEMMA GapsEndLater ==
    ASSUME NEW gaps \in Seq(Gap), NEW t \in Nat, NEW u \in Nat, t <= u, GapsEnd(gaps, t)
    PROVE  GapsEnd(gaps, u)
<1>1. \A i \in DOMAIN gaps : gaps[i].to \in Nat
  BY GapTimes
<1> QED
  BY <1>1 DEF GapsEnd

LEMMA Allowance ==
    /\ SampleGap \in Nat /\ SampleGap * 1 = SampleGap
    /\ \A n \in Nat : SampleGap * n \in Nat /\ SampleGap * (n + 1) = SampleGap * n + SampleGap
BY SessionConstants

\* What of a record the time it counts is about.
Facts(rec) == <<rec.start, rec.lastObs, rec.gaps, rec.zoneTime>>

LEMMA RecordTime ==
    ASSUME NEW rec \in Session
    PROVE  /\ rec.start \in Nat /\ rec.lastObs \in Nat /\ rec.zoneTime \in Nat
           /\ rec.gaps \in Seq(Gap) /\ Len(rec.gaps) \in Nat
           /\ Cardinality(Units(rec.start, rec.gaps, rec.lastObs)) \in Nat
<1>1. /\ rec.start \in Nat /\ rec.lastObs \in Nat /\ rec.zoneTime \in Nat
      /\ rec.gaps \in Seq(Gap)
  BY DEF Session
<1> QED
  BY <1>1, LenProperties, UnitsAreFinite

\* A record keeps its word as time goes on, and so does one that tells the same.
LEMMA KeptOn ==
    ASSUME NEW rec \in Session, NEW old \in Session, Facts(rec) = Facts(old),
           NEW t \in Nat, NEW u \in Nat, t <= u
    PROVE  /\ Kept(old, t) => Kept(rec, u)
           /\ \A tick : Going(old, tick, t) => Going(rec, tick, u)
<1>1. /\ rec.start = old.start /\ rec.lastObs = old.lastObs /\ rec.gaps = old.gaps
      /\ rec.zoneTime = old.zoneTime
  BY DEF Facts
<1>2. GapsEnd(old.gaps, t) => GapsEnd(rec.gaps, u)
  BY <1>1, RecordTime, GapsEndLater
<1>3. Kept(old, t) => Kept(rec, u)
  BY <1>1, <1>2 DEF Kept, Fair
<1> QED
  BY <1>1, <1>3 DEF Going, Fair

\* A gap that is added after the last sample leaves one sample to spare.
LEMMA KeptWithGap ==
    ASSUME NEW rec \in Session, NEW new \in Session, NEW gap \in Gap, NEW t \in Nat,
           Kept(rec, t), rec.lastObs <= gap.from, gap.to <= t,
           new.gaps = Append(rec.gaps, gap), new.start = rec.start, new.zoneTime = rec.zoneTime,
           rec.lastObs <= new.lastObs
    PROVE  Kept(new, t) /\ Fair(new, Len(new.gaps))
<1>1. /\ rec.start \in Nat /\ rec.lastObs \in Nat /\ rec.zoneTime \in Nat
      /\ rec.gaps \in Seq(Gap) /\ Len(rec.gaps) \in Nat
      /\ Cardinality(Units(rec.start, rec.gaps, rec.lastObs)) \in Nat
      /\ new.lastObs \in Nat /\ Cardinality(Units(new.start, new.gaps, new.lastObs)) \in Nat
  BY RecordTime
<1>2. Len(new.gaps) = Len(rec.gaps) + 1 /\ GapsEnd(new.gaps, t)
  BY <1>1, GapsEndAppend DEF Kept
<1>3. Units(new.start, new.gaps, rec.lastObs) = Units(rec.start, rec.gaps, rec.lastObs)
  BY <1>1, UnitsAppend
<1>4. Cardinality(Units(new.start, new.gaps, rec.lastObs))
         <= Cardinality(Units(new.start, new.gaps, new.lastObs))
  BY <1>1, UnitsGrow
<1>5. rec.start <= rec.lastObs /\ Fair(rec, 1 + Len(rec.gaps))
  BY DEF Kept
<1>6. Fair(new, Len(new.gaps))
  <2> DEFINE a == SampleGap * (1 + Len(rec.gaps))  b == SampleGap * Len(new.gaps)
  <2>1. a = b /\ a \in Nat
    BY <1>1, <1>2, Allowance
  <2>2. rec.zoneTime <= Cardinality(Units(rec.start, rec.gaps, rec.lastObs)) + a
    BY <1>5 DEF Fair
  <2> HIDE DEF a, b
  <2>3. new.zoneTime <= Cardinality(Units(new.start, new.gaps, new.lastObs)) + b
    BY <1>1, <1>3, <1>4, <2>1, <2>2
  <2> QED
    BY <2>3 DEF Fair, b
<1>7. Fair(new, 1 + Len(new.gaps))
  <2> DEFINE a == SampleGap * Len(new.gaps)  b == SampleGap * (1 + Len(new.gaps))
  <2>1. a <= b /\ a \in Nat /\ b \in Nat
    BY <1>1, <1>2, Allowance
  <2>2. new.zoneTime <= Cardinality(Units(new.start, new.gaps, new.lastObs)) + a
    BY <1>6 DEF Fair
  <2> HIDE DEF a, b
  <2>3. new.zoneTime <= Cardinality(Units(new.start, new.gaps, new.lastObs)) + b
    BY <1>1, <2>1, <2>2
  <2> QED
    BY <2>3 DEF Fair, b
<1> QED
  BY <1>1, <1>2, <1>5, <1>6, <1>7 DEF Kept

\* A sample counts the time since the last tick: it is watched, or the gap that lies in
\* it left a sample to spare.
LEMMA KeptSampled ==
    ASSUME NEW rec \in Session, NEW new \in Session, NEW tick \in Nat, NEW t \in Nat, tick <= t,
           Going(rec, tick, t),
           new.gaps = rec.gaps, new.start = rec.start, new.lastObs = t,
           new.zoneTime = rec.zoneTime + Counted(tick, t)
    PROVE  Going(new, t, t)
<1> DEFINE before == Cardinality(Units(rec.start, rec.gaps, rec.lastObs))
           after == Cardinality(Units(rec.start, rec.gaps, t))
           dt == Counted(tick, t)
<1>1. /\ rec.start \in Nat /\ rec.lastObs \in Nat /\ rec.zoneTime \in Nat
      /\ rec.gaps \in Seq(Gap) /\ Len(rec.gaps) \in Nat
      /\ before \in Nat /\ after \in Nat
  BY RecordTime, UnitsAreFinite
<1>2. /\ rec.start <= rec.lastObs /\ rec.lastObs <= tick /\ GapsEnd(rec.gaps, t)
      /\ Fair(rec, 1 + Len(rec.gaps))
      /\ ~GapsEnd(rec.gaps, tick) => Fair(rec, Len(rec.gaps))
  BY DEF Going, Kept
<1>3. dt \in Nat /\ dt <= t - tick /\ dt <= SampleGap
  BY SessionConstants DEF Counted
<1>4. before <= after
  BY <1>1, <1>2, UnitsGrow
<1>5. GapsEnd(rec.gaps, tick) => before + (t - tick) <= after
  BY <1>1, <1>2, UnitsExtend
<1>6. rec.zoneTime + dt <= after + SampleGap * (1 + Len(rec.gaps))
  <2> DEFINE a == SampleGap * Len(rec.gaps)  b == SampleGap * (1 + Len(rec.gaps))
  <2>1. b = a + SampleGap /\ a \in Nat /\ SampleGap \in Nat
    BY <1>1, Allowance
  <2>2. /\ rec.zoneTime <= before + b
        /\ ~GapsEnd(rec.gaps, tick) => rec.zoneTime <= before + a
    BY <1>2 DEF Fair
  <2> HIDE DEF a, b, before, after, dt
  <2>3. rec.zoneTime + dt <= after + b
    BY <1>1, <1>2, <1>3, <1>4, <1>5, <2>1, <2>2
  <2> QED
    BY <2>3 DEF b
<1> HIDE DEF dt
<1>7. Fair(new, 1 + Len(new.gaps))
  BY <1>6 DEF Fair, dt
<1> QED
  BY <1>1, <1>2, <1>7 DEF Going, Kept

\* The first sample of a session, which is one to spare.
LEMMA KeptNew ==
    ASSUME NEW new \in Session, NEW tick \in Nat, NEW t \in Nat, tick <= t,
           new.gaps = <<>>, new.start = t, new.lastObs = t, new.zoneTime = Counted(tick, t)
    PROVE  Going(new, t, t)
<1>1. new.zoneTime <= SampleGap /\ new.zoneTime \in Nat /\ SampleGap \in Nat
  BY SessionConstants DEF Counted
<1>2. GapsEnd(<<>>, t) /\ Len(new.gaps) = 0
  BY DEF GapsEnd
<1>3. Cardinality(Units(t, new.gaps, t)) \in Nat
  BY UnitsAreFinite
<1>4. Fair(new, 1 + Len(new.gaps))
  <2>1. SampleGap * (1 + Len(new.gaps)) = SampleGap
    BY <1>2, Allowance
  <2> QED
    BY <1>1, <1>3, <2>1 DEF Fair
<1> QED
  BY <1>2, <1>4 DEF Going, Kept

\* What ends tells of watched time too.
LEMMA ToldEnd ==
    ASSUME NEW rec \in Session, NEW t \in Nat, Kept(rec, t), rec.lastObs <= t, NEW end,
           end.id[2] = rec.start, end.end = t, end.zoneTime = rec.zoneTime,
           \/ end.gaps = rec.gaps
           \/ \E gap \in Gap : end.gaps = Append(rec.gaps, gap) /\ rec.lastObs <= gap.from
    PROVE  Told(end)
<1>1. /\ rec.start \in Nat /\ rec.lastObs \in Nat /\ rec.zoneTime \in Nat
      /\ rec.gaps \in Seq(Gap) /\ Len(rec.gaps) \in Nat
      /\ Cardinality(Units(rec.start, rec.gaps, rec.lastObs)) \in Nat
  BY RecordTime
<1>2. Watched(end) = Units(rec.start, end.gaps, t)
  BY DEF Watched, Units
<1>3. /\ Units(rec.start, end.gaps, rec.lastObs) = Units(rec.start, rec.gaps, rec.lastObs)
      /\ Len(end.gaps) \in Nat /\ Len(end.gaps) >= Len(rec.gaps)
  <2>1. CASE end.gaps = rec.gaps
    BY <1>1, <2>1
  <2>2. ASSUME NEW gap \in Gap, end.gaps = Append(rec.gaps, gap), rec.lastObs <= gap.from
        PROVE  /\ Units(rec.start, end.gaps, rec.lastObs) = Units(rec.start, rec.gaps, rec.lastObs)
               /\ Len(end.gaps) = Len(rec.gaps) + 1
    BY <1>1, <2>2, UnitsAppend, GapsEndAppend
  <2> QED
    BY <1>1, <2>1, <2>2
<1>4. /\ Cardinality(Units(rec.start, end.gaps, rec.lastObs)) <= Cardinality(Watched(end))
      /\ Cardinality(Watched(end)) \in Nat
  BY <1>1, <1>2, UnitsGrow, UnitsAreFinite
<1>5. Fair(rec, 1 + Len(rec.gaps))
  BY DEF Kept
<1> DEFINE a == SampleGap * (1 + Len(rec.gaps))  b == SampleGap * (1 + Len(end.gaps))
<1>6. a <= b /\ a \in Nat /\ b \in Nat
  <2>1. \A m, n \in Nat : m <= n => SampleGap * m <= SampleGap * n
    BY SessionConstants
  <2>2. /\ 1 + Len(rec.gaps) \in Nat /\ 1 + Len(end.gaps) \in Nat
        /\ 1 + Len(rec.gaps) <= 1 + Len(end.gaps)
    BY <1>1, <1>3
  <2>3. \A n \in Nat : SampleGap * n \in Nat
    BY Allowance
  <2> QED
    BY <2>1, <2>2, <2>3
<1>7. rec.zoneTime <= Cardinality(Units(rec.start, rec.gaps, rec.lastObs)) + a
  BY <1>5 DEF Fair
<1> HIDE DEF a, b
<1>8. end.zoneTime <= Cardinality(Watched(end)) + b
  BY <1>1, <1>3, <1>4, <1>6, <1>7
<1> QED
  BY <1>8 DEF Told, b

\* What the invariants say of a session, and of what is stored of one.
LEMMA SessionTimes ==
    ASSUME SessInv, OutageInv, WatchInv
    PROVE  /\ now \in Nat /\ lastTick \in Nat /\ sessTick \in Nat
           /\ sessTick <= lastTick /\ lastTick <= now
           /\ \A k \in Keys : \A d \in {sessions, pending, snapshot} : Has(d, k) =>
                 d[k] \in Session /\ d[k].lastObs <= lastTick
           /\ \A k \in Keys : Has(activity, k) => activity[k].at \in Nat
           /\ \A k \in Keys : \A d \in {sessions, pending, snapshot} : Has(d, k) =>
                 Kept(d[k], now)
<1>1. /\ now \in Nat /\ lastTick \in Nat /\ sessTick \in Nat
      /\ sessTick <= lastTick /\ lastTick <= now
  BY DEF SessInv, BaseInv, TypeOK, ClockInv, WatchInv
<1>2. \A k \in Keys : \A d \in {sessions, pending, snapshot} : Has(d, k) =>
         d[k] \in Session /\ d[k].lastObs <= lastTick
  BY DEF SessInv, BaseInv, TypeOK, Sessions, Has, OutageInv
<1>3. \A k \in Keys : Has(activity, k) => activity[k].at \in Nat
  BY DEF SessInv, BaseInv, TypeOK, Activity, Has
<1>4. \A k \in Keys : \A d \in {sessions, pending, snapshot} : Has(d, k) => Kept(d[k], now)
  BY DEF WatchInv, Going
<1> QED
  BY <1>1, <1>2, <1>3, <1>4

\* A callback that samples nothing: the records tell what they told.
LEMMA WatchQuiet ==
    ASSUME SessInv, OutageInv, WatchInv, SessInv', now <= now',
           UNCHANGED <<lastTick, sessTick>>,
           (activity' = activity /\ up' = up) \/ activity' = Empty,
           \A k \in Keys : Has(sessions', k) =>
               Has(sessions, k) /\ Facts(sessions'[k]) = Facts(sessions[k]),
           \A k \in Keys : Has(pending', k) => Has(pending, k) /\ pending'[k] = pending[k],
           \A k \in Keys : Has(snapshot', k) => \E d \in {sessions, pending, snapshot} :
               Has(d, k) /\ Facts(snapshot'[k]) = Facts(d[k]),
           \A rec \in Ended' : rec \in Ended \/ Told(rec)
    PROVE  WatchInv'
<1>1. /\ now \in Nat /\ now' \in Nat
      /\ \A k \in Keys : \A d \in {sessions, pending, snapshot} : Has(d, k) =>
            d[k] \in Session /\ Kept(d[k], now)
      /\ \A k \in Keys : \A d \in {sessions', pending', snapshot'} : Has(d, k) =>
            d[k] \in Session
  <2>1. now' \in Nat /\ sessions' \in Sessions /\ pending' \in Sessions /\ snapshot' \in Sessions
    BY DEF SessInv, BaseInv, TypeOK
  <2> QED
    BY <2>1, SessionTimes DEF Sessions, Has
<1>2. sessTick' <= lastTick'
  BY DEF WatchInv
<1>3. ~up' => activity' = Empty
  BY DEF WatchInv
<1>4. \A k \in Keys : Has(activity', k) =>
         /\ activity'[k].at <= sessTick'
         /\ Has(pending', k) => pending'[k].lastObs <= activity'[k].at
  BY EmptyTypes DEF WatchInv
<1>5. ASSUME NEW k \in Keys, Has(sessions', k) PROVE Going(sessions'[k], sessTick', now')
  <2>1. /\ Has(sessions, k) /\ Facts(sessions'[k]) = Facts(sessions[k])
        /\ Going(sessions[k], sessTick, now)
    BY <1>5 DEF WatchInv
  <2>2. sessions'[k] \in Session /\ sessions[k] \in Session
    BY <1>1, <1>5, <2>1
  <2>3. \A tick : Going(sessions[k], tick, now) => Going(sessions'[k], tick, now')
    BY <1>1, <2>1, <2>2, KeptOn
  <2> QED
    BY <2>1, <2>3
<1>6. ASSUME NEW k \in Keys, Has(pending', k) PROVE Kept(pending'[k], now')
  <2>1. pending'[k] = pending[k] /\ pending[k] \in Session /\ Kept(pending[k], now)
    BY <1>1, <1>6
  <2> QED
    BY <1>1, <2>1, KeptOn
<1>7. ASSUME NEW k \in Keys, Has(snapshot', k) PROVE Kept(snapshot'[k], now')
  <2>1. PICK d \in {sessions, pending, snapshot} :
           Has(d, k) /\ Facts(snapshot'[k]) = Facts(d[k])
    BY <1>7
  <2>2. d[k] \in Session /\ Kept(d[k], now) /\ snapshot'[k] \in Session
    BY <1>1, <1>7, <2>1
  <2> QED
    BY <1>1, <2>1, <2>2, KeptOn
<1>8. \A rec \in Ended' : Told(rec)
  BY DEF WatchInv
<1> QED
  BY <1>2, <1>3, <1>4, <1>5, <1>6, <1>7, <1>8 DEF WatchInv

\* The live gap leaves a sample to spare.
LEMMA WatchGap ==
    ASSUME SessInv, OutageInv, WatchInv, NEW k \in Keys, Has(sessions, k)
    PROVE  AfterGap[k] \in Session /\ Going(AfterGap[k], sessTick, now)
<1> DEFINE gap == [from |-> lastTick, to |-> now]
           rec == sessions[k]
           new == AfterGap[k]
<1>1. /\ now \in Nat /\ lastTick \in Nat /\ sessTick \in Nat
      /\ rec \in Session /\ rec.lastObs <= lastTick
      /\ gap \in Gap /\ gap.from = lastTick /\ gap.to = now
  BY SessionTimes DEF Gap
<1>2. Going(rec, sessTick, now)
  BY DEF WatchInv
<1>3. CASE new = rec
  BY <1>1, <1>2, <1>3
<1>4. CASE new # rec
  <2>1. new = [rec EXCEPT !.gaps = Append(rec.gaps, gap)]
    BY <1>4 DEF AfterGap, WithGap
  <2>2. rec.gaps \in Seq(Gap)
    BY <1>1 DEF Session
  <2> HIDE DEF gap, rec
  <2>3. Append(rec.gaps, gap) \in Seq(Gap)
    BY <1>1, <2>2, CoversAppend
  <2> HIDE DEF new
  <2>4. /\ new \in Session /\ new.gaps = Append(rec.gaps, gap) /\ new.start = rec.start
        /\ new.zoneTime = rec.zoneTime /\ new.lastObs = rec.lastObs
    BY <1>1, <2>1, <2>3 DEF Session
  <2>5. Kept(rec, now) /\ rec.lastObs <= sessTick
    BY <1>2 DEF Going
  <2>6. rec.lastObs \in Nat /\ gap.to <= now
    BY <1>1 DEF Session
  <2>7. Kept(new, now) /\ Fair(new, Len(new.gaps))
    BY <1>1, <2>4, <2>5, <2>6, KeptWithGap
  <2> QED
    BY <2>4, <2>5, <2>7 DEF Going, new
<1> QED
  BY <1>3, <1>4

\* What a tick does to the other parts of the invariant.
LEMMA WatchTicks ==
    ASSUME SessInv, OutageInv, WatchInv, Ticks, now' = now, io' = <<>>, history' = history,
           up' = up, pending' = pending, snapshot' = snapshot, sessTick' \in {sessTick, now},
           \A k \in Keys : Has(activity', k) =>
              \/ activity'[k].at = now /\ sessTick' = now
              \/ Has(activity, k) /\ activity'[k] = activity[k],
           \A k \in Keys : Has(sessions', k) => Going(sessions'[k], sessTick', now)
    PROVE  WatchInv'
<1>1. /\ now \in Nat /\ lastTick \in Nat /\ sessTick \in Nat
      /\ sessTick <= lastTick /\ lastTick <= now
      /\ \A k \in Keys : Has(pending, k) =>
            pending[k] \in Session /\ pending[k].lastObs <= lastTick
      /\ \A k \in Keys : Has(activity, k) => activity[k].at \in Nat
  BY SessionTimes
<1>2. io = <<>> /\ lastTick' = now /\ up
  BY DEF Ticks, Idle
<1>3. Ended' = Ended
  BY <1>2 DEF Ended, Records, Closing
<1>4. sessTick' <= lastTick' /\ sessTick <= sessTick'
  BY <1>1, <1>2
<1>5. ASSUME NEW k \in Keys, Has(activity', k)
      PROVE  /\ activity'[k].at <= sessTick'
             /\ Has(pending', k) => pending'[k].lastObs <= activity'[k].at
  <2>1. CASE activity'[k].at = now /\ sessTick' = now
    <3>1. \A j \in Keys : Has(pending, j) => pending[j].lastObs \in Nat
      BY <1>1 DEF Session
    <3> QED
      BY <1>1, <2>1, <3>1
  <2>2. CASE Has(activity, k) /\ activity'[k] = activity[k]
    <3>1. /\ activity[k].at <= sessTick /\ activity[k].at \in Nat
          /\ Has(pending, k) => pending[k].lastObs <= activity[k].at
      BY <1>1, <2>2 DEF WatchInv
    <3> QED
      BY <1>1, <1>4, <2>2, <3>1
  <2> QED
    BY <1>5, <2>1, <2>2
<1> QED
  BY <1>2, <1>3, <1>4, <1>5 DEF WatchInv

LEMMA WatchTick ==
    ASSUME SessInv, OutageInv, WatchInv, Observe \/ TickAborts
    PROVE  WatchInv'
<1>0. now \in Nat /\ sessTick \in Nat /\ sessTick <= now /\ BaseInv
  BY SessionTimes DEF SessInv
<1>1. CASE TickAborts
  <2>1. /\ Ticks /\ now' = now /\ io' = <<>> /\ history' = history /\ up' = up
        /\ pending' = pending /\ snapshot' = snapshot /\ activity' = activity
        /\ sessTick' = sessTick /\ sessions' = AfterGap
    BY <1>1 DEF TickAborts, Ticks, Idle, clockVars, procVars, diskVars
  <2>2. \A k \in Keys : Has(AfterGap, k) => Has(sessions, k)
    BY <1>0, AfterGapType
  <2>3. \A k \in Keys : Has(sessions', k) => Going(sessions'[k], sessTick', now)
    BY <2>1, <2>2, WatchGap
  <2> QED
    BY <2>1, <2>3, WatchTicks
<1>2. CASE Observe
  <2>1. PICK seen \in SUBSET Keys : \E act \in SUBSET seen : ObserveTick(seen, act)
    BY <1>2 DEF Observe
  <2>2. PICK act \in SUBSET seen : ObserveTick(seen, act)
    BY <2>1
  <2>3. /\ Ticks /\ now' = now /\ io' = <<>> /\ history' = history /\ up' = up
        /\ pending' = pending /\ snapshot' = snapshot /\ sessTick' = now
        /\ sessions' = [k \in Keys |-> AfterTick(k, AfterGap[k], act)]
    BY <2>2 DEF ObserveTick, Ticks, Idle, clockVars, procVars, diskVars
  <2>4. \A k \in Keys : Has(activity', k) =>
           activity'[k].at = now \/ (Has(activity, k) /\ activity'[k] = activity[k])
    BY <2>2 DEF ObserveTick, Has
  <2>5. ASSUME NEW k \in Keys, Has(sessions', k) PROVE Going(sessions'[k], now, now)
    <3> DEFINE old == AfterGap[k]
               dt == Counted(sessTick, now)
    <3>1. ASSUME NEW rec \in Session
          PROVE  /\ Sampled(rec, dt, now) \in Session
                 /\ Sampled(rec, dt, now).start = rec.start
                 /\ Sampled(rec, dt, now).gaps = rec.gaps
                 /\ Sampled(rec, dt, now).lastObs = now
                 /\ Sampled(rec, dt, now).zoneTime = rec.zoneTime + dt
      <4>1. dt \in Nat
        BY <1>0, CountedType
      <4>2. Sampled(rec, dt, now) \in Session
        BY <1>0, <4>1, SampledType
      <4> QED
        BY <4>2 DEF Sampled, Session
    <3>2. /\ old \in Session \cup {None} /\ (old # None <=> Has(sessions, k))
          /\ NewSession(now) \in Session /\ NewSession(now).start = now
          /\ NewSession(now).gaps = <<>> /\ NewSession(now).zoneTime = 0
      BY <1>0, AfterGapType, NewSessionType DEF Sessions, Has, NewSession
    <3>3. \/ sessions'[k] = old
          \/ old # None /\ sessions'[k] = Sampled(old, dt, now)
          \/ old = None /\ sessions'[k] = Sampled(NewSession(now), dt, now)
      BY <2>3, <2>5 DEF AfterTick, Has
    <3>4. old # None => old \in Session /\ Going(old, sessTick, now)
      BY <3>2, WatchGap
    <3> HIDE DEF old
    <3>5. CASE sessions'[k] = old
      <4>1. old \in Session /\ Kept(old, now) /\ old.lastObs <= sessTick
        BY <2>5, <3>4, <3>5 DEF Has, Going
      <4>2. old.lastObs <= now
        BY <1>0, <4>1, RecordTime
      <4> QED
        BY <3>5, <4>1, <4>2 DEF Going, Kept
    <3>6. CASE old # None /\ sessions'[k] = Sampled(old, dt, now)
      <4>1. old \in Session /\ Going(old, sessTick, now)
        BY <3>4, <3>6
      <4> QED
        BY <1>0, <3>1, <3>6, <4>1, KeptSampled
    <3>7. CASE old = None /\ sessions'[k] = Sampled(NewSession(now), dt, now)
      <4>1. dt \in Nat
        BY <1>0, CountedType
      <4>2. /\ sessions'[k] \in Session /\ sessions'[k].gaps = <<>> /\ sessions'[k].start = now
            /\ sessions'[k].lastObs = now /\ sessions'[k].zoneTime = dt
        BY <3>1, <3>2, <3>7, <4>1
      <4> QED
        BY <1>0, <4>2, KeptNew
    <3> QED
      BY <3>3, <3>5, <3>6, <3>7
  <2> QED
    BY <2>3, <2>4, <2>5, WatchTicks
<1> QED
  BY <1>1, <1>2

\* What a start reads is what was saved; nothing has been watched since.
LEMMA WatchStart ==
    ASSUME SessInv, OutageInv, WatchInv, Start PROVE WatchInv'
<1>1. /\ now \in Nat /\ now' = now /\ lastTick' = now /\ sessTick' = now /\ up'
      /\ io = <<>> /\ io' = <<>> /\ history' = history /\ snapshot' = snapshot
      /\ sessions' = Empty /\ activity' = Empty
  BY DEF Start, diskVars, SessInv, BaseInv, TypeOK, StoppedInv, WatchInv
<1>2. Ended' = Ended
  BY <1>1 DEF Ended, Records, Closing
<1>3. \A k \in Keys : Has(pending', k) => Has(snapshot, k) /\ pending'[k] = snapshot[k]
  BY DEF Start, Has
<1>4. \A k \in Keys : Has(snapshot, k) => Kept(snapshot[k], now)
  BY DEF WatchInv
<1>5. \A k \in Keys : ~Has(sessions', k) /\ ~Has(activity', k)
  BY <1>1, EmptyTypes
<1>6. \A k \in Keys : \A d \in {pending', snapshot'} : Has(d, k) => Kept(d[k], now')
  BY <1>1, <1>3, <1>4 DEF Has
<1>7. \A rec \in Ended' : Told(rec)
  BY <1>2 DEF WatchInv
<1> QED
  BY <1>1, <1>5, <1>6, <1>7 DEF WatchInv

\* What a save writes tells what the memory tells.
LEMMA WatchDisk ==
    ASSUME SessInv, OutageInv, WatchInv, AppendSession \/ SaveSnapshot, SessInv'
    PROVE  WatchInv'
<1>1. /\ io \in Seq(Op) /\ io # <<>> /\ io' = Tail(io)
      /\ now' = now /\ now \in Nat /\ lastTick' = lastTick /\ sessTick' = sessTick /\ up' = up
      /\ sessions' = sessions /\ pending' = pending /\ activity' = activity
      /\ sessions \in Sessions /\ pending \in Sessions
      /\ history \in Seq(Completed)
  BY DEF AppendSession, SaveSnapshot, clockVars, procVars, tickVars, SessInv, BaseInv,
     TypeOK, Op
<1>2. Closing' = {}
  <2>1. \A i \in DOMAIN io' : i + 1 \in DOMAIN io /\ i + 1 # 1 /\ io'[i] = io[i + 1]
    BY <1>1, WritesLeft
  <2>2. \A i \in DOMAIN io' : io'[i].op # "append"
    BY <2>1 DEF SessInv, WritesInv
  <2>3. io' # <<>> => 1 \in DOMAIN io' /\ Head(io') = io'[1]
    BY <1>1, WritesLeft
  <2> QED
    BY <2>2, <2>3 DEF Closing
<1>3. \A rec \in Ended' : rec \in Ended
  <2>1. CASE AppendSession
    <3> DEFINE rec == Head(io).rec
    <3>1. Closing = {rec} /\ history' = Append(history, rec)
      BY <1>1, <2>1 DEF AppendSession, Closing
    <3>2. rec \in Completed
      BY <3>1, RecordTypes DEF SessInv
    <3> HIDE DEF rec
    <3>3. /\ DOMAIN history = 1 .. Len(history)
          /\ DOMAIN history' = 1 .. Len(history) + 1 /\ Len(history) \in Nat
          /\ \A i \in 1 .. Len(history) : history'[i] = history[i]
          /\ history'[Len(history) + 1] = rec
      BY <1>1, <3>1, <3>2, AppendProperties, LenProperties
    <3> QED
      BY <1>2, <3>1, <3>3 DEF Records, Ended
  <2>2. CASE SaveSnapshot
    <3>1. history' = history
      BY <2>2 DEF SaveSnapshot
    <3> QED
      BY <1>2, <3>1 DEF Records, Ended
  <2> QED
    BY <2>1, <2>2
<1>4. ASSUME NEW k \in Keys, Has(snapshot', k)
      PROVE  \E d \in {sessions, pending, snapshot} :
                Has(d, k) /\ Facts(snapshot'[k]) = Facts(d[k])
  <2>1. CASE AppendSession
    BY <1>4, <2>1 DEF AppendSession, Has
  <2>2. CASE SaveSnapshot
    <3>1. \A rec \in Session : Facts([rec EXCEPT !.consecutive = 0]) = Facts(rec)
      BY DEF Facts, Session
    <3>2. snapshot' = Merged(sessions, pending)
      BY <1>1, <2>2, WritesLeft DEF SaveSnapshot, SessInv, WritesInv
    <3>3. \/ Has(pending, k) /\ snapshot'[k] = [pending[k] EXCEPT !.consecutive = 0]
          \/ Has(sessions, k) /\ snapshot'[k] = [sessions[k] EXCEPT !.consecutive = 0]
      BY <1>4, <3>2 DEF Merged, Has, Confirmed
    <3>4. /\ Has(pending, k) => pending[k] \in Session
          /\ Has(sessions, k) => sessions[k] \in Session
      BY <1>1 DEF Sessions, Has
    <3> QED
      BY <3>1, <3>3, <3>4
  <2> QED
    BY <2>1, <2>2
<1> QED
  BY <1>1, <1>3, <1>4, WatchQuiet

LEMMA WatchCloses ==
    ASSUME SessInv, OutageInv, WatchInv, NEW k \in Keys, CloseIdle(k) \/ CloseRestored(k),
           SessInv'
    PROVE  WatchInv'
<1>1. /\ io = <<>> /\ history' = history /\ snapshot' = snapshot
      /\ activity' = activity /\ up' = up /\ now' = now /\ lastTick' = lastTick
      /\ sessTick' = sessTick /\ sessions \in Sessions /\ pending \in Sessions
  BY DEF CloseIdle, CloseRestored, clockVars, procVars, tickVars, diskVars, SessInv, BaseInv,
     TypeOK
<1>2. Closing = {} /\ Records' = Records
  BY <1>1 DEF Closing, Records
<1>3. /\ now \in Nat /\ lastTick \in Nat /\ lastTick <= now
      /\ \A d \in {sessions, pending} : Has(d, k) =>
            /\ d[k] \in Session /\ d[k].lastObs <= lastTick /\ Kept(d[k], now)
            /\ d[k].lastObs \in Nat
  BY SessionTimes, RecordTime
<1>4. CASE CloseIdle(k)
  <2> DEFINE rec == Finalized(k, sessions[k], now, FALSE, None)
  <2>1. /\ Has(sessions, k) /\ pending' = pending
        /\ sessions' = [sessions EXCEPT ![k] = None]
        /\ io' = <<AppendOf(rec), SaveOf(sessions', pending)>>
    BY <1>4 DEF CloseIdle, IdleTooLong, Confirmed
  <2>2. /\ rec.id[2] = sessions[k].start /\ rec.end = now
        /\ rec.gaps = sessions[k].gaps /\ rec.zoneTime = sessions[k].zoneTime
    BY DEF Finalized
  <2> HIDE DEF rec
  <2>3. Closing' = {rec}
    BY <2>1 DEF Closing, AppendOf
  <2>4. sessions[k].lastObs <= now
    BY <1>3, <2>1
  <2>5. Told(rec)
    BY <1>3, <2>1, <2>2, <2>4, ToldEnd
  <2>6. \A j \in Keys : Has(sessions', j) =>
           Has(sessions, j) /\ Facts(sessions'[j]) = Facts(sessions[j])
    BY <1>1, <2>1 DEF Sessions, Has
  <2>7. \A old \in Ended' : old \in Ended \/ Told(old)
    BY <1>2, <2>3, <2>5 DEF Ended
  <2>8. now <= now'
    BY <1>1, <1>3
  <2> QED
    BY <1>1, <2>1, <2>6, <2>7, <2>8, WatchQuiet
<1>5. CASE CloseRestored(k)
  <2> DEFINE rec == Finalized(k, pending[k], now, TRUE, RestartGap(k))
             gap == RestartGap(k)
  <2>1. /\ Has(pending, k) /\ sessions' = sessions
        /\ pending' = [pending EXCEPT ![k] = None]
        /\ io' = <<AppendOf(rec), SaveOf(sessions, pending')>>
    BY <1>5 DEF CloseRestored
  <2>2. /\ rec.id[2] = pending[k].start /\ rec.end = now
        /\ rec.gaps = Append(pending[k].gaps, gap) /\ rec.zoneTime = pending[k].zoneTime
    BY DEF Finalized
  <2>3. gap \in Gap /\ pending[k].lastObs <= gap.from /\ pending[k].lastObs <= now
    BY <1>3, <2>1 DEF RestartGap, Gap
  <2> HIDE DEF rec, gap
  <2>4. Closing' = {rec}
    BY <2>1 DEF Closing, AppendOf
  <2>5. Told(rec)
    BY <1>3, <2>1, <2>2, <2>3, ToldEnd
  <2>6. \A j \in Keys : Has(pending', j) => Has(pending, j) /\ pending'[j] = pending[j]
    BY <1>1, <2>1 DEF Sessions, Has
  <2>7. \A old \in Ended' : old \in Ended \/ Told(old)
    BY <1>2, <2>4, <2>5 DEF Ended
  <2>8. now <= now'
    BY <1>1, <1>3
  <2> QED
    BY <1>1, <2>1, <2>6, <2>7, <2>8, WatchQuiet
<1> QED
  BY <1>4, <1>5

\* A session that goes on after a restart has the gap, and a sample to spare.
LEMMA WatchResumes ==
    ASSUME SessInv, OutageInv, WatchInv, NEW k \in Keys, ResumeRestored(k)
    PROVE  WatchInv'
<1> DEFINE rec == Resumed(pending[k], RestartGap(k), activity[k].at)
           gap == RestartGap(k)
<1>1. /\ io = <<>> /\ io' = <<>> /\ history' = history /\ snapshot' = snapshot
      /\ activity' = activity /\ up' = up /\ now' = now /\ lastTick' = lastTick
      /\ sessTick' = sessTick /\ sessions \in Sessions /\ pending \in Sessions
      /\ Has(pending, k) /\ Has(activity, k)
      /\ pending' = [pending EXCEPT ![k] = None]
      /\ sessions' = [sessions EXCEPT ![k] = rec]
  BY DEF ResumeRestored, StillActive, clockVars, procVars, tickVars, diskVars, SessInv,
     BaseInv, TypeOK
<1>2. /\ now \in Nat /\ lastTick \in Nat /\ lastTick <= now
      /\ pending[k] \in Session /\ Kept(pending[k], now) /\ activity[k].at \in Nat
  BY <1>1, SessionTimes
<1>3. /\ activity[k].at <= sessTick /\ pending[k].lastObs <= activity[k].at
  BY <1>1 DEF WatchInv
<1>4. pending[k].lastObs \in Nat /\ gap \in Gap /\ gap.from = pending[k].lastObs /\ gap.to = now
  BY <1>2 DEF Session, RestartGap, Gap
<1> HIDE DEF gap
<1>5. Going(rec, sessTick, now)
  <2>1. rec \in Session
    BY <1>2, <1>4, ResumedType DEF gap
  <2>2. /\ rec.gaps = Append(pending[k].gaps, gap) /\ rec.start = pending[k].start
        /\ rec.zoneTime = pending[k].zoneTime /\ rec.lastObs = activity[k].at
    BY <1>2 DEF Resumed, Session, gap
  <2> HIDE DEF rec
  <2>3. pending[k].lastObs <= gap.from /\ gap.to <= now /\ pending[k].lastObs <= rec.lastObs
    BY <1>2, <1>3, <1>4, <2>2
  <2>4. Kept(rec, now) /\ Fair(rec, Len(rec.gaps))
    BY <1>2, <1>4, <2>1, <2>2, <2>3, KeptWithGap
  <2> QED
    BY <1>3, <2>2, <2>4 DEF Going
<1> HIDE DEF rec
<1>6. Ended' = Ended
  BY <1>1 DEF Ended, Records, Closing
<1>7. \A j \in Keys : Has(sessions', j) => Going(sessions'[j], sessTick', now')
  BY <1>1, <1>5 DEF WatchInv, Sessions, Has
<1>8. \A j \in Keys : Has(pending', j) => Has(pending, j) /\ pending'[j] = pending[j]
  BY <1>1 DEF Sessions, Has
<1>9. \A j \in Keys : \A d \in {pending', snapshot'} : Has(d, j) => Kept(d[j], now')
  BY <1>1, <1>8 DEF WatchInv, Has
<1>10. \A j \in Keys : Has(activity', j) =>
          /\ activity'[j].at <= sessTick'
          /\ Has(pending', j) => pending'[j].lastObs <= activity'[j].at
  BY <1>1, <1>8 DEF WatchInv, Has
<1>11. sessTick' <= lastTick' /\ (~up' => activity' = Empty) /\ \A old \in Ended' : Told(old)
  BY <1>1, <1>6 DEF WatchInv
<1> QED
  BY <1>7, <1>9, <1>10, <1>11 DEF WatchInv

\* The other steps neither sample nor complete anything.
LEMMA WatchOther ==
    ASSUME SessInv, OutageInv, WatchInv, SessInv',
           \/ Advance \/ Crash \/ Exit \/ TickEnds
           \/ ReconcileBegin \/ ReconcileEnds \/ Flush \/ CloseApp
           \/ \E k \in Keys : IncidentCloses(k)
    PROVE  WatchInv'
<1>1. /\ UNCHANGED <<lastTick, sessTick, snapshot, history>>
      /\ (activity' = activity /\ up' = up) \/ activity' = Empty
      /\ now' = now \/ now' = now + 1
  BY DEF Advance, Crash, Exit, Stopped, TickEnds, ReconcileBegin, ReconcileEnds, Flush,
     CloseApp, IncidentCloses, clockVars, procVars, tickVars, diskVars
<1>2. now <= now'
  BY <1>1, SessionTimes
<1>3. \A rec \in Ended' : rec \in Ended
  <2>1. io' = <<>> \/ io' = io \/ io' = <<SaveOf(sessions, pending)>>
    BY DEF Advance, Crash, Exit, Stopped, TickEnds, ReconcileBegin, ReconcileEnds, Flush,
       CloseApp, IncidentCloses
  <2>2. SaveOf(sessions, pending).op = "save"
    BY DEF SaveOf
  <2>3. Closing' \subseteq Closing
    BY <2>1, <2>2 DEF Closing
  <2> QED
    BY <1>1, <2>3 DEF Ended, Records
<1>4. \A k \in Keys : Has(pending', k) => Has(pending, k) /\ pending'[k] = pending[k]
  <2>1. pending' = pending \/ pending' = Empty
    BY DEF Advance, Crash, Exit, Stopped, TickEnds, ReconcileBegin, ReconcileEnds, Flush,
       CloseApp, IncidentCloses
  <2> QED
    BY <2>1, EmptyTypes
<1>5. ASSUME NEW k \in Keys, Has(sessions', k)
      PROVE  Has(sessions, k) /\ Facts(sessions'[k]) = Facts(sessions[k])
  <2>1. CASE sessions' = sessions \/ sessions' = Empty
    BY <1>5, <2>1, EmptyTypes
  <2>2. CASE TickEnds
    <3>1. CASE Confirmed(sessions, k)
      <4> DEFINE new == sessions[k].incidents
                           \cup {inc \in incidents \ linked : inc.workload = k}
      <4>1. sessions[k] \in Session /\ Has(sessions, k)
        BY <3>1 DEF SessInv, BaseInv, TypeOK, Sessions, Confirmed, Has
      <4>2. sessions'[k] = [sessions[k] EXCEPT !.incidents = new]
        BY <2>2, <3>1 DEF TickEnds
      <4> HIDE DEF new
      <4> QED
        BY <4>1, <4>2 DEF Session, Facts
    <3>2. CASE ~Confirmed(sessions, k)
      BY <1>5, <2>2, <3>2 DEF TickEnds, Has
    <3> QED
      BY <3>1, <3>2
  <2> QED
    BY <2>1, <2>2 DEF Advance, Crash, Exit, Stopped, ReconcileBegin, ReconcileEnds,
       Flush, CloseApp, IncidentCloses
<1>6. \A k \in Keys : Has(snapshot', k) => \E d \in {sessions, pending, snapshot} :
         Has(d, k) /\ Facts(snapshot'[k]) = Facts(d[k])
  BY <1>1 DEF Has
<1> QED
  BY <1>1, <1>2, <1>3, <1>4, <1>5, <1>6, WatchQuiet

LEMMA WatchNext == SessInv /\ OutageInv /\ WatchInv /\ [Next]_vars => WatchInv'
<1> SUFFICES ASSUME SessInv, OutageInv, WatchInv, [Next]_vars PROVE WatchInv'
  OBVIOUS
<1>0. SessInv'
  BY SessNext
<1>1. CASE UNCHANGED vars
  <2>1. /\ Ended' = Ended /\ UNCHANGED <<lastTick, sessTick, snapshot>> /\ activity' = activity
        /\ up' = up /\ now' = now /\ sessions' = sessions /\ pending' = pending
    BY <1>1 DEF vars, Ended, Records, Closing
  <2> QED
    BY <2>1 DEF WatchInv
<1>2. CASE Start
  BY <1>2, WatchStart
<1>3. CASE AppendSession \/ SaveSnapshot
  BY <1>0, <1>3, WatchDisk
<1>4. CASE Observe \/ TickAborts
  BY <1>4, WatchTick
<1>5. CASE \E k \in Keys : CloseIdle(k) \/ Reconcile(k)
  BY <1>0, <1>5, WatchCloses, WatchResumes DEF Reconcile
<1>6. CASE \/ Advance \/ Crash \/ Exit \/ TickEnds
           \/ ReconcileBegin \/ ReconcileEnds \/ Flush \/ CloseApp
           \/ \E k \in Keys : IncidentCloses(k)
  BY <1>0, <1>6, WatchOther
<1> QED
  BY <1>1, <1>2, <1>3, <1>4, <1>5, <1>6 DEF Next

LEMMA WatchInit == Init => WatchInv
<1> SUFFICES ASSUME Init PROVE WatchInv
  OBVIOUS
<1>1. /\ lastTick = 0 /\ sessTick = 0 /\ io = <<>> /\ DOMAIN history = {}
      /\ sessions = Empty /\ pending = Empty /\ snapshot = Empty /\ activity = Empty
  BY DEF Init
<1>2. Ended = {}
  BY <1>1 DEF Ended, Records, Closing
<1> QED
  BY <1>1, <1>2, EmptyTypes DEF WatchInv

\* "do not count unmonitored gaps": whatever the sequence of suspends, kills and
\* restarts, the time a completed session counts is watched time, but for one sample at
\* its start and one after each gap.
THEOREM TimeIsAlwaysWatched == Spec => []TimeIsWatched
<1>1. WatchInv => TimeIsWatched
  BY DEF WatchInv, TimeIsWatched, Told, Ended
<1> QED
  BY <1>1, WatchInit, WatchNext, OutageInit, OutageNext, SessInvariant, PTL DEF Spec

=============================================================================
