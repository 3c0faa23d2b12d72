------------------------- MODULE PulseScheduler_proofs -------------------------
(***************************************************************************)
(* Theorems about PulseScheduler for any number of Pulses, runs and        *)
(* daemons, any schedules and any length of time: the tables stay well     *)
(* formed, the control row names every running run, and pulse_runs follows *)
(* the life cycle of PulseRuns.                                            *)
(***************************************************************************)
EXTENDS PulseProperties, TLAPS, WellFoundedInduction

(* What TypeOK leaves out: a row that exists has a schedule, a leased claim*)
(* names a run, an edit names a Pulse, and so does the run of a job.       *)
GoodRow == {x \in Row : /\ x.exists => x.schedule \in Schedule
                        /\ x.claim.lease # "none" => x.claim.active \in Run}
Shape ==
  /\ TypeOK
  /\ row \in [Pulse -> GoodRow]
  /\ editing # NoEdit => editing.pulse \in Pulse
  /\ \A r \in Run : job[r].state # "none" => run[r].pulse \in Pulse

(* The inductive invariant.                                                *)
IInv == Shape /\ RunningIsClaimed

-----------------------------------------------------------------------------
(* The next run of a schedule is one of its minutes, after the given one,  *)
(* as long as there is one.                                                *)
LEMMA NextRunWhenLater ==
  ASSUME NEW schedule \in Schedule \cup {{}}, NEW after \in Nat,
         {t \in schedule : t > after} # {}
  PROVE  NextRun(schedule, after) \in {t \in schedule : t > after}
<1> DEFINE later == {t \in schedule : t > after}
<1>1. later \subseteq Nat
  BY PulseAssumption DEF PulseAssumption
<1>2. \E t \in later : \A u \in later : ~(<<u, t>> \in OpToRel(<, Nat))
  BY <1>1, NatLessThanWellFounded, WFMin, Zenon
<1>3. \E t \in later : \A u \in later : t <= u
  <2>1. PICK t \in later : \A u \in later : ~(<<u, t>> \in OpToRel(<, Nat))
    BY <1>2
  <2>2. ASSUME NEW u \in later
        PROVE  t <= u
    <3>1. t \in Nat /\ u \in Nat
      BY <1>1
    <3>2. u < t => <<u, t>> \in OpToRel(<, Nat)
      BY <3>1 DEF OpToRel
    <3>3. ~(<<u, t>> \in OpToRel(<, Nat))
      BY <2>1, <2>2
    <3>4. ~(u < t)
      BY <3>2, <3>3, Zenon
    <3>5. QED
      BY <3>1, <3>4
  <2>3. QED
    BY <2>2
<1>4. (CHOOSE t \in later : \A u \in later : t <= u) \in later
  BY <1>3
<1>5. QED
  BY <1>4 DEF NextRun

LEMMA NextRunIsLater ==
  ASSUME NEW schedule \in Schedule \cup {{}}, NEW after \in Nat
  PROVE  NextRun(schedule, after) \in {t \in schedule : t > after} \cup {NoTime}
<1>1. {t \in schedule : t > after} = {} => NextRun(schedule, after) = NoTime
  BY DEF NextRun
<1>2. QED
  BY <1>1, NextRunWhenLater

LEMMA NextRunType ==
  ASSUME NEW schedule \in Schedule \cup {{}}, NEW after \in Nat
  PROVE  NextRun(schedule, after) \in Nat \cup {NoTime}
BY NextRunIsLater, PulseAssumption DEF PulseAssumption

-----------------------------------------------------------------------------
(* What the helpers of the actions make of well-formed tables.             *)
LEMMA RowParts ==
  ASSUME Shape, NEW p \in Pulse
  PROVE  /\ row[p] \in GoodRow
         /\ row[p] = [exists |-> row[p].exists, born |-> row[p].born,
                      schedule |-> row[p].schedule, enabled |-> row[p].enabled,
                      next |-> row[p].next, claim |-> row[p].claim]
         /\ row[p].claim \in Claim
BY DEF Shape, GoodRow, Row

LEMMA ReleaseType ==
  ASSUME Shape, NEW p \in Pulse, NEW next \in Nat \cup {NoTime}
  PROVE  Release(p, next) \in GoodRow
<1>1. NoClaim \in Claim /\ NoClaim.lease = "none"
  BY DEF NoClaim, Claim, Lease
<1>2. QED
  BY <1>1, RowParts DEF Release, GoodRow, Row

LEMMA SetLeaseType ==
  ASSUME Shape, NEW p \in Pulse, NEW lease \in Lease, Active(p) \in Run
  PROVE  SetLease(p, lease) \in GoodRow
<1> DEFINE claim == [row[p].claim EXCEPT !.lease = lease]
<1>1. claim \in Claim /\ claim.active = Active(p)
  BY RowParts DEF Claim, Active
<1>2. QED
  BY <1>1, RowParts DEF SetLease, GoodRow, Row

LEMMA SetRowType ==
  ASSUME Shape, NEW p \in Pulse, NEW new \in GoodRow, SetRow(p, new)
  PROVE  row' \in [Pulse -> GoodRow]
BY DEF Shape, SetRow

LEMMA GoodRowsAreRows ==
  ASSUME row' \in [Pulse -> GoodRow]
  PROVE  row' \in [Pulse -> Row]
BY DEF GoodRow

LEMMA EndRunsType ==
  ASSUME Shape, NEW R, NEW status \in EndStatus, EndRuns(R, status)
  PROVE  /\ run' \in [Run -> [status : RunStatus, pulse : Pulse \cup {NoPulse}]]
         /\ \A r \in Run : run'[r].pulse = run[r].pulse
BY DEF Shape, TypeOK, EndRuns, RunStatus

-----------------------------------------------------------------------------
(* Every action keeps the tables well formed.                              *)
LEMMA CreateShape ==
  ASSUME Shape, NEW p \in Pulse, NEW s \in Schedule, Create(p, s)
  PROVE  Shape'
<1> DEFINE new == [exists |-> TRUE, born |-> now, schedule |-> s, enabled |-> TRUE,
                   next |-> NextRun(s, now), claim |-> NoClaim]
<1>1. now \in Nat
  BY DEF Shape, TypeOK
<1>2. NextRun(s, now) \in Nat \cup {NoTime}
  BY <1>1, NextRunType
<1>3. new \in GoodRow
  BY <1>1, <1>2 DEF GoodRow, Row, NoClaim, Claim, Lease
<1>4. row' \in [Pulse -> GoodRow]
  BY <1>3, SetRowType DEF Create
<1>5. QED
  BY <1>4, GoodRowsAreRows DEF Shape, TypeOK, Create

LEMMA SetEnabledShape ==
  ASSUME Shape, NEW p \in Pulse, NEW b \in BOOLEAN, SetEnabled(p, b)
  PROVE  Shape'
<1> DEFINE next == IF b THEN NextRun(row[p].schedule, now) ELSE NoTime
           new == [row[p] EXCEPT !.enabled = b, !.next = next]
<1>1. now \in Nat /\ row[p].schedule \in Schedule \cup {{}}
  BY RowParts DEF Shape, TypeOK, GoodRow, Row
<1>2. next \in Nat \cup {NoTime}
  BY <1>1, NextRunType
<1>3. new \in GoodRow
  BY <1>2, RowParts DEF GoodRow, Row
<1>4. row' \in [Pulse -> GoodRow]
  BY <1>3, SetRowType DEF SetEnabled
<1>5. QED
  BY <1>4, GoodRowsAreRows DEF Shape, TypeOK, SetEnabled

LEMMA UpdatePulseShape ==
  ASSUME Shape, NEW p \in Pulse, NEW s \in Schedule, UpdatePulse(p, s)
  PROVE  Shape'
<1>1. [row[p] EXCEPT !.schedule = s] \in GoodRow
  BY RowParts DEF GoodRow, Row
<1>2. row' \in [Pulse -> GoodRow]
  BY <1>1, SetRowType DEF UpdatePulse
<1>3. row[p].enabled \in BOOLEAN
  BY RowParts DEF GoodRow, Row
<1>4. QED
  BY <1>2, <1>3, GoodRowsAreRows DEF Shape, TypeOK, UpdatePulse

LEMMA UpdateControlShape ==
  ASSUME Shape, UpdateControl
  PROVE  Shape'
<1> DEFINE p == editing.pulse
           next == IF editing.enabled THEN NextRun(editing.schedule, now) ELSE NoTime
<1>1. p \in Pulse /\ now \in Nat /\ editing.schedule \in Schedule \cup {{}}
  BY DEF Shape, TypeOK, UpdateControl
<1>2. next \in Nat \cup {NoTime}
  BY <1>1, NextRunType
<1>3. [row[p] EXCEPT !.next = next] \in GoodRow
  <2>1. row[p] \in GoodRow
    BY <1>1, RowParts
  <2>2. QED
    BY <1>2, <2>1 DEF GoodRow, Row
<1>4. row' \in [Pulse -> GoodRow] /\ raced' \in SUBSET Pulse
  <2>1. CASE ~Exists(p)
    BY <2>1 DEF UpdateControl, Shape, TypeOK
  <2>2. CASE Exists(p)
    BY <1>1, <1>3, <2>2, SetRowType DEF UpdateControl, Shape, TypeOK
  <2>3. QED
    BY <2>1, <2>2
<1>5. NoEdit \in [pulse : Pulse \cup {NoPulse}, schedule : Schedule \cup {{}},
                  enabled : BOOLEAN]
  BY DEF NoEdit
<1>6. QED
  BY <1>4, <1>5, GoodRowsAreRows DEF Shape, TypeOK, UpdateControl

LEMMA DeleteShape ==
  ASSUME Shape, NEW p \in Pulse, Delete(p)
  PROVE  Shape'
<1>1. [NoRow EXCEPT !.born = row[p].born] \in GoodRow
  BY RowParts DEF GoodRow, Row, NoRow, NoClaim, Claim, Lease
<1>2. row' \in [Pulse -> GoodRow]
  BY <1>1, SetRowType DEF Delete
<1>3. /\ run' \in [Run -> [status : RunStatus, pulse : Pulse \cup {NoPulse}]]
      /\ \A r \in Run : run'[r].pulse = run[r].pulse
  BY DEF Shape, TypeOK, Delete, RunStatus
<1>4. QED
  BY <1>2, <1>3, GoodRowsAreRows DEF Shape, TypeOK, Delete

LEMMA ClientStopsShape ==
  ASSUME Shape, ClientStops
  PROVE  Shape'
<1>1. NoEdit \in [pulse : Pulse \cup {NoPulse}, schedule : Schedule \cup {{}},
                  enabled : BOOLEAN]
  BY DEF NoEdit
<1>2. raced' \in SUBSET Pulse /\ opening' \in SUBSET Run /\ recovering' \in SUBSET Recovery
  BY DEF Shape, TypeOK, ClientStops
<1>3. QED
  BY <1>1, <1>2 DEF Shape, TypeOK, ClientStops

LEMMA OpenShape ==
  ASSUME Shape, OpenRead \/ OpenAdopt
  PROVE  Shape'
<1>1. CASE OpenRead
  BY <1>1 DEF Shape, TypeOK, OpenRead
<1>2. CASE OpenAdopt
  <2>1. PICK r \in opening :
          /\ opening' = opening \ {r}
          /\ \/ UNCHANGED row
             \/ /\ run[r].pulse \in Pulse
                /\ SetRow(run[r].pulse,
                          [row[run[r].pulse] EXCEPT !.claim = Adopted(row[run[r].pulse].claim, r),
                                                    !.next = NoTime])
    BY <1>2 DEF OpenAdopt
  <2>2. row' \in [Pulse -> GoodRow]
    <3>1. CASE UNCHANGED row
      BY <3>1 DEF Shape
    <3>2. ASSUME NEW p \in Pulse, NEW q \in Run,
                 SetRow(p, [row[p] EXCEPT !.claim = Adopted(row[p].claim, q), !.next = NoTime])
          PROVE  row' \in [Pulse -> GoodRow]
      <4>1. /\ Adopted(row[p].claim, q) \in Claim
            /\ Adopted(row[p].claim, q).active \in Run \/ Adopted(row[p].claim, q) = row[p].claim
        BY RowParts DEF Adopted, Claim, Legacy, Lease
      <4>2. [row[p] EXCEPT !.claim = Adopted(row[p].claim, q), !.next = NoTime] \in GoodRow
        BY <4>1, RowParts DEF GoodRow, Row
      <4>3. QED
        BY <3>2, <4>2, SetRowType
    <3>3. QED
      BY <2>1, <3>1, <3>2 DEF Shape, TypeOK
  <2>3. opening' \in SUBSET Run
    BY <2>1 DEF Shape, TypeOK
  <2>4. QED
    BY <1>2, <2>2, <2>3, GoodRowsAreRows DEF Shape, TypeOK, OpenAdopt
<1>3. QED
  BY <1>1, <1>2

LEMMA RecoverReadShape ==
  ASSUME Shape, RecoverRead
  PROVE  Shape'
<1>1. ASSUME NEW p \in Pulse, Exists(p), row[p].claim.lease = "expired"
      PROVE  [pulse |-> p, run |-> Active(p), schedule |-> row[p].schedule] \in Recovery
  BY <1>1, RowParts DEF Recovery, GoodRow, Exists, Active
<1>2. recovering' \in SUBSET Recovery
  BY <1>1 DEF RecoverRead
<1>3. QED
  BY <1>2 DEF Shape, TypeOK, RecoverRead

LEMMA RecoverApplyShape ==
  ASSUME Shape, RecoverApply
  PROVE  Shape'
<1>1. /\ run' \in [Run -> [status : RunStatus, pulse : Pulse \cup {NoPulse}]]
      /\ \A r \in Run : run'[r].pulse = run[r].pulse
  BY EndRunsType DEF RecoverApply, EndStatus
<1>2. now + 1 \in Nat /\ recovering \in SUBSET Recovery
  BY DEF Shape, TypeOK
<1>3. ASSUME NEW p \in Pulse, \E c \in recovering : Recovers(p, c)
      PROVE  Release(p, NextRun((CHOOSE c \in recovering : Recovers(p, c)).schedule, now + 1))
               \in GoodRow
  <2>1. (CHOOSE c \in recovering : Recovers(p, c)).schedule \in Schedule
    BY <1>2, <1>3 DEF Recovery
  <2>2. QED
    BY <1>2, <2>1, NextRunType, ReleaseType
<1>4. row' \in [Pulse -> GoodRow]
  BY <1>3 DEF Shape, RecoverApply
<1>5. released' \in SUBSET Run /\ raced' \in SUBSET Pulse
  BY <1>2 DEF Shape, TypeOK, RecoverApply, Recovery
<1>6. QED
  BY <1>1, <1>4, <1>5, GoodRowsAreRows DEF Shape, TypeOK, RecoverApply

LEMMA FinalizeShape ==
  ASSUME Shape, NEW p \in Pulse, NEW outcome \in EndStatus, Finalize(p, outcome)
  PROVE  Shape'
<1> DEFINE next == NextRun(row[p].schedule, IF outcome = "error" THEN now + 1 ELSE now)
<1>1. /\ run' \in [Run -> [status : RunStatus, pulse : Pulse \cup {NoPulse}]]
      /\ \A r \in Run : run'[r].pulse = run[r].pulse
  BY EndRunsType DEF Finalize
<1>2. now \in Nat /\ now + 1 \in Nat /\ row[p].schedule \in Schedule \cup {{}}
  BY RowParts DEF Shape, TypeOK, GoodRow, Row
<1>3. row' \in [Pulse -> GoodRow]
  BY <1>2, NextRunType, ReleaseType, SetRowType DEF Finalize
<1>4. released' \in SUBSET Run
  BY RowParts DEF Shape, TypeOK, Finalize, Claim, Active
<1>5. QED
  BY <1>1, <1>3, <1>4, GoodRowsAreRows DEF Shape, TypeOK, Finalize

LEMMA DaemonShape ==
  ASSUME Shape, NEW d \in Owner,
         StartDaemon(d) \/ Stop(d) \/ Poll(d) \/ Drain(d) \/ Crash(d)
  PROVE  Shape'
<1>1. CASE StartDaemon(d)
  BY <1>1 DEF Shape, TypeOK, StartDaemon, TakeTick, Lease
<1>2. CASE Stop(d)
  BY <1>2 DEF Shape, TypeOK, Stop
<1>3. CASE Poll(d)
  BY <1>3 DEF Shape, TypeOK, Poll, TakeTick, Lease
<1>4. CASE Drain(d)
  BY <1>4 DEF Shape, TypeOK, Drain, Lease
<1>5. CASE Crash(d)
  <2>1. job' \in [Run -> [state : {"none", "working", "orphan", "done"},
                          owner : Owner \cup {NoOwner}, schedule : Schedule \cup {{}}]]
    BY <1>5 DEF Shape, TypeOK, Crash
  <2>2. \A r \in Run : job'[r].state # "none" => job[r].state # "none"
    BY <1>5 DEF Shape, TypeOK, Crash, Working
  <2>3. QED
    BY <1>5, <2>1, <2>2 DEF Shape, TypeOK, Crash
<1>6. QED
  BY <1>1, <1>2, <1>3, <1>4, <1>5

LEMMA ClaimDueShape ==
  ASSUME Shape, NEW d \in Owner, ClaimDue(d)
  PROVE  Shape'
<1>1. PICK R \in SUBSET Run : \E of \in [R -> {p \in Pulse : Claimable(p)}] : StartRuns(d, R, of)
  BY DEF ClaimDue
<1>2. PICK of \in [R -> {p \in Pulse : Claimable(p)}] : StartRuns(d, R, of)
  BY <1>1
<1>3. run' \in [Run -> [status : RunStatus, pulse : Pulse \cup {NoPulse}]]
  BY <1>2 DEF Shape, TypeOK, RunStatus, StartRuns
<1>4. ASSUME NEW p \in Pulse, \E r \in R : of[r] = p
      PROVE  [row[p] EXCEPT !.next = NoTime,
                !.claim = [active |-> CHOOSE r \in R : of[r] = p,
                           owner |-> d, lease |-> "valid"]] \in GoodRow
  <2>1. (CHOOSE r \in R : of[r] = p) \in Run
    BY <1>4
  <2>2. [active |-> CHOOSE r \in R : of[r] = p, owner |-> d, lease |-> "valid"] \in Claim
    BY <2>1 DEF Claim, Lease
  <2>3. QED
    BY <2>1, <2>2, RowParts DEF GoodRow, Row
<1>5. row' \in [Pulse -> GoodRow]
  BY <1>2, <1>4 DEF Shape, StartRuns
<1>6. \A r \in R : of[r] \in Pulse /\ row[of[r]].schedule \in Schedule \cup {{}}
  BY RowParts DEF GoodRow, Row
<1>7. job' \in [Run -> [state : {"none", "working", "orphan", "done"},
                        owner : Owner \cup {NoOwner}, schedule : Schedule \cup {{}}]]
  BY <1>2, <1>6 DEF Shape, TypeOK, StartRuns
<1>8. \A r \in Run : job'[r].state # "none" => run'[r].pulse \in Pulse
  BY <1>2, <1>6 DEF Shape, TypeOK, StartRuns
<1>9. QED
  BY <1>3, <1>5, <1>7, <1>8, GoodRowsAreRows DEF Shape, TypeOK, ClaimDue

LEMMA SetJobType ==
  ASSUME Shape, NEW r \in Run, NEW state \in {"working", "orphan", "done"},
         SetJob(r, state), job[r].state # "none"
  PROVE  /\ job' \in [Run -> [state : {"none", "working", "orphan", "done"},
                              owner : Owner \cup {NoOwner}, schedule : Schedule \cup {{}}]]
         /\ \A q \in Run : job'[q].state # "none" => job[q].state # "none"
<1> DEFINE new == [job[r] EXCEPT !.state = state]
<1>1. new \in [state : {"none", "working", "orphan", "done"},
              owner : Owner \cup {NoOwner}, schedule : Schedule \cup {{}}]
  <2>1. job[r] \in [state : {"none", "working", "orphan", "done"},
                    owner : Owner \cup {NoOwner}, schedule : Schedule \cup {{}}]
    BY DEF Shape, TypeOK
  <2>2. QED
    BY <2>1
<1>2. job' = [job EXCEPT ![r] = new]
  BY DEF SetJob
<1>3. QED
  BY <1>1, <1>2 DEF Shape, TypeOK

LEMMA RenewShape ==
  ASSUME Shape, NEW r \in Run, Renew(r)
  PROVE  Shape'
<1> DEFINE p == run[r].pulse
           d == job[r].owner
<1>1. p \in Pulse /\ d \in Owner \cup {NoOwner}
  BY DEF Shape, TypeOK, Renew, Working
<1>2. row' \in [Pulse -> GoodRow]
  <2>1. CASE Owns(d, p, r)
    <3>1. "valid" \in Lease /\ Active(p) \in Run
      BY <2>1 DEF Owns, Lease
    <3>2. SetLease(p, "valid") \in GoodRow
      BY <1>1, <3>1, SetLeaseType
    <3>3. SetRow(p, SetLease(p, "valid"))
      BY <2>1 DEF Renew
    <3>4. QED
      BY <1>1, <3>2, <3>3, SetRowType
  <2>2. CASE ~Owns(d, p, r)
    BY <2>2 DEF Renew, Shape
  <2>3. QED
    BY <2>1, <2>2
<1>3. tick' \in [owner : Owner \cup {NoOwner}, lease : Lease]
  BY <1>1 DEF Shape, TypeOK, Renew, TakeTick, Lease
<1>4. QED
  BY <1>2, <1>3, GoodRowsAreRows DEF Shape, TypeOK, Renew

LEMMA FinishShape ==
  ASSUME Shape, NEW r \in Run, NEW outcome \in EndStatus, Finish(r, outcome)
  PROVE  Shape'
<1> DEFINE p == run[r].pulse
           after == IF outcome = "error" THEN now + 1 ELSE now
           next == NextRun(job[r].schedule, after)
<1>1. p \in Pulse /\ job[r].state # "none"
  BY DEF Shape, Finish, Working
<1>2. /\ job' \in [Run -> [state : {"none", "working", "orphan", "done"},
                           owner : Owner \cup {NoOwner}, schedule : Schedule \cup {{}}]]
      /\ \A q \in Run : job'[q].state # "none" => job[q].state # "none"
  BY <1>1, SetJobType DEF Finish
<1>3. CASE Owns(job[r].owner, p, r)
  <2>1. EndRuns({r}, outcome) /\ SetRow(p, Release(p, next))
    BY <1>3 DEF Finish
  <2>2. raced' \in SUBSET Pulse
    BY <1>1, <1>3 DEF Shape, TypeOK, Finish
  <2>3. /\ run' \in [Run -> [status : RunStatus, pulse : Pulse \cup {NoPulse}]]
        /\ \A q \in Run : run'[q].pulse = run[q].pulse
    BY <2>1, EndRunsType
  <2>4. after \in Nat /\ job[r].schedule \in Schedule \cup {{}}
    BY DEF Shape, TypeOK
  <2>5. next \in Nat \cup {NoTime}
    BY <2>4, NextRunType
  <2>6. Release(p, next) \in GoodRow
    BY <1>1, <2>5, ReleaseType
  <2>7. row' \in [Pulse -> GoodRow]
    BY <1>1, <2>1, <2>6, SetRowType
  <2>8. QED
    BY <1>2, <2>2, <2>3, <2>7, GoodRowsAreRows DEF Shape, TypeOK, Finish
<1>4. CASE ~Owns(job[r].owner, p, r)
  BY <1>2, <1>4 DEF Shape, TypeOK, Finish
<1>5. QED
  BY <1>3, <1>4

LEMMA SettledShape ==
  ASSUME Shape, NEW r \in Run, FinishLocked(r) \/ OrphanEnds(r)
  PROVE  Shape'
<1>1. SetJob(r, "done") /\ job[r].state # "none"
  BY DEF FinishLocked, OrphanEnds, Working
<1>2. /\ job' \in [Run -> [state : {"none", "working", "orphan", "done"},
                           owner : Owner \cup {NoOwner}, schedule : Schedule \cup {{}}]]
      /\ \A q \in Run : job'[q].state # "none" => job[q].state # "none"
  BY <1>1, SetJobType
<1>3. UNCHANGED <<row, run, tick, daemon, stopped, opening, recovering, editing, now,
                  released, raced>>
  BY DEF FinishLocked, OrphanEnds
<1>4. QED
  BY <1>2, <1>3 DEF Shape, TypeOK

LEMMA TimeShape ==
  ASSUME Shape, Time
  PROVE  Shape'
<1>1. CASE ExpireTick
  BY <1>1 DEF Shape, TypeOK, ExpireTick, Lease
<1>2. CASE Minute
  BY <1>2 DEF Shape, TypeOK, Minute
<1>3. ASSUME NEW p \in Pulse, ExpireClaim(p)
      PROVE  Shape'
  <2>1. Active(p) \in Run /\ "expired" \in Lease
    BY <1>3, RowParts DEF ExpireClaim, GoodRow, Active, Lease
  <2>2. row' \in [Pulse -> GoodRow]
    BY <1>3, <2>1, SetLeaseType, SetRowType DEF ExpireClaim
  <2>3. QED
    BY <1>3, <2>2, GoodRowsAreRows DEF Shape, TypeOK, ExpireClaim
<1>4. QED
  BY <1>1, <1>2, <1>3 DEF Time

LEMMA ShapeStep ==
  ASSUME Shape, [Next]_vars
  PROVE  Shape'
<1>1. CASE UNCHANGED vars
  BY <1>1 DEF vars, Shape, TypeOK
<1>2. CASE Client
  BY <1>2, CreateShape, SetEnabledShape, UpdatePulseShape, UpdateControlShape, DeleteShape,
     ClientStopsShape, OpenShape, RecoverReadShape, RecoverApplyShape, FinalizeShape
     DEF Client
<1>3. CASE Worker
  BY <1>3, RenewShape, FinishShape, SettledShape DEF Worker
<1>4. CASE Daemon
  BY <1>4, DaemonShape, ClaimDueShape DEF Daemon
<1>5. QED
  BY <1>1, <1>2, <1>3, <1>4, TimeShape DEF Next

-----------------------------------------------------------------------------
(* What the actions do to runs and to the claims that name them.  A run    *)
(* goes on running, and its claim stays, in every step but those that end  *)
(* it.                                                                     *)
Keeps(p) == /\ row'[p].exists = row[p].exists /\ row'[p].claim.active = Active(p)
            /\ row'[p].claim.owner = row[p].claim.owner

LEMMA SetRowKeeps ==
  ASSUME Shape, NEW p \in Pulse, NEW new, SetRow(p, new),
         new.exists = row[p].exists, new.claim.active = Active(p),
         new.claim.owner = row[p].claim.owner
  PROVE  \A q \in Pulse : Keeps(q)
BY DEF Shape, SetRow, Keeps, Active

LEMMA ClaimKept ==
  ASSUME Shape, RunningIsClaimed, \A p \in Pulse : Keeps(p),
         \A r \in Run : run'[r].status = "running" => run'[r] = run[r]
  PROVE  RunningIsClaimed'
BY DEF RunningIsClaimed, Keeps, Exists, Active

(* The steps that neither create, start, end, drop nor adopt anything.     *)
Quiet ==
  \/ UNCHANGED vars
  \/ UpdateControl \/ ClientStops \/ OpenRead \/ RecoverRead \/ ExpireTick \/ Minute
  \/ \E p \in Pulse : \/ ExpireClaim(p) \/ \E s \in Schedule : UpdatePulse(p, s)
                      \/ \E b \in BOOLEAN : SetEnabled(p, b)
  \/ \E r \in Run : Renew(r) \/ FinishLocked(r) \/ OrphanEnds(r)
  \/ \E d \in Owner : StartDaemon(d) \/ Stop(d) \/ Poll(d) \/ Drain(d) \/ Crash(d)
Loud ==
  \/ \E p \in Pulse : \/ Delete(p) \/ \E s \in Schedule : Create(p, s)
                      \/ \E outcome \in EndStatus : Finalize(p, outcome)
  \/ OpenAdopt \/ RecoverApply
  \/ \E d \in Owner : ClaimDue(d)
  \/ \E r \in Run, outcome \in EndStatus : Finish(r, outcome)

LEMMA QuietOrLoud ==
  ASSUME [Next]_vars
  PROVE  Quiet \/ Loud
BY DEF Next, Client, Worker, Daemon, Time, Quiet, Loud

LEMMA QuietSteps ==
  ASSUME Shape, Quiet
  PROVE  (\A q \in Pulse : Keeps(q)) /\ run' = run
<1>1. CASE row' = row /\ run' = run
  BY <1>1 DEF Keeps, Exists, Active
<1>2. ASSUME NEW q \in Pulse, NEW new, SetRow(q, new), run' = run,
             new.exists = row[q].exists, new.claim = row[q].claim
      PROVE  (\A x \in Pulse : Keeps(x)) /\ run' = run
  BY <1>2, SetRowKeeps DEF Active
<1>3. ASSUME NEW p \in Pulse, NEW b \in BOOLEAN, SetEnabled(p, b)
      PROVE  (\A x \in Pulse : Keeps(x)) /\ run' = run
  <2> DEFINE new == [row[p] EXCEPT !.enabled = b,
                              !.next = IF b THEN NextRun(row[p].schedule, now) ELSE NoTime]
  <2>1. SetRow(p, new) /\ run' = run
    BY <1>3 DEF SetEnabled
  <2>2. new.exists = row[p].exists /\ new.claim = row[p].claim
    BY RowParts
  <2>3. QED
    BY <2>1, <2>2, <1>2
<1>4. ASSUME NEW p \in Pulse, NEW s \in Schedule, UpdatePulse(p, s)
      PROVE  (\A x \in Pulse : Keeps(x)) /\ run' = run
  <2> DEFINE new == [row[p] EXCEPT !.schedule = s]
  <2>1. SetRow(p, new) /\ run' = run
    BY <1>4 DEF UpdatePulse
  <2>2. new.exists = row[p].exists /\ new.claim = row[p].claim
    BY RowParts
  <2>3. QED
    BY <2>1, <2>2, <1>2
<1>5. CASE UpdateControl
  <2> DEFINE e == editing.pulse
             new == [row[e] EXCEPT !.next = IF editing.enabled
                                            THEN NextRun(editing.schedule, now) ELSE NoTime]
  <2>1. e \in Pulse
    BY <1>5 DEF UpdateControl, Shape
  <2>2. run' = run /\ (row' = row \/ SetRow(e, new))
    BY <1>5 DEF UpdateControl
  <2>3. new.exists = row[e].exists /\ new.claim = row[e].claim
    BY <2>1, RowParts
  <2>4. QED
    BY <2>1, <2>2, <2>3, <1>1, <1>2
<1>6. ASSUME NEW q \in Pulse, NEW lease, SetRow(q, SetLease(q, lease)), run' = run
      PROVE  (\A x \in Pulse : Keeps(x)) /\ run' = run
  <2>1. /\ SetLease(q, lease).exists = row[q].exists
        /\ SetLease(q, lease).claim.active = Active(q)
        /\ SetLease(q, lease).claim.owner = row[q].claim.owner
    <3> DEFINE claim == [row[q].claim EXCEPT !.lease = lease]
    <3>1. claim.active = row[q].claim.active /\ claim.owner = row[q].claim.owner
      BY RowParts DEF Claim
    <3>2. SetLease(q, lease) = [row[q] EXCEPT !.claim = claim]
      BY DEF SetLease
    <3>3. QED
      BY <3>1, <3>2, RowParts DEF Active
  <2>2. QED
    BY <1>6, <2>1, SetRowKeeps
<1>7. ASSUME NEW r \in Run, Renew(r)
      PROVE  (\A x \in Pulse : Keeps(x)) /\ run' = run
  <2>1. run[r].pulse \in Pulse
    BY <1>7 DEF Renew, Working, Shape
  <2>2. row' = row \/ SetRow(run[r].pulse, SetLease(run[r].pulse, "valid"))
    BY <1>7 DEF Renew
  <2>3. run' = run
    BY <1>7 DEF Renew
  <2>4. QED
    BY <1>1, <1>6, <2>1, <2>2, <2>3
<1>8. ASSUME NEW p \in Pulse, ExpireClaim(p)
      PROVE  (\A x \in Pulse : Keeps(x)) /\ run' = run
  BY <1>6, <1>8 DEF ExpireClaim
<1>9. CASE \/ UNCHANGED vars
           \/ ClientStops \/ OpenRead \/ RecoverRead \/ ExpireTick \/ Minute
           \/ \E r \in Run : FinishLocked(r) \/ OrphanEnds(r)
           \/ \E d \in Owner : StartDaemon(d) \/ Stop(d) \/ Poll(d) \/ Drain(d) \/ Crash(d)
  <2>1. row' = row /\ run' = run
    BY <1>9 DEF vars, ClientStops, OpenRead, RecoverRead, FinishLocked, OrphanEnds, ExpireTick,
                Minute, StartDaemon, Stop, Poll, Drain, Crash
  <2>2. QED
    BY <1>1, <2>1
<1>10. QED
  BY <1>3, <1>4, <1>5, <1>7, <1>8, <1>9 DEF Quiet

-----------------------------------------------------------------------------
(* RunningIsClaimed, one lemma per step that is not quiet.                 *)
LEMMA CreateClaimed ==
  ASSUME IInv, NEW p \in Pulse, NEW s \in Schedule, Create(p, s)
  PROVE  RunningIsClaimed'
BY DEF IInv, Shape, RunningIsClaimed, Create, SetRow, Exists, Active

LEMMA DeleteClaimed ==
  ASSUME IInv, NEW p \in Pulse, Delete(p)
  PROVE  RunningIsClaimed'
<1>1. \A q \in Pulse \ {p} : row'[q] = row[q]
  BY DEF IInv, Shape, Delete, SetRow
<1>2. \A r \in Run : run'[r].status = "running" => run'[r] = run[r] /\ run[r].pulse # p
  BY DEF Delete
<1>3. QED
  BY <1>1, <1>2 DEF IInv, RunningIsClaimed, Exists, Active

LEMMA AdoptClaimed ==
  ASSUME IInv, OpenAdopt
  PROVE  RunningIsClaimed'
<1>1. PICK r \in opening :
        \/ UNCHANGED row
        \/ /\ run[r].pulse \in Pulse
           /\ SetRow(run[r].pulse,
                     [row[run[r].pulse] EXCEPT !.claim = Adopted(row[run[r].pulse].claim, r),
                                               !.next = NoTime])
  BY DEF OpenAdopt
<1>2. ASSUME NEW p \in Pulse, Active(p) # NoRun
      PROVE  row'[p].exists = row[p].exists /\ row'[p].claim = row[p].claim
  <2>1. CASE UNCHANGED row
    BY <2>1
  <2>2. CASE ~UNCHANGED row
    <3> DEFINE q == run[r].pulse
               new == [row[q] EXCEPT !.claim = Adopted(row[q].claim, r), !.next = NoTime]
    <3>1. q \in Pulse /\ SetRow(q, new)
      BY <1>1, <2>2
    <3>2. CASE p # q
      BY <3>1, <3>2 DEF SetRow, IInv, Shape
    <3>3. CASE p = q
      <4>1. Adopted(row[p].claim, r) = row[p].claim
        BY <1>2 DEF Adopted, Active
      <4>2. new = [row[p] EXCEPT !.claim = row[p].claim, !.next = NoTime]
        BY <3>3, <4>1
      <4>3. row[p] \in GoodRow /\ row'[p] = new
        BY <3>1, <3>3, RowParts DEF SetRow, IInv, Shape
      <4>4. QED
        BY <4>2, <4>3 DEF GoodRow, Row
    <3>4. QED
      BY <3>2, <3>3
  <2>3. QED
    BY <2>1, <2>2
<1>3. run' = run
  BY DEF OpenAdopt
<1>4. \A x \in Run : x # NoRun
  BY PulseAssumption DEF PulseAssumption
<1>5. QED
  BY <1>2, <1>3, <1>4 DEF IInv, RunningIsClaimed, Exists, Active

LEMMA RecoverClaimed ==
  ASSUME IInv, RecoverApply
  PROVE  RunningIsClaimed'
<1>1. \A r \in Run : run'[r].status = "running" =>
        run'[r] = run[r] /\ r \notin {c.run : c \in recovering}
  BY DEF IInv, Shape, TypeOK, RecoverApply, EndRuns
<1>2. \A p \in Pulse : (~ \E c \in recovering : Recovers(p, c)) => row'[p] = row[p]
  BY DEF RecoverApply
<1>3. \A p \in Pulse : (\E c \in recovering : Recovers(p, c)) =>
        Active(p) \in {c.run : c \in recovering}
  BY DEF Recovers
<1>4. QED
  BY <1>1, <1>2, <1>3 DEF IInv, RunningIsClaimed, Exists, Active

LEMMA EndClaimed ==
  ASSUME IInv, NEW p \in Pulse, NEW status \in EndStatus, NEW new,
         EndRuns({Active(p)}, status), SetRow(p, new)
  PROVE  RunningIsClaimed'
<1>1. \A r \in Run : run'[r].status = "running" => run'[r] = run[r] /\ r # Active(p)
  BY DEF IInv, Shape, TypeOK, EndRuns, EndStatus
<1>2. \A q \in Pulse \ {p} : row'[q] = row[q]
  BY DEF IInv, Shape, SetRow
<1>3. QED
  BY <1>1, <1>2 DEF IInv, RunningIsClaimed, Exists, Active

LEMMA FinishClaimed ==
  ASSUME IInv, NEW r \in Run, NEW outcome \in EndStatus, Finish(r, outcome)
  PROVE  RunningIsClaimed'
<1> DEFINE p == run[r].pulse
           next == NextRun(job[r].schedule, IF outcome = "error" THEN now + 1 ELSE now)
<1>1. CASE Owns(job[r].owner, p, r)
  <2>1. p \in Pulse
    BY DEF IInv, Shape, Finish, Working
  <2>2. EndRuns({Active(p)}, outcome) /\ SetRow(p, Release(p, next))
    BY <1>1 DEF Finish, Owns
  <2>3. QED
    BY <2>1, <2>2, EndClaimed
<1>2. CASE ~Owns(job[r].owner, p, r)
  BY <1>2 DEF Finish, IInv, RunningIsClaimed, Exists, Active
<1>3. QED
  BY <1>1, <1>2

LEMMA ClaimDueClaimed ==
  ASSUME IInv, NEW d \in Owner, ClaimDue(d)
  PROVE  RunningIsClaimed'
<1>1. PICK R \in SUBSET Run : \E of \in [R -> {p \in Pulse : Claimable(p)}] : StartRuns(d, R, of)
  BY DEF ClaimDue
<1>2. PICK of \in [R -> {p \in Pulse : Claimable(p)}] : StartRuns(d, R, of)
  BY <1>1
<1>3. ASSUME NEW r \in R
      PROVE  /\ run'[r].pulse \in Pulse /\ row'[run'[r].pulse].exists
             /\ row'[run'[r].pulse].claim.active = r
  <2> DEFINE p == of[r]
  <2>1. p \in Pulse /\ Exists(p) /\ run'[r].pulse = p
    BY <1>2 DEF StartRuns, Claimable, Due
  <2>2. (CHOOSE q \in R : of[q] = p) = r
    BY <1>2 DEF StartRuns
  <2>3. row'[p] = [row[p] EXCEPT !.next = NoTime,
                     !.claim = [active |-> r, owner |-> d, lease |-> "valid"]]
    BY <1>2, <2>1, <2>2 DEF StartRuns
  <2>4. row'[p].exists = row[p].exists /\ row'[p].claim.active = r
    <3>1. row[p] \in GoodRow
      BY <2>1, RowParts DEF IInv
    <3>2. QED
      BY <2>3, <3>1 DEF GoodRow, Row
  <2>5. QED
    BY <2>1, <2>4 DEF Exists
<1>4. ASSUME NEW r \in Run \ R, run[r].status = "running"
      PROVE  /\ run'[r] = run[r]
             /\ row'[run[r].pulse] = row[run[r].pulse]
  <2>1. run[r].pulse \in Pulse /\ Active(run[r].pulse) # NoRun
    BY <1>4, PulseAssumption DEF IInv, RunningIsClaimed, PulseAssumption
  <2>2. \A q \in R : of[q] # run[r].pulse
    BY <2>1 DEF Claimable, Due
  <2>3. QED
    BY <1>2, <2>1, <2>2 DEF StartRuns
<1>5. \A r \in Run \ R : run'[r] = run[r]
  BY <1>2 DEF StartRuns
<1>6. QED
  BY <1>3, <1>4, <1>5 DEF IInv, RunningIsClaimed, Exists, Active

LEMMA RunningIsClaimedStep ==
  ASSUME IInv, [Next]_vars
  PROVE  RunningIsClaimed'
<1>1. CASE Quiet
  <2>1. (\A p \in Pulse : Keeps(p)) /\ run' = run
    BY <1>1, QuietSteps DEF IInv
  <2>2. QED
    BY <2>1, ClaimKept DEF IInv
<1>2. CASE OpenAdopt \/ RecoverApply
  BY <1>2, AdoptClaimed, RecoverClaimed
<1>3. ASSUME NEW p \in Pulse, Delete(p) \/ \E s \in Schedule : Create(p, s)
      PROVE  RunningIsClaimed'
  BY <1>3, DeleteClaimed, CreateClaimed
<1>4. ASSUME NEW p \in Pulse, NEW outcome \in EndStatus, Finalize(p, outcome)
      PROVE  RunningIsClaimed'
  BY <1>4, EndClaimed DEF Finalize
<1>5. ASSUME NEW d \in Owner, ClaimDue(d)
      PROVE  RunningIsClaimed'
  BY <1>5, ClaimDueClaimed
<1>6. ASSUME NEW r \in Run, NEW outcome \in EndStatus, Finish(r, outcome)
      PROVE  RunningIsClaimed'
  BY <1>6, FinishClaimed
<1>7. QED
  BY <1>1, <1>2, <1>3, <1>4, <1>5, <1>6, QuietOrLoud DEF Loud

-----------------------------------------------------------------------------
(* IInv holds initially and every step keeps it.                           *)
LEMMA InitInv == Init => IInv
<1> SUFFICES ASSUME Init PROVE IInv
  OBVIOUS
<1>1. NoRow \in GoodRow
  BY DEF NoRow, GoodRow, Row, NoClaim, Claim, Lease
<1>2. row \in [Pulse -> GoodRow] /\ row \in [Pulse -> Row]
  BY <1>1 DEF Init, GoodRow
<1>3. NoJob \in [state : {"none", "working", "orphan", "done"},
                owner : Owner \cup {NoOwner}, schedule : Schedule \cup {{}}]
  BY DEF NoJob
<1>4. NoEdit \in [pulse : Pulse \cup {NoPulse}, schedule : Schedule \cup {{}},
                  enabled : BOOLEAN]
  BY DEF NoEdit
<1>5. Shape
  BY <1>2, <1>3, <1>4 DEF Init, Shape, TypeOK, RunStatus, Lease, NoJob
<1>6. RunningIsClaimed
  BY DEF Init, RunningIsClaimed
<1>7. QED
  BY <1>5, <1>6 DEF IInv

LEMMA StepInv == IInv /\ [Next]_vars => IInv'
BY ShapeStep, RunningIsClaimedStep DEF IInv

LEMMA SpecInv == Spec => []IInv
BY InitInv, StepInv, PTL DEF Spec

(* The tables, the daemons and the jobs keep their types.                  *)
THEOREM TypeCorrect == Spec => []TypeOK
<1>1. IInv => TypeOK
  BY DEF IInv, Shape
<1>2. QED
  BY <1>1, SpecInv, PTL

(* Whoever claims, recovers, finalizes, edits, deletes or adopts meanwhile,*)
(* a running run is the one its Pulse's control row names.                 *)
THEOREM RunsAreClaimed == Spec => []RunningIsClaimed
<1>1. IInv => RunningIsClaimed
  BY DEF IInv
<1>2. QED
  BY <1>1, SpecInv, PTL

-----------------------------------------------------------------------------
(* pulse_runs implements PulseRuns: claiming starts runs, completing,      *)
(* failing, recovering and finalizing end them, deleting drops them, and   *)
(* every other step leaves the table alone.                                *)
LEMMA EndRunsIsEnd ==
  ASSUME Shape, NEW R, NEW status \in EndStatus, EndRuns(R, status)
  PROVE  Runs!Next
<1> DEFINE Ended == {r \in Run : r \in R /\ run[r].status = "running"}
<1>1. run' = [r \in Run |->
                IF r \in Ended THEN [status |-> status, pulse |-> run[r].pulse] ELSE run[r]]
  BY DEF EndRuns
<1>2. Runs!End(Ended, status)
  BY <1>1 DEF Runs!End, Runs!Running
<1>3. Ended \in SUBSET Run /\ status \in Runs!EndStatus
  BY DEF EndStatus, Runs!EndStatus
<1>4. QED
  BY <1>2, <1>3 DEF Runs!Next

LEMMA StartRunsIsStart ==
  ASSUME IInv, NEW d \in Owner, NEW R \in SUBSET Run,
         NEW of \in [R -> {p \in Pulse : Claimable(p)}], StartRuns(d, R, of)
  PROVE  Runs!Next
<1>1. ASSUME NEW r \in R, NEW q \in Run, run[q].status = "running"
      PROVE  run[q].pulse # of[r]
  <2>1. Active(of[r]) = NoRun
    BY DEF Claimable, Due
  <2>2. Active(run[q].pulse) = q
    BY <1>1 DEF IInv, RunningIsClaimed
  <2>3. QED
    BY <2>1, <2>2, PulseAssumption DEF PulseAssumption
<1>2. Runs!Start(R, of)
  BY <1>1 DEF StartRuns, Runs!Start, Runs!Running
<1>3. of \in [R -> Pulse]
  OBVIOUS
<1>4. QED
  BY <1>2, <1>3 DEF Runs!Next

LEMMA StepImplements ==
  ASSUME IInv, [Next]_vars
  PROVE  [Runs!Next]_run
<1>1. CASE Quiet
  BY <1>1, QuietSteps DEF IInv
<1>2. CASE OpenAdopt
  BY <1>2 DEF OpenAdopt
<1>3. CASE RecoverApply
  BY <1>3, EndRunsIsEnd DEF RecoverApply, EndStatus, IInv
<1>4. ASSUME NEW p \in Pulse, NEW s \in Schedule, Create(p, s)
      PROVE  run' = run
  BY <1>4 DEF Create
<1>5. ASSUME NEW p \in Pulse, Delete(p)
      PROVE  Runs!Next
  BY <1>5 DEF Delete, Runs!Next, Runs!Drop
<1>6. ASSUME NEW p \in Pulse, NEW outcome \in EndStatus, Finalize(p, outcome)
      PROVE  Runs!Next
  BY <1>6, EndRunsIsEnd DEF Finalize, IInv
<1>7. ASSUME NEW d \in Owner, ClaimDue(d)
      PROVE  Runs!Next
  BY <1>7, StartRunsIsStart DEF ClaimDue
<1>8. ASSUME NEW r \in Run, NEW outcome \in EndStatus, Finish(r, outcome)
      PROVE  [Runs!Next]_run
  BY <1>8, EndRunsIsEnd DEF Finish, IInv
<1>9. QED
  BY <1>1, <1>2, <1>3, <1>4, <1>5, <1>6, <1>7, <1>8, QuietOrLoud DEF Loud

(* The scheduler implements PulseRuns: a run starts only while its Pulse   *)
(* has no active run, ends at most once and is never started again.        *)
THEOREM RunsKeepLifeCycle == Spec => RunLifeCycle
<1>1. Init => Runs!Init
  BY DEF Init, Runs!Init, Runs!Unused
<1>2. IInv /\ [Next]_vars => [Runs!Next]_run
  BY StepImplements
<1>3. QED
  BY <1>1, <1>2, SpecInv, PTL DEF Spec, RunLifeCycle, Runs!Spec

(* A Pulse has at most one active run: the index pulse_runs_one_active is  *)
(* never what stops a claim.                                               *)
THEOREM OneActiveRun == Spec => []Runs!SingleActiveRun
<1>1. IInv => Runs!SingleActiveRun
  BY DEF IInv, RunningIsClaimed, Runs!SingleActiveRun, Runs!Running
<1>2. QED
  BY <1>1, SpecInv, PTL

-----------------------------------------------------------------------------
(* Who lost a run.  A live job has a running run, unless recovery, an      *)
(* operator or a deletion ended it; a claim and a recovery in progress     *)
(* name a run of their own Pulse; and a run that recovery or an operator   *)
(* ended is claimed again only by mistaken adoption, in no worker's name.  *)
JobsRun == \A r \in Run : Live(r) => run[r].status \in {"running", "deleted"} \/ r \in released
ReleasedEnded == \A r \in released : run[r].status \in EndStatus \cup {"deleted"}
ClaimsMatch == \A p \in Pulse, r \in Run :
  Active(p) = r => run[r].pulse = p /\ run[r].status # "unused"
OpeningStarted == \A r \in opening : run[r].status # "unused"
RecoveringMatch == \A c \in recovering : run[c.run].pulse = c.pulse /\ run[c.run].status # "unused"
ReleasedIsLost == \A p \in Pulse : Active(p) \in released => row[p].claim.owner = Legacy
History == /\ JobsRun /\ ReleasedEnded /\ ClaimsMatch /\ OpeningStarted /\ RecoveringMatch
           /\ ReleasedIsLost

(* What a step does to runs, by the life cycle they follow.                *)
LEMMA RunsOnlyAdvance ==
  ASSUME IInv, [Next]_vars, NEW r \in Run
  PROVE  /\ run[r].status # "unused" => run'[r].status # "unused" /\ run'[r].pulse = run[r].pulse
         /\ run[r].status \in EndStatus \cup {"deleted"} => run'[r].status \in {run[r].status, "deleted"}
<1>1. CASE run' = run
  BY <1>1
<1>2. ASSUME NEW R \in SUBSET Run, NEW of \in [R -> Pulse], Runs!Start(R, of)
      PROVE  run[r].status # "unused" => run'[r] = run[r]
  BY <1>2 DEF Runs!Start
<1>3. ASSUME NEW R \in SUBSET Run, NEW outcome \in EndStatus, Runs!End(R, outcome)
      PROVE  \/ run'[r] = run[r]
             \/ run[r].status = "running" /\ run'[r] = [status |-> outcome, pulse |-> run[r].pulse]
  BY <1>3 DEF Runs!End, Runs!Running
<1>4. ASSUME NEW p \in Pulse, Runs!Drop(p)
      PROVE  run'[r] = run[r] \/ run'[r] = [status |-> "deleted", pulse |-> run[r].pulse]
  BY <1>4 DEF Runs!Drop
<1>5. QED
  BY <1>1, <1>2, <1>3, <1>4, StepImplements DEF Runs!Next, Runs!EndStatus, EndStatus

(* A quiet step ends jobs, releases nothing, and reads only what is there. *)
LEMMA QuietHistory ==
  ASSUME Shape, Quiet
  PROVE  /\ released' = released
         /\ \A r \in Run : job'[r].state \in {"working", "orphan"} => Live(r)
         /\ \A r \in opening' : r \in opening \/ run[r].status = "running"
         /\ \A c \in recovering' : \/ c \in recovering
                                   \/ c.pulse \in Pulse /\ c.run = Active(c.pulse)
<1>1. CASE job' = job /\ opening' = opening /\ recovering' = recovering /\ released' = released
  BY <1>1 DEF Live
<1>2. CASE OpenRead \/ RecoverRead \/ ClientStops
  BY <1>2 DEF OpenRead, RecoverRead, ClientStops, Live
<1>3. ASSUME NEW r \in Run, FinishLocked(r) \/ OrphanEnds(r)
      PROVE  /\ \A q \in Run : job'[q].state \in {"working", "orphan"} => Live(q)
             /\ opening' = opening /\ recovering' = recovering /\ released' = released
  <2> DEFINE new == [job[r] EXCEPT !.state = "done"]
  <2>1. job' = [job EXCEPT ![r] = new] /\ new.state = "done"
    BY <1>3 DEF FinishLocked, OrphanEnds, SetJob, Shape, TypeOK
  <2>2. QED
    BY <1>3, <2>1 DEF FinishLocked, OrphanEnds, Live, Shape, TypeOK
<1>4. ASSUME NEW d \in Owner, Crash(d)
      PROVE  /\ \A q \in Run : job'[q].state \in {"working", "orphan"} => Live(q)
             /\ opening' = opening /\ recovering' = recovering /\ released' = released
  BY <1>4 DEF Crash, Live, Working
<1>5. ASSUME \/ UNCHANGED vars \/ UpdateControl \/ ExpireTick \/ Minute
             \/ \E p \in Pulse : \/ ExpireClaim(p) \/ \E s \in Schedule : UpdatePulse(p, s)
                                 \/ \E b \in BOOLEAN : SetEnabled(p, b)
             \/ \E r \in Run : Renew(r)
             \/ \E d \in Owner : StartDaemon(d) \/ Stop(d) \/ Poll(d) \/ Drain(d)
      PROVE  job' = job /\ opening' = opening /\ recovering' = recovering /\ released' = released
  BY <1>5 DEF vars, UpdateControl, ExpireTick, Minute, ExpireClaim, UpdatePulse, SetEnabled,
              Renew, StartDaemon, Stop, Poll, Drain
<1>6. QED
  BY <1>1, <1>2, <1>3, <1>4, <1>5 DEF Quiet

(* Where the claim of a Pulse comes from.                                  *)
LEMMA ClaimOrigin ==
  ASSUME IInv, [Next]_vars, NEW p \in Pulse, NEW r \in Run, row'[p].claim.active = r
  PROVE  \/ Active(p) = r /\ row'[p].claim.owner = row[p].claim.owner
         \/ r \in opening /\ run[r].pulse = p /\ row'[p].claim.owner = Legacy /\ run' = run
         \/ run[r].status = "unused" /\ run'[r] = [status |-> "running", pulse |-> p]
<1> DEFINE Goal == \/ Active(p) = r /\ row'[p].claim.owner = row[p].claim.owner
                   \/ /\ r \in opening /\ run[r].pulse = p
                      /\ row'[p].claim.owner = Legacy /\ run' = run
                   \/ run[r].status = "unused" /\ run'[r] = [status |-> "running", pulse |-> p]
<1>1. CASE row'[p] = row[p]
  BY <1>1 DEF Active
<1>2. CASE row'[p].claim = NoClaim
  BY <1>2, PulseAssumption DEF NoClaim, PulseAssumption
<1>3. CASE Quiet
  BY <1>3, QuietSteps DEF IInv, Keeps
<1>4. ASSUME NEW q \in Pulse, \/ Delete(q) \/ \E s \in Schedule : Create(q, s)
      PROVE  row'[p] = row[p] \/ row'[p].claim = NoClaim
  BY <1>4 DEF Delete, Create, SetRow, NoRow, IInv, Shape, TypeOK
<1>5. ASSUME NEW q \in Pulse, NEW next, SetRow(q, Release(q, next))
      PROVE  row'[p] = row[p] \/ row'[p].claim = NoClaim
  BY <1>5, RowParts DEF SetRow, Release, IInv, Shape
<1>6. ASSUME NEW q \in Pulse, NEW outcome \in EndStatus, Finalize(q, outcome)
      PROVE  row'[p] = row[p] \/ row'[p].claim = NoClaim
  BY <1>5, <1>6 DEF Finalize
<1>7. ASSUME NEW q \in Run, NEW outcome \in EndStatus, Finish(q, outcome)
      PROVE  row'[p] = row[p] \/ row'[p].claim = NoClaim
  <2>1. run[q].pulse \in Pulse
    BY <1>7 DEF Finish, Working, IInv, Shape
  <2>2. QED
    BY <1>5, <1>7, <2>1 DEF Finish
<1>8. CASE RecoverApply
  <2>1. \/ row'[p] = row[p]
        \/ \E next : row'[p] = Release(p, next)
    BY <1>8 DEF RecoverApply
  <2>2. row'[p] = row[p] \/ row'[p].claim = NoClaim
    BY <2>1, RowParts DEF Release, IInv
  <2>3. QED
    BY <1>1, <1>2, <2>2
<1>9. CASE OpenAdopt
  <2>1. PICK q \in opening :
          \/ UNCHANGED row
          \/ SetRow(run[q].pulse,
                    [row[run[q].pulse] EXCEPT !.claim = Adopted(row[run[q].pulse].claim, q),
                                              !.next = NoTime])
    BY <1>9 DEF OpenAdopt
  <2>2. row'[p] = row[p] \/ (run[q].pulse = p /\ row'[p].claim = Adopted(row[p].claim, q))
    <3>1. ASSUME NEW x, SetRow(x, [row[x] EXCEPT !.claim = Adopted(row[x].claim, q),
                                                 !.next = NoTime])
          PROVE  row'[p] = row[p] \/ (x = p /\ row'[p].claim = Adopted(row[p].claim, q))
      <4>1. x = p => row'[p] = [row[p] EXCEPT !.claim = Adopted(row[p].claim, q),
                                              !.next = NoTime]
        BY <3>1 DEF SetRow, IInv, Shape
      <4>2. x # p => row'[p] = row[p]
        BY <3>1 DEF SetRow, IInv, Shape
      <4>3. QED
        BY <4>1, <4>2, RowParts DEF IInv
    <3>2. QED
      BY <2>1, <3>1
  <2>3. run' = run
    BY <1>9 DEF OpenAdopt
  <2>4. QED
    BY <1>1, <2>2, <2>3 DEF Adopted, Active
<1>10. ASSUME NEW d \in Owner, ClaimDue(d)
       PROVE  Goal
  <2>1. PICK R \in SUBSET Run : \E of \in [R -> {x \in Pulse : Claimable(x)}] : StartRuns(d, R, of)
    BY <1>10 DEF ClaimDue
  <2>2. PICK of \in [R -> {x \in Pulse : Claimable(x)}] : StartRuns(d, R, of)
    BY <2>1
  <2>3. CASE \E x \in R : of[x] = p
    <3>1. PICK x \in R : of[x] = p
      BY <2>3
    <3>2. (CHOOSE y \in R : of[y] = p) = x
      BY <2>2, <3>1 DEF StartRuns
    <3>3. row'[p] = [row[p] EXCEPT !.next = NoTime,
                       !.claim = [active |-> x, owner |-> d, lease |-> "valid"]]
      BY <2>2, <3>1, <3>2 DEF StartRuns
    <3>4. row'[p].claim.active = x
      BY <3>3, RowParts DEF IInv
    <3>5. QED
      BY <2>2, <3>1, <3>4 DEF StartRuns
  <2>4. CASE ~ \E x \in R : of[x] = p
    BY <1>1, <2>2, <2>4 DEF StartRuns
  <2>5. QED
    BY <2>3, <2>4
<1>11. QED
  BY <1>1, <1>2, <1>3, <1>4, <1>6, <1>7, <1>8, <1>9, <1>10, QuietOrLoud DEF Loud

-----------------------------------------------------------------------------
(* History is inductive relative to IInv, one lemma per conjunct.          *)
(* Recovery and finalization release the runs they end, and only those.    *)
LEMMA ReleasedStep ==
  ASSUME IInv, [Next]_vars, NEW r \in released' \ released
  PROVE  /\ r \in Run /\ run[r].status = "running" /\ run'[r].status \in EndStatus
         /\ \/ RecoverApply /\ r \in {c.run : c \in recovering}
            \/ \E p \in Pulse, outcome \in EndStatus : Finalize(p, outcome) /\ r = Active(p)
<1>1. ~Quiet
  BY QuietHistory DEF IInv
<1>2. CASE RecoverApply
  <2>1. r \in {c.run : c \in recovering} /\ run[r].status = "running"
    BY <1>2 DEF RecoverApply
  <2>2. r \in Run
    BY <2>1 DEF IInv, Shape, TypeOK, Recovery
  <2>3. run'[r].status = "error"
    BY <1>2, <2>1, <2>2 DEF RecoverApply, EndRuns
  <2>4. QED
    BY <1>2, <2>1, <2>2, <2>3 DEF EndStatus
<1>3. ASSUME NEW p \in Pulse, NEW outcome \in EndStatus, Finalize(p, outcome)
      PROVE  /\ r \in Run /\ run[r].status = "running" /\ run'[r].status \in EndStatus
             /\ r = Active(p)
  <2>1. r = Active(p) /\ run[r].status = "running"
    BY <1>3 DEF Finalize
  <2>2. r \in Run
    <3>1. row[p].claim \in Claim /\ Active(p) # NoRun
      BY <1>3, RowParts DEF Finalize, IInv
    <3>2. QED
      BY <2>1, <3>1 DEF Claim, Active
  <2>3. run'[r].status = outcome
    BY <1>3, <2>1, <2>2 DEF Finalize, EndRuns
  <2>4. QED
    BY <2>1, <2>2, <2>3
<1>4. \/ RecoverApply
      \/ \E p \in Pulse, outcome \in EndStatus : Finalize(p, outcome)
  BY <1>1, QuietOrLoud DEF Loud, Delete, Create, OpenAdopt, ClaimDue, Finish
<1>5. QED
  BY <1>2, <1>3, <1>4

LEMMA ReleasedGrows ==
  ASSUME IInv, [Next]_vars
  PROVE  released \subseteq released'
BY QuietOrLoud, QuietHistory
   DEF Loud, Delete, Create, OpenAdopt, ClaimDue, Finish, RecoverApply, Finalize, IInv

LEMMA ReleasedEndedStep ==
  ASSUME IInv, History, [Next]_vars
  PROVE  ReleasedEnded'
<1>1. ASSUME NEW r \in released
      PROVE  run'[r].status \in EndStatus \cup {"deleted"}
  <2>1. r \in Run /\ run[r].status \in EndStatus \cup {"deleted"}
    BY DEF History, ReleasedEnded, IInv, Shape, TypeOK
  <2>2. QED
    BY <2>1, RunsOnlyAdvance
<1>2. QED
  BY <1>1, ReleasedStep DEF ReleasedEnded

LEMMA ReadStep ==
  ASSUME IInv, History, [Next]_vars
  PROVE  OpeningStarted' /\ RecoveringMatch'
<1>1. /\ \A r \in opening' : r \in opening \/ run[r].status = "running"
      /\ \A c \in recovering' : \/ c \in recovering
                                \/ c.pulse \in Pulse /\ c.run = Active(c.pulse)
  BY QuietOrLoud, QuietHistory
     DEF Loud, Delete, Create, OpenAdopt, ClaimDue, Finish, RecoverApply, Finalize, IInv
<1>2. opening' \in SUBSET Run /\ recovering' \in SUBSET Recovery
  BY ShapeStep DEF IInv, Shape, TypeOK
<1>3. ASSUME NEW r \in opening'
      PROVE  run'[r].status # "unused"
  <2>1. r \in Run /\ run[r].status # "unused"
    BY <1>1, <1>2 DEF History, OpeningStarted
  <2>2. QED
    BY <2>1, RunsOnlyAdvance
<1>4. ASSUME NEW c \in recovering'
      PROVE  run'[c.run].pulse = c.pulse /\ run'[c.run].status # "unused"
  <2>1. c.run \in Run
    BY <1>2 DEF Recovery
  <2>2. run[c.run].pulse = c.pulse /\ run[c.run].status # "unused"
    BY <1>1, <2>1 DEF History, RecoveringMatch, ClaimsMatch
  <2>3. QED
    BY <2>1, <2>2, RunsOnlyAdvance
<1>5. QED
  BY <1>3, <1>4 DEF OpeningStarted, RecoveringMatch

LEMMA ClaimsMatchStep ==
  ASSUME IInv, History, [Next]_vars
  PROVE  ClaimsMatch'
<1>1. ASSUME NEW p \in Pulse, NEW r \in Run, row'[p].claim.active = r
      PROVE  run'[r].pulse = p /\ run'[r].status # "unused"
  <2>1. CASE Active(p) = r
    BY <2>1, RunsOnlyAdvance DEF History, ClaimsMatch
  <2>2. CASE r \in opening /\ run[r].pulse = p
    BY <2>2, RunsOnlyAdvance DEF History, OpeningStarted
  <2>3. CASE run'[r] = [status |-> "running", pulse |-> p]
    BY <2>3
  <2>4. QED
    BY <1>1, <2>1, <2>2, <2>3, ClaimOrigin
<1>2. QED
  BY <1>1 DEF ClaimsMatch, Active

(* A run that is released loses its claim in the same transaction.         *)
LEMMA ReleaseTakesClaim ==
  ASSUME IInv, History, [Next]_vars, NEW r \in released' \ released,
         NEW p \in Pulse, Active(p) = r
  PROVE  row'[p].claim = NoClaim
<1>1. r \in Run /\ run[r].pulse = p /\ run[r].status = "running"
  BY ReleasedStep DEF History, ClaimsMatch
<1>2. ASSUME RecoverApply, r \in {c.run : c \in recovering}
      PROVE  row'[p].claim = NoClaim
  <2>1. PICK c \in recovering : c.run = r
    BY <1>2
  <2>2. c.pulse = p /\ Exists(p)
    BY <1>1, <2>1 DEF History, RecoveringMatch, IInv, RunningIsClaimed
  <2>3. Recovers(p, c)
    BY <2>1, <2>2 DEF Recovers
  <2>4. PICK next : row'[p] = Release(p, next)
    BY <1>2, <2>3 DEF RecoverApply
  <2>5. QED
    BY <2>4, RowParts DEF Release, IInv
<1>3. ASSUME NEW q \in Pulse, NEW outcome \in EndStatus, Finalize(q, outcome), r = Active(q)
      PROVE  row'[p].claim = NoClaim
  <2>1. q = p
    BY <1>1, <1>3 DEF History, ClaimsMatch
  <2>2. PICK next : SetRow(p, Release(p, next))
    BY <1>3, <2>1 DEF Finalize
  <2>3. row'[p] = Release(p, next)
    BY <2>2 DEF SetRow, IInv, Shape
  <2>4. QED
    BY <2>3, RowParts DEF Release, IInv
<1>4. QED
  BY <1>2, <1>3, ReleasedStep

LEMMA ReleasedIsLostStep ==
  ASSUME IInv, History, [Next]_vars
  PROVE  ReleasedIsLost'
<1>1. released' \in SUBSET Run
  BY ShapeStep DEF IInv, Shape, TypeOK
<1>2. ASSUME NEW p \in Pulse, NEW r \in released', row'[p].claim.active = r
      PROVE  row'[p].claim.owner = Legacy
  <2>1. CASE r \in released
    <3>1. run[r].status # "unused"
      BY <2>1 DEF History, ReleasedEnded, EndStatus
    <3>2. r \in Run
      BY <1>1
    <3>3. \/ Active(p) = r /\ row'[p].claim.owner = row[p].claim.owner
          \/ row'[p].claim.owner = Legacy
      BY <1>2, <3>1, <3>2, ClaimOrigin
    <3>4. QED
      BY <2>1, <3>3 DEF History, ReleasedIsLost
  <2>2. CASE r \notin released
    <3>1. run[r].status = "running" /\ run' # run /\ r \in Run
      BY <2>2, ReleasedStep DEF EndStatus
    <3>2. Active(p) = r
      BY <1>2, <3>1, ClaimOrigin
    <3>3. row'[p].claim = NoClaim
      BY <2>2, <3>2, ReleaseTakesClaim
    <3>4. QED
      BY <1>2, <3>1, <3>3, PulseAssumption DEF NoClaim, PulseAssumption
  <2>3. QED
    BY <2>1, <2>2
<1>3. QED
  BY <1>2 DEF ReleasedIsLost, Active

LEMMA JobsRunStep ==
  ASSUME IInv, History, [Next]_vars
  PROVE  JobsRun'
<1> DEFINE Live1(r) == job'[r].state \in {"working", "orphan"}
           Good1(r) == run'[r].status \in {"running", "deleted"} \/ r \in released'
<1>1. ASSUME NEW r \in Run, Live(r), run'[r].status = run[r].status
      PROVE  Good1(r)
  BY <1>1, ReleasedGrows DEF History, JobsRun
<1>2. ASSUME NEW r \in Run, Live(r), run'[r].status = "deleted" \/ r \in released'
      PROVE  Good1(r)
  BY <1>2
<1>3. ASSUME Quiet
      PROVE  \A r \in Run : Live1(r) => Good1(r)
  BY <1>1, <1>3, QuietSteps, QuietHistory DEF IInv
<1>4. ASSUME NEW p \in Pulse, Delete(p) \/ \E s \in Schedule : Create(p, s)
      PROVE  \A r \in Run : Live1(r) => Live(r) /\ run'[r].status \in {run[r].status, "deleted"}
  <2>1. job' = job
    BY <1>4 DEF Delete, Create
  <2>2. \A r \in Run : run'[r].status \in {run[r].status, "deleted"}
    <3>1. CASE Delete(p)
      BY <3>1 DEF Delete
    <3>2. CASE \E s \in Schedule : Create(p, s)
      BY <3>2 DEF Create
    <3>3. QED
      BY <1>4, <3>1, <3>2
  <2>3. QED
    BY <2>1, <2>2 DEF Live
<1>5. ASSUME OpenAdopt
      PROVE  \A r \in Run : Live1(r) => Good1(r)
  BY <1>1, <1>5 DEF OpenAdopt, Live
<1>6. ASSUME RecoverApply
      PROVE  \A r \in Run : Live1(r) => Good1(r)
  <2>1. \A r \in Run : run'[r].status = run[r].status \/ r \in released'
    BY <1>6 DEF RecoverApply, EndRuns
  <2>2. job' = job
    BY <1>6 DEF RecoverApply
  <2>3. QED
    BY <1>1, <1>2, <2>1, <2>2 DEF Live
<1>7. ASSUME NEW p \in Pulse, NEW outcome \in EndStatus, Finalize(p, outcome)
      PROVE  \A r \in Run : Live1(r) => Good1(r)
  <2>1. \A r \in Run : run'[r].status = run[r].status \/ r \in released'
    BY <1>7 DEF Finalize, EndRuns
  <2>2. job' = job
    BY <1>7 DEF Finalize
  <2>3. QED
    BY <1>1, <1>2, <2>1, <2>2 DEF Live
<1>8. ASSUME NEW q \in Run, NEW outcome \in EndStatus, Finish(q, outcome)
      PROVE  \A r \in Run : Live1(r) => Live(r) /\ run'[r].status = run[r].status
  <2> DEFINE new == [job[q] EXCEPT !.state = "done"]
  <2>1. job' = [job EXCEPT ![q] = new]
    BY <1>8 DEF Finish, SetJob
  <2>2. new.state = "done"
    BY DEF IInv, Shape, TypeOK
  <2>3. \A r \in Run : Live1(r) => r # q /\ Live(r)
    BY <2>1, <2>2 DEF Live, IInv, Shape, TypeOK
  <2>4. \A r \in Run \ {q} : run'[r].status = run[r].status
    BY <1>8 DEF Finish, EndRuns
  <2>5. QED
    BY <2>3, <2>4
<1>9. ASSUME NEW d \in Owner, ClaimDue(d)
      PROVE  \A r \in Run : Live1(r) => Good1(r)
  <2>1. PICK R \in SUBSET Run : \E of \in [R -> {p \in Pulse : Claimable(p)}] : StartRuns(d, R, of)
    BY <1>9 DEF ClaimDue
  <2>2. PICK of \in [R -> {p \in Pulse : Claimable(p)}] : StartRuns(d, R, of)
    BY <2>1
  <2>3. \A r \in Run : \/ run'[r].status = "running"
                       \/ run'[r] = run[r] /\ job'[r] = job[r]
    BY <2>2 DEF StartRuns
  <2>4. QED
    BY <1>1, <2>3 DEF Live
<1>10. \A r \in Run : Live1(r) => Good1(r)
  <2>1. ASSUME NEW r \in Run, Live(r), run'[r].status \in {run[r].status, "deleted"}
        PROVE  Good1(r)
    BY <1>1, <1>2, <2>1
  <2>2. QED
    BY <1>3, <1>4, <1>5, <1>6, <1>7, <1>8, <1>9, <2>1, QuietOrLoud DEF Loud
<1>11. QED
  BY <1>10 DEF JobsRun, Live

LEMMA InitHistory == Init => History
<1> SUFFICES ASSUME Init PROVE History
  OBVIOUS
<1>1. JobsRun
  BY DEF Init, JobsRun, Live, NoJob
<1>2. ClaimsMatch
  BY PulseAssumption DEF Init, ClaimsMatch, Active, NoRow, NoClaim, PulseAssumption
<1>3. ReleasedEnded /\ OpeningStarted /\ RecoveringMatch /\ ReleasedIsLost
  BY DEF Init, ReleasedEnded, OpeningStarted, RecoveringMatch, ReleasedIsLost
<1>4. QED
  BY <1>1, <1>2, <1>3 DEF History

LEMMA StepHistory == IInv /\ History /\ [Next]_vars => History'
BY JobsRunStep, ReleasedEndedStep, ClaimsMatchStep, ReadStep, ReleasedIsLostStep DEF History

LEMMA SpecHistory == Spec => [](IInv /\ History)
BY InitInv, StepInv, InitHistory, StepHistory, PTL DEF Spec

(* Two child processes of one Pulse live at the same time only if recovery,*)
(* an operator or a deletion ended the run of one of them.                 *)
THEOREM WorkIsNotDuplicated == Spec => []NoDuplicateWork
<1>1. IInv /\ History => NoDuplicateWork
  <2> SUFFICES ASSUME IInv, History, NEW q \in Run, NEW r \in Run, q # r, Live(q), Live(r),
                      run[q].pulse = run[r].pulse
               PROVE  \E x \in {q, r} : x \in released \/ run[x].status = "deleted"
    BY DEF NoDuplicateWork
  <2>1. ~(run[q].status = "running" /\ run[r].status = "running")
    BY DEF IInv, RunningIsClaimed
  <2>2. QED
    BY <2>1 DEF History, JobsRun
<1>2. QED
  BY <1>1, SpecHistory, PTL

(* A worker whose run was recovered or finalized owns no claim, so its end *)
(* changes neither the outcome of its run nor any row.                     *)
LEMMA LateWorkerStep ==
  ASSUME IInv, History, [Next]_vars, NEW r \in released, Working(r), job'[r].state = "done"
  PROVE  row' = row
<1>1. r \in Run /\ job[r].state = "working"
  BY DEF IInv, Shape, TypeOK, Working
<1>2. CASE job' = job
  BY <1>1, <1>2
<1>3. ASSUME NEW q \in Run, NEW outcome \in EndStatus, Finish(q, outcome)
      PROVE  row' = row
  <2>1. q = r
    <3>1. q # r => job'[r] = job[r]
      BY <1>1, <1>3 DEF Finish, SetJob, IInv, Shape, TypeOK
    <3>2. QED
      BY <1>1, <3>1
  <2>2. run[r].pulse \in Pulse /\ job[r].owner \in Owner \cup {NoOwner}
    BY <1>1 DEF IInv, Shape, TypeOK
  <2>3. ~Owns(job[r].owner, run[r].pulse, r)
    BY <2>2, PulseAssumption DEF Owns, History, ReleasedIsLost, PulseAssumption, Legacy
  <2>4. QED
    BY <1>3, <2>1, <2>3 DEF Finish
<1>4. CASE \E q \in Run : FinishLocked(q) \/ OrphanEnds(q)
  BY <1>4 DEF FinishLocked, OrphanEnds
<1>5. CASE \E d \in Owner : ClaimDue(d)
  <2>1. PICK d \in Owner, R \in SUBSET Run :
          \E of \in [R -> {p \in Pulse : Claimable(p)}] : StartRuns(d, R, of)
    BY <1>5 DEF ClaimDue
  <2>2. PICK of \in [R -> {p \in Pulse : Claimable(p)}] : StartRuns(d, R, of)
    BY <2>1
  <2>3. job'[r] = job[r] \/ job'[r].state = "working"
    BY <1>1, <2>2 DEF StartRuns
  <2>4. QED
    BY <1>1, <2>3
<1>6. CASE \E d \in Owner : Crash(d)
  <2>1. job[r] \in [state : {"none", "working", "orphan", "done"},
                    owner : Owner \cup {NoOwner}, schedule : Schedule \cup {{}}]
    BY <1>1 DEF IInv, Shape, TypeOK
  <2>2. job'[r] = job[r] \/ job'[r] = [job[r] EXCEPT !.state = "orphan"]
    BY <1>1, <1>6 DEF Crash
  <2>3. QED
    BY <1>1, <2>1, <2>2
<1>7. CASE \/ UNCHANGED vars \/ Time
           \/ \E d \in Owner : StartDaemon(d) \/ Stop(d) \/ Poll(d) \/ Drain(d)
           \/ \E q \in Run : Renew(q)
           \/ Client
  BY <1>2, <1>7 DEF vars, Time, ExpireTick, Minute, ExpireClaim, StartDaemon, Stop, Poll, Drain,
     Renew, Client, Create, UpdatePulse, UpdateControl, SetEnabled, Delete, OpenRead, OpenAdopt,
     RecoverRead, RecoverApply, Finalize, ClientStops
<1>8. QED
  BY <1>3, <1>4, <1>5, <1>6, <1>7 DEF Next, Worker, Daemon

(* A worker that ends after its run was recovered, finalized or deleted    *)
(* changes neither the run's outcome nor a row (complete and fail of       *)
(* store.ts look for their own claim first).                               *)
THEOREM LateWorkersAreIgnored == Spec => LateWorkerIsIgnored
<1> DEFINE Ignored(r) ==
      /\ run[r].status # "deleted" => run'[r].status \in {run[r].status, "deleted"}
      /\ (Working(r) /\ job'[r].state = "done") => row' = row
<1>1. ASSUME IInv, History, [Next]_vars, NEW r \in released
      PROVE  Ignored(r)
  <2>1. r \in Run /\ run[r].status \in EndStatus \cup {"deleted"}
    BY <1>1 DEF IInv, Shape, TypeOK, History, ReleasedEnded
  <2>2. QED
    BY <1>1, <2>1, RunsOnlyAdvance, LateWorkerStep
<1>2. IInv /\ History /\ [Next]_vars => [\A r \in released : Ignored(r)]_vars
  BY <1>1
<1>3. QED
  BY <1>2, SpecHistory, PTL DEF Spec, LateWorkerIsIgnored
-----------------------------------------------------------------------------
(* An idle Pulse with a minute to come has a next run.                     *)
IdleOK(p) ==
  (/\ Exists(p) /\ row[p].enabled /\ Active(p) = NoRun /\ row[p].next = NoTime
   /\ p \notin raced /\ editing.pulse # p)
     => \A t \in row[p].schedule : t <= now + 1

(* No next run is found when no minute is left.                            *)
LEMMA NoMinuteLeft ==
  ASSUME NEW schedule \in Schedule \cup {{}}, NEW after \in Nat,
         NextRun(schedule, after) = NoTime, NEW t \in schedule
  PROVE  t <= after
<1> DEFINE later == {u \in schedule : u > after}
<1>1. t \in Nat /\ later \subseteq Nat
  BY PulseAssumption DEF PulseAssumption
<1>2. later # {} => NextRun(schedule, after) \in later
  BY NextRunWhenLater
<1>3. later = {}
  BY <1>1, <1>2 DEF NoTime
<1>4. ~(t > after)
  BY <1>3
<1>5. QED
  BY <1>1, <1>4

(* A row nobody writes: an edit that ends leaves its Pulse among the raced.*)
LEMMA IdleKept ==
  ASSUME Shape, NEW p \in Pulse, IdleOK(p), row'[p] = row[p],
         now' \in {now, now + 1}, p \in raced => p \in raced',
         editing.pulse = p => editing'.pulse = p \/ p \in raced'
  PROVE  IdleOK(p)'
<1>1. now \in Nat /\ \A t \in row[p].schedule : t \in Nat
  BY RowParts, PulseAssumption DEF Shape, TypeOK, GoodRow, Row, PulseAssumption
<1>2. QED
  BY <1>1 DEF IdleOK, Exists, Active

(* A row whose next run is computed from its own schedule.                 *)
LEMMA IdleComputed ==
  ASSUME Shape, NEW p \in Pulse, NEW after \in {now, now + 1}, now' = now,
         NEW s \in Schedule \cup {{}}, row'[p].schedule = s, row'[p].next = NextRun(s, after)
  PROVE  IdleOK(p)'
<1>1. now \in Nat /\ after \in Nat /\ \A t \in s : t \in Nat
  BY PulseAssumption DEF Shape, TypeOK, PulseAssumption
<1>2. NextRun(s, after) = NoTime => \A t \in s : t <= after
  BY <1>1, NoMinuteLeft
<1>3. QED
  BY <1>1, <1>2 DEF IdleOK

(* One written row leaves the other Pulses idle as they were.              *)
LEMMA IdleOthers ==
  ASSUME Shape, NEW p \in Pulse, NEW new, SetRow(p, new), now' = now,
         \A q \in Pulse : IdleOK(q), IdleOK(p)',
         \A q \in Pulse \ {p} : (q \in raced => q \in raced'),
         \A q \in Pulse \ {p} : (editing.pulse = q => editing'.pulse = q \/ q \in raced')
  PROVE  \A q \in Pulse : IdleOK(q)'
<1>1. ASSUME NEW q \in Pulse \ {p}
      PROVE  IdleOK(q)'
  <2>1. row'[q] = row[q]
    BY <1>1 DEF SetRow, Shape
  <2>2. QED
    BY <1>1, <2>1, IdleKept
<1>2. QED
  BY <1>1

LEMMA IdleCreate ==
  ASSUME Shape, \A q \in Pulse : IdleOK(q), NEW p \in Pulse, NEW s \in Schedule, Create(p, s)
  PROVE  \A q \in Pulse : IdleOK(q)'
<1> DEFINE new == [exists |-> TRUE, born |-> now, schedule |-> s, enabled |-> TRUE,
                   next |-> NextRun(s, now), claim |-> NoClaim]
<1>1. SetRow(p, new) /\ now' = now /\ editing' = editing /\ raced' = raced \ {p}
  BY DEF Create
<1>2. row'[p] = new
  BY <1>1 DEF SetRow, Shape
<1>3. IdleOK(p)'
  BY <1>1, <1>2, IdleComputed
<1>4. QED
  BY <1>1, <1>3, IdleOthers

LEMMA IdleSetEnabled ==
  ASSUME Shape, \A q \in Pulse : IdleOK(q), NEW p \in Pulse, NEW b \in BOOLEAN, SetEnabled(p, b)
  PROVE  \A q \in Pulse : IdleOK(q)'
<1> DEFINE next == IF b THEN NextRun(row[p].schedule, now) ELSE NoTime
           new == [row[p] EXCEPT !.enabled = b, !.next = next]
<1>1. /\ SetRow(p, new) /\ now' = now /\ editing' = editing
      /\ raced' = IF b THEN raced \ {p} ELSE raced
  BY DEF SetEnabled
<1>2. row'[p] = new
  BY <1>1 DEF SetRow, Shape
<1>3. IdleOK(p)'
  <2>1. CASE b
    <3>1. row[p].schedule \in Schedule \cup {{}}
      BY RowParts DEF GoodRow, Row
    <3>2. new.schedule = row[p].schedule /\ new.next = NextRun(row[p].schedule, now)
      BY <2>1, RowParts
    <3>3. QED
      BY <1>1, <1>2, <3>1, <3>2, IdleComputed
  <2>2. CASE ~b
    <3>1. new.enabled = FALSE
      BY <2>2, RowParts
    <3>2. QED
      BY <1>2, <3>1 DEF IdleOK
  <2>3. QED
    BY <2>1, <2>2
<1>4. QED
  BY <1>1, <1>3, IdleOthers

LEMMA IdleUpdatePulse ==
  ASSUME Shape, \A q \in Pulse : IdleOK(q), NEW p \in Pulse, NEW s \in Schedule,
         UpdatePulse(p, s)
  PROVE  \A q \in Pulse : IdleOK(q)'
<1> DEFINE new == [row[p] EXCEPT !.schedule = s]
<1>1. /\ SetRow(p, new) /\ now' = now /\ editing'.pulse = p /\ raced' = raced
      /\ editing.pulse = NoPulse
  BY DEF UpdatePulse, NoEdit
<1>2. NoPulse \notin Pulse
  BY PulseAssumption DEF PulseAssumption
<1>3. IdleOK(p)'
  BY <1>1 DEF IdleOK
<1>4. QED
  BY <1>1, <1>2, <1>3, IdleOthers

LEMMA IdleUpdateControl ==
  ASSUME Shape, \A q \in Pulse : IdleOK(q), UpdateControl
  PROVE  \A q \in Pulse : IdleOK(q)'
<1>1. PICK p \in Pulse : p = editing.pulse
  BY DEF UpdateControl, Shape
<1> DEFINE next == IF editing.enabled THEN NextRun(editing.schedule, now) ELSE NoTime
           new == [row[p] EXCEPT !.next = next]
<1>0. now' = now /\ editing' = NoEdit
  BY DEF UpdateControl
<1>2. row[p].enabled \in BOOLEAN /\ row[p].schedule \in Schedule \cup {{}}
  BY <1>1, RowParts DEF GoodRow, Row
<1>3. CASE Exists(p) /\ SetRow(p, new)
  <2>1. raced' = IF editing.enabled = row[p].enabled /\ editing.schedule = row[p].schedule
                 THEN raced \ {p} ELSE raced \cup {p}
    BY <1>1, <1>3 DEF UpdateControl
  <2>2. row'[p] = new
    BY <1>1, <1>3 DEF SetRow, Shape
  <2>3. /\ new.schedule = row[p].schedule /\ new.enabled = row[p].enabled
        /\ new.next = next
    BY <1>1, RowParts
  <2>4. IdleOK(p)'
    <3>1. CASE p \in raced'
      BY <3>1 DEF IdleOK
    <3>2. CASE p \notin raced' /\ ~editing.enabled
      <4>1. ~row[p].enabled
        BY <2>1, <3>2
      <4>2. QED
        BY <2>2, <2>3, <4>1 DEF IdleOK
    <3>3. CASE p \notin raced' /\ editing.enabled
      <4>1. editing.schedule = row[p].schedule
        BY <2>1, <3>3
      <4>2. next = NextRun(row[p].schedule, now)
        BY <3>3, <4>1
      <4>3. /\ row'[p].schedule = row[p].schedule
            /\ row'[p].next = NextRun(row[p].schedule, now)
        BY <2>2, <2>3, <4>2
      <4>4. QED
        BY <1>0, <1>2, <4>3, IdleComputed
    <3>4. QED
      BY <3>1, <3>2, <3>3
  <2>5. QED
    BY <1>0, <1>1, <1>3, <2>1, <2>4, IdleOthers
<1>4. CASE ~Exists(p) /\ UNCHANGED <<row, raced>>
  <2>1. ASSUME NEW q \in Pulse, q # p
        PROVE  IdleOK(q)'
    BY <1>0, <1>1, <1>4, <2>1, IdleKept
  <2>2. IdleOK(p)'
    BY <1>4 DEF IdleOK, Exists
  <2>3. QED
    BY <2>1, <2>2
<1>5. QED
  BY <1>1, <1>3, <1>4 DEF UpdateControl

LEMMA IdleDelete ==
  ASSUME Shape, \A q \in Pulse : IdleOK(q), NEW p \in Pulse, Delete(p)
  PROVE  \A q \in Pulse : IdleOK(q)'
<1> DEFINE new == [NoRow EXCEPT !.born = row[p].born]
<1>1. SetRow(p, new) /\ now' = now /\ editing' = editing /\ raced' = raced
  BY DEF Delete
<1>2. row'[p] = new /\ new.exists = FALSE
  BY <1>1 DEF SetRow, Shape, NoRow
<1>3. IdleOK(p)'
  BY <1>2 DEF IdleOK, Exists
<1>4. QED
  BY <1>1, <1>3, IdleOthers

(* A Pulse that has just been claimed or adopted is not idle.              *)
LEMMA IdleClaimed ==
  ASSUME NEW p \in Pulse, row'[p].claim.active # NoRun
  PROVE  IdleOK(p)'
BY DEF IdleOK, Active

LEMMA IdleAdopt ==
  ASSUME Shape, \A q \in Pulse : IdleOK(q), OpenAdopt
  PROVE  \A q \in Pulse : IdleOK(q)'
<1>1. PICK r \in opening :
        \/ UNCHANGED row
        \/ /\ run[r].pulse \in Pulse
           /\ SetRow(run[r].pulse,
                     [row[run[r].pulse] EXCEPT !.claim = Adopted(row[run[r].pulse].claim, r),
                                               !.next = NoTime])
  BY DEF OpenAdopt
<1>2. now' = now /\ editing' = editing /\ raced' = raced /\ r \in Run
  BY DEF OpenAdopt, Shape, TypeOK
<1>3. CASE UNCHANGED row
  BY <1>2, <1>3, IdleKept
<1>4. CASE ~UNCHANGED row
  <2>0. PICK p \in Pulse : p = run[r].pulse
    BY <1>1, <1>4
  <2> DEFINE new == [row[p] EXCEPT !.claim = Adopted(row[p].claim, r), !.next = NoTime]
  <2>1. SetRow(p, new)
    BY <1>1, <1>4, <2>0
  <2>2. Adopted(row[p].claim, r).active # NoRun
    BY <1>2, PulseAssumption DEF Adopted, PulseAssumption
  <2>3. row'[p] = new /\ new.claim = Adopted(row[p].claim, r)
    BY <2>1, RowParts DEF SetRow, Shape
  <2>4. IdleOK(p)'
    BY <2>1, <2>2, <2>3, IdleClaimed
  <2>5. QED
    BY <1>2, <2>1, <2>4, IdleOthers
<1>5. QED
  BY <1>3, <1>4

LEMMA IdleRecover ==
  ASSUME Shape, \A q \in Pulse : IdleOK(q), RecoverApply
  PROVE  \A q \in Pulse : IdleOK(q)'
<1>1. now' = now /\ editing' = editing /\ recovering \in SUBSET Recovery /\ now \in Nat
  BY DEF RecoverApply, Shape, TypeOK
<1>2. ASSUME NEW p \in Pulse, ~ \E c \in recovering : Recovers(p, c)
      PROVE  IdleOK(p)'
  <2>1. row'[p] = row[p] /\ (p \in raced => p \in raced')
    BY <1>2 DEF RecoverApply
  <2>2. QED
    BY <1>1, <1>2, <2>1, IdleKept
<1>3. ASSUME NEW p \in Pulse, \E c \in recovering : Recovers(p, c)
      PROVE  IdleOK(p)'
  <2> DEFINE c == CHOOSE c \in recovering : Recovers(p, c)
  <2>1. c \in recovering /\ Recovers(p, c)
    BY <1>3
  <2> HIDE DEF c
  <2>2. row'[p] = Release(p, NextRun(c.schedule, now + 1))
    BY <1>3 DEF RecoverApply, c
  <2>3. /\ row'[p].schedule = row[p].schedule
        /\ row'[p].next = NextRun(c.schedule, now + 1)
    BY <2>2, RowParts DEF Release
  <2>4. CASE c.schedule = row[p].schedule
    <3>1. c.schedule \in Schedule
      BY <1>1, <2>1 DEF Recovery
    <3>2. QED
      BY <1>1, <2>3, <2>4, <3>1, IdleComputed
  <2>5. CASE c.schedule # row[p].schedule
    <3>1. p \in raced'
      BY <2>1, <2>5 DEF RecoverApply
    <3>2. QED
      BY <3>1 DEF IdleOK
  <2>6. QED
    BY <2>4, <2>5
<1>4. QED
  BY <1>2, <1>3

(* A release with the next run of the schedule the row has, or of another  *)
(* one, and then the Pulse is raced.                                       *)
LEMMA IdleRelease ==
  ASSUME Shape, \A q \in Pulse : IdleOK(q), NEW p \in Pulse, NEW s \in Schedule \cup {{}},
         NEW after \in {now, now + 1}, SetRow(p, Release(p, NextRun(s, after))),
         now' = now, editing' = editing,
         raced' = IF s = row[p].schedule THEN raced \ {p} ELSE raced \cup {p}
  PROVE  \A q \in Pulse : IdleOK(q)'
<1> DEFINE new == Release(p, NextRun(s, after))
<1>1. row'[p] = new
  BY DEF SetRow, Shape
<1>2. new.schedule = row[p].schedule /\ new.next = NextRun(s, after)
  BY RowParts DEF Release
<1>3. IdleOK(p)'
  <2>1. CASE s = row[p].schedule
    BY <1>1, <1>2, <2>1, IdleComputed
  <2>2. CASE s # row[p].schedule
    BY <2>2 DEF IdleOK
  <2>3. QED
    BY <2>1, <2>2
<1>4. QED
  BY <1>3, IdleOthers

LEMMA IdleFinalize ==
  ASSUME Shape, \A q \in Pulse : IdleOK(q), NEW p \in Pulse, NEW outcome \in EndStatus,
         Finalize(p, outcome)
  PROVE  \A q \in Pulse : IdleOK(q)'
<1> DEFINE after == IF outcome = "error" THEN now + 1 ELSE now
           s == row[p].schedule
<1>1. s \in Schedule \cup {{}}
  BY RowParts DEF GoodRow, Row
<1>2. after \in {now, now + 1}
  OBVIOUS
<1>3. /\ SetRow(p, Release(p, NextRun(s, after))) /\ now' = now /\ editing' = editing
      /\ raced' = raced \ {p}
  BY DEF Finalize
<1>4. QED
  BY <1>1, <1>2, <1>3, IdleRelease

LEMMA IdleFinish ==
  ASSUME Shape, \A q \in Pulse : IdleOK(q), NEW r \in Run, NEW outcome \in EndStatus,
         Finish(r, outcome)
  PROVE  \A q \in Pulse : IdleOK(q)'
<1> DEFINE p == run[r].pulse
           after == IF outcome = "error" THEN now + 1 ELSE now
           s == job[r].schedule
<1>1. p \in Pulse /\ s \in Schedule \cup {{}}
  BY DEF Shape, TypeOK, Finish, Working
<1>2. after \in {now, now + 1} /\ now' = now /\ editing' = editing
  BY DEF Finish
<1>3. CASE Owns(job[r].owner, p, r)
  <2>1. /\ SetRow(p, Release(p, NextRun(s, after)))
        /\ raced' = IF s = row[p].schedule THEN raced \ {p} ELSE raced \cup {p}
    BY <1>3 DEF Finish
  <2>2. QED
    BY <1>1, <1>2, <2>1, IdleRelease
<1>4. CASE ~Owns(job[r].owner, p, r)
  <2>1. row' = row /\ raced' = raced
    BY <1>4 DEF Finish
  <2>2. QED
    BY <1>2, <2>1, IdleKept
<1>5. QED
  BY <1>3, <1>4

LEMMA IdleClaimDue ==
  ASSUME Shape, \A q \in Pulse : IdleOK(q), NEW d \in Owner, ClaimDue(d)
  PROVE  \A q \in Pulse : IdleOK(q)'
<1>1. PICK R \in SUBSET Run : \E of \in [R -> {p \in Pulse : Claimable(p)}] : StartRuns(d, R, of)
  BY DEF ClaimDue
<1>2. PICK of \in [R -> {p \in Pulse : Claimable(p)}] : StartRuns(d, R, of)
  BY <1>1
<1>3. now' = now /\ editing' = editing /\ raced' = raced
  BY DEF ClaimDue
<1>4. ASSUME NEW p \in Pulse, \E r \in R : of[r] = p
      PROVE  IdleOK(p)'
  <2> DEFINE x == CHOOSE r \in R : of[r] = p
  <2>1. x \in Run
    BY <1>4
  <2> HIDE DEF x
  <2>2. row'[p] = [row[p] EXCEPT !.next = NoTime,
                     !.claim = [active |-> x, owner |-> d, lease |-> "valid"]]
    BY <1>2, <1>4 DEF StartRuns, x
  <2>3. row'[p].claim.active = x
    BY <2>2, RowParts
  <2>4. QED
    BY <2>1, <2>3, IdleClaimed, PulseAssumption DEF PulseAssumption
<1>5. ASSUME NEW p \in Pulse, ~ \E r \in R : of[r] = p
      PROVE  IdleOK(p)'
  <2>1. row'[p] = row[p]
    BY <1>2, <1>5 DEF StartRuns
  <2>2. QED
    BY <1>3, <2>1, IdleKept
<1>6. QED
  BY <1>4, <1>5

(* A lease that is renewed or runs out leaves everything IdleOK reads.     *)
LEMMA IdleLease ==
  ASSUME Shape, \A q \in Pulse : IdleOK(q), NEW p \in Pulse, NEW lease,
         SetRow(p, SetLease(p, lease)), now' = now, editing' = editing, raced' = raced
  PROVE  \A q \in Pulse : IdleOK(q)'
<1> DEFINE claim == [row[p].claim EXCEPT !.lease = lease]
           new == [row[p] EXCEPT !.claim = claim]
<1>1. claim.active = row[p].claim.active
  BY RowParts DEF Claim
<1> HIDE DEF claim
<1>2. /\ new.exists = row[p].exists /\ new.enabled = row[p].enabled
      /\ new.next = row[p].next /\ new.schedule = row[p].schedule
      /\ new.claim = claim
  BY RowParts
<1>3. row'[p] = new
  BY DEF SetRow, SetLease, Shape, claim
<1> HIDE DEF new
<1>4. IdleOK(p)'
  BY <1>1, <1>2, <1>3 DEF IdleOK, Exists, Active
<1>5. QED
  BY <1>4, IdleOthers

LEMMA IdleStep ==
  ASSUME Shape, \A q \in Pulse : IdleOK(q), [Next]_vars
  PROVE  \A q \in Pulse : IdleOK(q)'
<1>1. now \in Nat
  BY DEF Shape, TypeOK
<1>2. CASE \/ UNCHANGED vars
           \/ OpenRead \/ RecoverRead \/ ExpireTick \/ Minute
           \/ \E r \in Run : FinishLocked(r) \/ OrphanEnds(r)
           \/ \E d \in Owner : StartDaemon(d) \/ Stop(d) \/ Poll(d) \/ Drain(d) \/ Crash(d)
  <2>1. row' = row /\ raced' = raced /\ editing' = editing /\ now' \in {now, now + 1}
    BY <1>2 DEF vars, OpenRead, RecoverRead, FinishLocked, OrphanEnds, ExpireTick, Minute,
                StartDaemon, Stop, Poll, Drain, Crash
  <2>2. QED
    BY <2>1, IdleKept
<1>3. CASE ClientStops
  <2>1. /\ row' = row /\ now' = now
        /\ \/ raced' = raced /\ editing' = editing
           \/ raced' = raced \cup {editing.pulse}
    BY <1>3 DEF ClientStops
  <2>2. QED
    BY <2>1, IdleKept
<1>4. ASSUME NEW r \in Run, Renew(r)
      PROVE  \A q \in Pulse : IdleOK(q)'
  <2>1. run[r].pulse \in Pulse
    BY <1>4 DEF Renew, Working, Shape
  <2>2. now' = now /\ editing' = editing /\ raced' = raced
    BY <1>4 DEF Renew
  <2>3. row' = row \/ SetRow(run[r].pulse, SetLease(run[r].pulse, "valid"))
    BY <1>4 DEF Renew
  <2>4. QED
    BY <2>1, <2>2, <2>3, IdleKept, IdleLease
<1>5. ASSUME NEW p \in Pulse, ExpireClaim(p)
      PROVE  \A q \in Pulse : IdleOK(q)'
  BY <1>5, IdleLease DEF ExpireClaim
<1>6. CASE Quiet
  BY <1>2, <1>3, <1>4, <1>5, <1>6, IdleUpdateControl, IdleUpdatePulse, IdleSetEnabled DEF Quiet
<1>7. CASE Loud
  BY <1>7, IdleDelete, IdleCreate, IdleFinalize, IdleAdopt, IdleRecover, IdleClaimDue, IdleFinish
     DEF Loud
<1>8. QED
  BY <1>6, <1>7, QuietOrLoud

(* Whatever is edited, recovered, finalized or finished meanwhile, an      *)
(* enabled Pulse that no run holds is either planned or has no minute left *)
(* after the next one (store.ts sets next_run_at wherever it drops a       *)
(* claim); the exceptions are an edit between its two statements and a     *)
(* next run computed from a row that has changed since.                    *)
THEOREM IdlePulsesHaveNextRun == Spec => []IdleHasNextRun
<1> DEFINE AllIdle == \A p \in Pulse : IdleOK(p)
<1>1. Init => AllIdle
  BY DEF Init, IdleOK, Exists, NoRow
<1>2. IInv /\ AllIdle /\ [Next]_vars => AllIdle'
  BY IdleStep DEF IInv
<1>3. AllIdle => IdleHasNextRun
  BY DEF IdleOK, IdleHasNextRun
<1>4. QED
  BY <1>1, <1>2, <1>3, SpecInv, PTL DEF Spec
=============================================================================
