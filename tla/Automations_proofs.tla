-------------------------- MODULE Automations_proofs --------------------------
(***************************************************************************)
(* Proofs about Automations: an active rule was approved by somebody who   *)
(* may approve it, for every lifetime of simulations and requests, every   *)
(* number of them, and whichever operations are kept.                      *)
(***************************************************************************)
EXTENDS Automations, TLAPS

\* The part of ActiveWasApproved that speaks of one state of the tables.
Covered(d) ==
    /\ d.status = "active" => d.approver # None
    /\ d.approver # None =>
         \E a \in DOMAIN d.approvals :
           /\ d.approvals[a].status = "approved"
           /\ d.approvals[a].by = d.approver
           /\ ownerOnly => d.approver = "owner"

\* Whichever way a page is pressed, the tables are as they were or as the
\* operation left them.
LEMMA PressKeeps ==
    ASSUME NEW route, NEW d \in Tables, TypeOK, Press(route, d)
    PROVE  TypeOK' /\ db' \in {db, d}
BY DEF Press, TypeOK

\* Changing the status of a rule, of a simulation or of a request gives
\* tables again.
LEMMA StatusTyped ==
    ASSUME NEW d \in Tables, NEW status \in RuleStatuses
    PROVE  [d EXCEPT !.status = status] \in Tables
BY DEF Tables

LEMMA SimulationTyped ==
    ASSUME NEW d \in Tables, NEW s \in DOMAIN d.sims,
           NEW status \in {"succeeded", "expired", "rejected"}
    PROVE  [d EXCEPT !.sims[s].status = status] \in Tables
<1>1. d.sims[s] \in SimulationRecord
  BY DEF Tables
<1>2. [d.sims[s] EXCEPT !.status = status] \in SimulationRecord
  BY <1>1 DEF SimulationRecord
<1>3. [d.sims EXCEPT ![s] = [d.sims[s] EXCEPT !.status = status]] \in Seq(SimulationRecord)
  BY <1>2 DEF Tables
<1> QED
  BY <1>3 DEF Tables

LEMMA ApprovalTyped ==
    ASSUME NEW d \in Tables, NEW a \in DOMAIN d.approvals,
           NEW status \in {"pending", "approved", "rejected", "expired"},
           NEW u \in Actors \cup {None}
    PROVE  /\ [d.approvals EXCEPT ![a].status = status] \in Seq(ApprovalRecord)
           /\ [d.approvals EXCEPT ![a].status = status, ![a].by = u] \in Seq(ApprovalRecord)
<1>1. d.approvals[a] \in ApprovalRecord
  BY DEF Tables
<1>2. /\ [d.approvals[a] EXCEPT !.status = status] \in ApprovalRecord
      /\ [d.approvals[a] EXCEPT !.status = status, !.by = u] \in ApprovalRecord
  BY <1>1 DEF ApprovalRecord
<1>3. /\ d.approvals \in Seq(ApprovalRecord)
      /\ \A r \in ApprovalRecord : [d.approvals EXCEPT ![a] = r] \in Seq(ApprovalRecord)
  BY DEF Tables
<1>4. [d.approvals EXCEPT ![a] = [d.approvals[a] EXCEPT !.status = status]]
        \in Seq(ApprovalRecord)
  BY <1>2, <1>3
<1>5. [d.approvals EXCEPT ![a] = [d.approvals[a] EXCEPT !.status = status, !.by = u]]
        \in Seq(ApprovalRecord)
  BY <1>2, <1>3
<1> QED
  BY <1>3, <1>4, <1>5, <1>1

LEMMA RequestedTyped ==
    ASSUME NEW d \in Tables
    PROVE  /\ Requested(d) \in Tables
           /\ Len(Requested(d).approvals) = Len(d.approvals) + 1
           /\ Requested(d).approver = d.approver
           /\ Requested(d).status = "pending_approval"
           /\ \A a \in DOMAIN d.approvals :
                /\ a \in DOMAIN Requested(d).approvals
                /\ Requested(d).approvals[a] = d.approvals[a]
<1> DEFINE request == [status |-> "pending", left |-> Ttl, by |-> None]
<1>1. request \in ApprovalRecord
  BY AutomationAssumption DEF ApprovalRecord
<1>2. /\ d.approvals \in Seq(ApprovalRecord)
      /\ Append(d.approvals, request) \in Seq(ApprovalRecord)
  BY <1>1 DEF Tables
<1>3. Requested(d) \in Tables
  BY <1>2 DEF Requested, Tables, RuleStatuses
<1>4. Requested(d).approvals = Append(d.approvals, request)
  BY DEF Requested, Tables
<1> HIDE DEF request
<1>5. /\ Len(Append(d.approvals, request)) = Len(d.approvals) + 1
      /\ \A a \in DOMAIN d.approvals :
           /\ a \in DOMAIN Append(d.approvals, request)
           /\ Append(d.approvals, request)[a] = d.approvals[a]
  BY <1>1, <1>2
<1>6. Requested(d).approver = d.approver /\ Requested(d).status = "pending_approval"
  BY DEF Requested, Tables
<1> QED
  BY <1>3, <1>4, <1>5, <1>6

LEMMA ApprovedTyped ==
    ASSUME NEW d \in Tables, NEW a \in DOMAIN d.approvals, NEW u \in Actors
    PROVE  /\ Approved(d, a, u) \in Tables
           /\ a \in DOMAIN Approved(d, a, u).approvals
           /\ Approved(d, a, u).approvals[a].status = "approved"
           /\ Approved(d, a, u).approvals[a].by = u
           /\ Approved(d, a, u).approver = u
<1>1. [d.approvals EXCEPT ![a].status = "approved", ![a].by = u] \in Seq(ApprovalRecord)
  BY ApprovalTyped
<1>2. Approved(d, a, u).approvals
        = [d.approvals EXCEPT ![a].status = "approved", ![a].by = u]
  BY DEF Approved, Tables
<1>3. Approved(d, a, u) \in Tables
  BY <1>1 DEF Approved, Tables, RuleStatuses
<1>4. d.approvals[a] \in ApprovalRecord
  BY DEF Tables
<1> QED
  BY <1>2, <1>3, <1>4 DEF Approved, Tables, ApprovalRecord

\* A function over the indices of a sequence is a sequence.
LEMMA MappedSequence ==
    ASSUME NEW R, NEW S, NEW q \in Seq(R), NEW f \in [DOMAIN q -> S]
    PROVE  f \in Seq(S)
<1>1. DOMAIN q = 1 .. Len(q) /\ Len(q) \in Nat
  OBVIOUS
<1>2. f \in [1 .. Len(q) -> S]
  BY <1>1
<1> QED
  BY <1>1, <1>2

LEMMA AgedTyped ==
    ASSUME NEW d \in Tables
    PROVE  /\ Aged(d) \in Tables
           /\ Aged(d).status = d.status /\ Aged(d).approver = d.approver
           /\ DOMAIN Aged(d).approvals = DOMAIN d.approvals
           /\ \A a \in DOMAIN d.approvals :
                /\ Aged(d).approvals[a].status = d.approvals[a].status
                /\ Aged(d).approvals[a].by = d.approvals[a].by
<1>1. /\ d.sims \in Seq(SimulationRecord) /\ d.approvals \in Seq(ApprovalRecord)
      /\ \A s \in DOMAIN d.sims : d.sims[s] \in SimulationRecord
      /\ \A a \in DOMAIN d.approvals : d.approvals[a] \in ApprovalRecord
  BY DEF Tables
<1>2. \A n \in 0 .. Ttl : Less1(n) \in 0 .. Ttl
  BY AutomationAssumption DEF Less1
<1>3. \A s \in DOMAIN d.sims : [d.sims[s] EXCEPT !.left = Less1(@)] \in SimulationRecord
  BY <1>1, <1>2 DEF SimulationRecord
<1>4. \A a \in DOMAIN d.approvals :
        /\ [d.approvals[a] EXCEPT !.left = Less1(@)] \in ApprovalRecord
        /\ [d.approvals[a] EXCEPT !.left = Less1(@)].status = d.approvals[a].status
        /\ [d.approvals[a] EXCEPT !.left = Less1(@)].by = d.approvals[a].by
  BY <1>1, <1>2 DEF ApprovalRecord
<1> DEFINE sims == [s \in DOMAIN d.sims |-> [d.sims[s] EXCEPT !.left = Less1(@)]]
           approvals == [a \in DOMAIN d.approvals |->
                           [d.approvals[a] EXCEPT !.left = Less1(@)]]
<1>5. sims \in Seq(SimulationRecord)
  <2>1. sims \in [DOMAIN d.sims -> SimulationRecord]
    BY <1>3
  <2> QED
    BY <1>1, <2>1, MappedSequence
<1>6. approvals \in Seq(ApprovalRecord)
  <2>1. approvals \in [DOMAIN d.approvals -> ApprovalRecord]
    BY <1>4
  <2> QED
    BY <1>1, <2>1, MappedSequence
<1>7. Aged(d) = [d EXCEPT !.sims = sims, !.approvals = approvals]
  BY DEF Aged
<1>8. approvals = Aged(d).approvals /\ Aged(d) \in Tables
      /\ Aged(d).status = d.status /\ Aged(d).approver = d.approver
  <2> HIDE DEF sims, approvals
  <2> QED
    BY <1>5, <1>6, <1>7 DEF Tables
<1> QED
  BY <1>4, <1>8

\* Tables in which no approved request is touched stay covered, as long as
\* the approver does not change and nothing becomes active without one.
LEMMA CoverCarries ==
    ASSUME NEW d, NEW e, Covered(d),
           e.approver = d.approver,
           e.status = "active" => e.approver # None,
           \A a \in DOMAIN d.approvals :
             d.approvals[a].status = "approved" =>
               /\ a \in DOMAIN e.approvals
               /\ e.approvals[a].status = "approved"
               /\ e.approvals[a].by = d.approvals[a].by
    PROVE  Covered(e)
BY DEF Covered

LEMMA PressCovers ==
    ASSUME NEW route, NEW d, Press(route, d), Covered(db), Covered(d)
    PROVE  ActiveWasApproved'
BY DEF Press, Covered, ActiveWasApproved

IInv == TypeOK /\ ActiveWasApproved

LEMMA StepKeeps ==
    ASSUME IInv, [Next]_vars
    PROVE  IInv'
<1> USE DEF IInv
<1>1. db \in Tables /\ shown \in Tables /\ Covered(db)
  BY DEF TypeOK, ActiveWasApproved, Covered
\* It is enough to look at the tables each operation leaves.
<1> DEFINE Fine(d) == d \in Tables /\ Covered(d)
<1>2. ASSUME NEW route, NEW d, Fine(d), Press(route, d)
      PROVE  IInv'
  BY <1>1, <1>2, PressKeeps, PressCovers
<1>3. ASSUME NEW status \in RuleStatuses, status = "active" => db.approver # None
      PROVE  Fine([db EXCEPT !.status = status])
  <2>1. /\ [db EXCEPT !.status = status].approver = db.approver
        /\ [db EXCEPT !.status = status].status = status
        /\ [db EXCEPT !.status = status].approvals = db.approvals
    BY <1>1 DEF Tables
  <2> QED
    BY <1>1, <1>3, <2>1, StatusTyped, CoverCarries
<1>4. Fine(Requested(db))
  <2>1. Requested(db).status # "active"
    BY <1>1, RequestedTyped
  <2> QED
    BY <1>1, <2>1, RequestedTyped, CoverCarries
<1>5. ASSUME NEW d \in Tables, NEW a \in DOMAIN d.approvals, NEW u \in Actors, MayDecide(u)
      PROVE  Fine(Approved(d, a, u))
  <2>1. u # None
    BY AutomationAssumption
  <2> QED
    BY <1>5, <2>1, ApprovedTyped DEF Covered, MayDecide
<1>6. ASSUME NEW s \in DOMAIN db.sims, NEW status \in {"expired", "rejected"}
      PROVE  Fine([db EXCEPT !.sims[s].status = status])
  <2>1. /\ [db EXCEPT !.sims[s].status = status].approver = db.approver
        /\ [db EXCEPT !.sims[s].status = status].status = db.status
        /\ [db EXCEPT !.sims[s].status = status].approvals = db.approvals
    BY <1>1 DEF Tables
  <2> QED
    BY <1>1, <2>1, SimulationTyped, CoverCarries DEF Covered
<1>7. CASE Simulate
  <2> DEFINE sims == Append(db.sims, [status |-> "succeeded", left |-> Ttl])
             d == [db EXCEPT !.sims = Append(@, [status |-> "succeeded", left |-> Ttl]),
                             !.status = IF @ = "draft" THEN "simulated" ELSE @]
  <2>1. sims \in Seq(SimulationRecord)
    <3>1. [status |-> "succeeded", left |-> Ttl] \in SimulationRecord
      BY AutomationAssumption DEF SimulationRecord
    <3> QED
      BY <1>1, <3>1 DEF Tables
  <2>2. /\ d \in Tables /\ d.approver = db.approver /\ d.approvals = db.approvals
        /\ d.status = "active" => db.status = "active"
    BY <1>1, <2>1 DEF Tables, RuleStatuses
  <2>3. Covered(d)
    <3> HIDE DEF d
    <3> QED
      BY <1>1, <2>2, CoverCarries DEF Covered
  <2>4. Press("simulate", d)
    BY <1>7 DEF Simulate
  <2> QED
    BY <1>2, <2>2, <2>3, <2>4
<1>8. CASE RequestApproval
  BY <1>2, <1>4, <1>8 DEF RequestApproval
<1>9. ASSUME NEW u \in Actors, NEW a \in DOMAIN db.approvals, Approve(u, a)
      PROVE  IInv'
  <2>1. CASE Press("approve", [db EXCEPT !.approvals[a].status = "expired"])
    <3> DEFINE d == [db EXCEPT !.approvals[a].status = "expired"]
    <3>1. [db.approvals EXCEPT ![a].status = "expired"] \in Seq(ApprovalRecord)
      BY <1>1, ApprovalTyped
    <3>2. /\ d \in Tables /\ d.approver = db.approver /\ d.status = db.status
          /\ d.approvals = [db.approvals EXCEPT ![a].status = "expired"]
      BY <1>1, <3>1 DEF Tables
    <3>3. db.approvals[a].status # "approved"
      BY <1>9 DEF Approve
    <3>4. Covered(d)
      <4> HIDE DEF d
      <4>1. \A b \in DOMAIN db.approvals : b # a => d.approvals[b] = db.approvals[b]
        BY <3>2
      <4> QED
        BY <1>1, <3>2, <3>3, <4>1, CoverCarries DEF Covered
    <3> QED
      BY <1>2, <2>1, <3>2, <3>4
  <2>2. CASE MayDecide(u) /\ Press("approve", Approved(db, a, u))
    BY <1>1, <1>2, <1>5, <2>2
  <2> QED
    BY <1>9, <2>1, <2>2 DEF Approve
<1>10. ASSUME NEW u \in Actors, NEW a \in DOMAIN db.approvals, Reject(u, a)
       PROVE  IInv'
  <2> DEFINE d == [db EXCEPT !.approvals[a].status = "rejected",
                             !.approvals[a].by = u, !.status = "simulated"]
  <2>1. [db.approvals EXCEPT ![a].status = "rejected", ![a].by = u] \in Seq(ApprovalRecord)
    BY <1>1, ApprovalTyped
  <2>2. /\ d.approver = db.approver /\ d.status = "simulated"
        /\ d.approvals = [db.approvals EXCEPT ![a].status = "rejected", ![a].by = u]
        /\ d \in Tables
    BY <1>1, <2>1 DEF Tables, RuleStatuses
  <2>3. db.approvals[a].status # "approved"
    BY <1>10 DEF Reject
  <2>4. Covered(d)
    <3> HIDE DEF d
    <3>1. \A b \in DOMAIN db.approvals : b # a => d.approvals[b] = db.approvals[b]
      BY <2>2
    <3> QED
      BY <1>1, <2>2, <2>3, <3>1, CoverCarries
  <2>5. Press("reject", d)
    BY <1>10 DEF Reject
  <2> QED
    BY <1>2, <2>2, <2>4, <2>5
<1>11. ASSUME NEW u \in Actors, NEW s \in DOMAIN db.sims, ApproveSimulation(u, s)
       PROVE  IInv'
  <2>1. CASE Press("approve", [db EXCEPT !.sims[s].status = "expired"])
    BY <1>2, <1>6, <2>1
  <2>2. CASE Press("approve",
                   IF MayDecide(u) THEN Approved(Requested(db), Len(db.approvals) + 1, u)
                                   ELSE Requested(db))
    <3>1. Len(db.approvals) + 1 \in DOMAIN Requested(db).approvals
      BY <1>1, RequestedTyped DEF Tables
    <3>2. CASE MayDecide(u)
      BY <1>1, <1>2, <1>5, <2>2, <3>1, <3>2, RequestedTyped
    <3>3. CASE ~MayDecide(u)
      BY <1>2, <1>4, <2>2, <3>3
    <3> QED
      BY <3>2, <3>3
  <2> QED
    BY <1>11, <2>1, <2>2 DEF ApproveSimulation
<1>12. ASSUME NEW s \in DOMAIN db.sims, RejectSimulation(s)
       PROVE  IInv'
  BY <1>2, <1>6, <1>12 DEF RejectSimulation
<1>13. ASSUME NEW route, Activate(route)
       PROVE  IInv'
  BY <1>2, <1>3, <1>13 DEF Activate, RuleStatuses
<1>14. CASE Pause
  BY <1>2, <1>3, <1>14 DEF Pause, RuleStatuses
<1>15. CASE Retire
  BY <1>2, <1>3, <1>15 DEF Retire, RuleStatuses
<1>16. CASE RunNow
  <2>1. PICK status \in {"active", "failed"} : Press("run_now", [db EXCEPT !.status = status])
    BY <1>16 DEF RunNow
  <2>2. db.approver # None
    BY <1>1, <1>16 DEF RunNow, Covered
  <2> QED
    BY <1>2, <1>3, <2>1, <2>2 DEF RuleStatuses
<1>17. CASE Tick
  <2>1. db' = Aged(db) /\ shown' = Aged(shown) /\ ownerOnly' = ownerOnly
    BY <1>17 DEF Tick
  <2>2. TypeOK'
    BY <1>1, <2>1, AgedTyped DEF TypeOK
  <2>3. Covered(Aged(db))
    BY <1>1, AgedTyped, CoverCarries DEF Covered
  <2> QED
    BY <2>1, <2>2, <2>3 DEF Covered, ActiveWasApproved
<1>18. CASE UNCHANGED vars
  BY <1>18 DEF vars, TypeOK, ActiveWasApproved
<1> QED
  BY <1>7, <1>8, <1>9, <1>10, <1>11, <1>12, <1>13, <1>14, <1>15, <1>16, <1>17, <1>18
     DEF Next

LEMMA InitKeeps == Init => IInv
BY DEF Init, IInv, Draft, TypeOK, Tables, RuleStatuses, ActiveWasApproved

\* Whatever is kept and however long things last, an active rule was approved
\* by somebody who may approve a rule of its risk.
THEOREM Approval == Spec => []ActiveWasApproved
<1>1. Init => IInv
  BY InitKeeps
<1>2. IInv /\ [Next]_vars => IInv'
  BY StepKeeps
<1>3. IInv => ActiveWasApproved
  BY DEF IInv
<1> QED
  BY <1>1, <1>2, <1>3, PTL DEF Spec

\* The tables keep their type: every request and simulation has one of its
\* statuses and a time left within its lifetime.
THEOREM TablesTyped == Spec => []TypeOK
<1>1. Init => IInv
  BY InitKeeps
<1>2. IInv /\ [Next]_vars => IInv'
  BY StepKeeps
<1>3. IInv => TypeOK
  BY DEF IInv
<1> QED
  BY <1>1, <1>2, <1>3, PTL DEF Spec
===============================================================================
