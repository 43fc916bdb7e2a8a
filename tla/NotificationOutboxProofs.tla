----------------------- MODULE NotificationOutboxProofs -----------------------
(* Theorems about NotificationOutbox, for any number of rows, servers and  *)
(* attempts and any batch, when no server holds a claim for longer than    *)
(* the lock lasts.                                                         *)
EXTENDS NotificationOutbox, FiniteSetTheorems, TLAPS

-----------------------------------------------------------------------------
(* What the properties rest on.                                            *)

(* The rows and what the scans have read of them are typed.                *)
RowsOK ==
  /\ status \in [Messages -> Status]
  /\ attempts \in [Messages -> 0 .. MaxAttempts]
  /\ stale \subseteq Messages /\ delivered \subseteq Messages
  /\ jobs \in [Processes -> SUBSET Jobs]

(* A row that was not written yet has no attempts.                         *)
Fresh == \A m \in Messages : status[m] = "NONE" => attempts[m] = 0

(* A scan has read no attempts that were not there.                        *)
ReadBefore ==
  \A p \in Processes : \A j \in jobs[p] : j.on \in Untouched => j.attempts <= attempts[j.on]

(* A row that was read as left behind, and still is as it was read, is     *)
(* locked for five minutes or more.                                        *)
LeftBehind ==
  \A p \in Processes : \A j \in jobs[p] :
    /\ j.on \in Untouched /\ ~j.claimed /\ j.status = "PROCESSING"
    /\ status[j.on] = "PROCESSING" /\ attempts[j.on] = j.attempts
    => j.on \in stale

(* A claimed row is PROCESSING under a fresh lock, with the attempt of its *)
(* holder counted, and no other scan holds it.                             *)
HeldRow ==
  \A p \in Processes : \A j \in jobs[p] :
    j.on \in Untouched /\ j.claimed =>
      /\ status[j.on] = "PROCESSING" /\ j.on \notin stale
      /\ attempts[j.on] = j.attempts + 1

(* A row is claimed by one scan.                                           *)
OneClaim ==
  \A p, q \in Processes : \A j \in jobs[p], k \in jobs[q] :
    j.on \in Untouched /\ k.on = j.on /\ j.claimed /\ k.claimed => p = q /\ j = k

(* What was delivered is SENT, unless it was put back.                     *)
DeliveredIsSent == \A m \in Untouched : m \in delivered => status[m] = "SENT"

(* The inductive invariant.                                                *)
Inv ==
  /\ RowsOK
  /\ Fresh
  /\ ReadBefore
  /\ LeftBehind
  /\ HeldRow
  /\ OneClaim
  /\ ExhaustedIsSpent
  /\ DeliveredIsSent

-----------------------------------------------------------------------------

(* No scan has begun.                                                      *)
LEMMA InitInv == Init => Inv
  BY OutboxAssumption
     DEF Init, Inv, RowsOK, Fresh, ReadBefore, LeftBehind, HeldRow, OneClaim,
         ExhaustedIsSpent, DeliveredIsSent, Status, Untouched

(* A job, and the job with its claim noted.                                *)
LEMMA JobTypes ==
  ASSUME RowsOK, NEW p \in Processes, NEW j \in jobs[p]
  PROVE  /\ j \in Jobs
         /\ j.on \in Messages /\ j.attempts \in 0 .. MaxAttempts - 1 /\ j.claimed \in BOOLEAN
         /\ j.status \in {"PENDING", "FAILED", "PROCESSING"}
         /\ [j EXCEPT !.claimed = TRUE] \in Jobs
         /\ [j EXCEPT !.claimed = TRUE].on = j.on
         /\ [j EXCEPT !.claimed = TRUE].attempts = j.attempts
         /\ [j EXCEPT !.claimed = TRUE].status = j.status
         /\ [j EXCEPT !.claimed = TRUE].claimed
<1>1. j \in Jobs
  BY DEF RowsOK
<1>2. QED
  BY <1>1 DEF Jobs

(* A scan reads its batch.                                                 *)
LEMMA ScanKeeps ==
  ASSUME Inv, NEW p \in Processes, Scan(p)
  PROVE  Inv'
<1> USE OutboxAssumption DEF Inv
<1>1. PICK b \in Batches :
        jobs' = [jobs EXCEPT ![p] =
          {[on |-> m, status |-> status[m], attempts |-> attempts[m], claimed |-> FALSE] :
             m \in {n \in b : Runnable(n)}}]
  BY DEF Scan
<1>2. UNCHANGED <<status, attempts, stale, delivered>> /\ jobs[p] = {}
  BY DEF Scan
<1> DEFINE Of(m) == [on |-> m, status |-> status[m], attempts |-> attempts[m],
                     claimed |-> FALSE]
           new == {Of(m) : m \in {n \in b : Runnable(n)}}
<1>3. \A j \in new : /\ j \in Jobs /\ ~j.claimed
                     /\ j.status = status[j.on] /\ j.attempts = attempts[j.on]
                     /\ j.status = "PROCESSING" => j.on \in stale
  <2> SUFFICES ASSUME NEW m \in b, Runnable(m)
               PROVE  /\ Of(m) \in Jobs /\ ~Of(m).claimed
                      /\ Of(m).status = status[Of(m).on] /\ Of(m).attempts = attempts[Of(m).on]
                      /\ Of(m).status = "PROCESSING" => Of(m).on \in stale
    OBVIOUS
  <2>1. m \in Candidates
    BY DEF Batches
  <2>2. /\ m \in Messages /\ status[m] \in {"PENDING", "FAILED", "PROCESSING"}
        /\ status[m] = "PROCESSING" => m \in stale
    BY <2>1 DEF Candidates, WaitingOnly
  <2>3. attempts[m] \in 0 .. MaxAttempts - 1
    BY <2>2 DEF RowsOK, Runnable
  <2>4. QED
    BY <2>2, <2>3 DEF Jobs
<1>4. \A q \in Processes : jobs'[q] = IF q = p THEN new ELSE jobs[q]
  BY <1>1 DEF RowsOK
<1>5. jobs' \in [Processes -> SUBSET Jobs]
  BY <1>1, <1>3 DEF RowsOK
<1>6. RowsOK' /\ Fresh' /\ ExhaustedIsSpent' /\ DeliveredIsSent'
  BY <1>2, <1>5 DEF RowsOK, Fresh, ExhaustedIsSpent, DeliveredIsSent
<1> HIDE DEF new
<1>7. ReadBefore'
  <2> SUFFICES ASSUME NEW q \in Processes, NEW j \in jobs'[q], j.on \in Untouched
               PROVE  j.attempts <= attempts[j.on]
    BY <1>2 DEF ReadBefore
  <2>1. CASE q = p
    <3>1. j \in Jobs /\ j.attempts = attempts[j.on]
      BY <1>3, <1>4, <2>1
    <3>2. QED
      BY <3>1 DEF Jobs
  <2>2. CASE q # p
    BY <1>4, <2>2 DEF ReadBefore
  <2>3. QED
    BY <2>1, <2>2
<1>8. LeftBehind'
  BY <1>2, <1>3, <1>4 DEF LeftBehind
<1>9. HeldRow'
  BY <1>2, <1>3, <1>4 DEF HeldRow
<1>10. OneClaim'
  BY <1>2, <1>3, <1>4 DEF OneClaim
<1>11. QED
  BY <1>6, <1>7, <1>8, <1>9, <1>10

(* A job that is given up, when nothing or nothing more than the row of an *)
(* administrator changes with it.                                          *)
LEMMA DropKeeps ==
  ASSUME Inv, NEW p \in Processes, NEW j \in jobs[p], Drop(p, j),
         UNCHANGED <<status, attempts, stale, delivered>>
  PROVE  Inv'
<1> USE DEF Inv
<1>1. /\ \A q \in Processes : jobs'[q] \subseteq jobs[q]
      /\ jobs' \in [Processes -> SUBSET Jobs]
  BY DEF Drop, RowsOK
<1>2. RowsOK' /\ Fresh' /\ ExhaustedIsSpent' /\ DeliveredIsSent'
  BY <1>1 DEF RowsOK, Fresh, ExhaustedIsSpent, DeliveredIsSent
<1>3. ReadBefore' /\ LeftBehind' /\ HeldRow'
  BY <1>1 DEF ReadBefore, LeftBehind, HeldRow
<1>4. OneClaim'
  BY <1>1 DEF OneClaim
<1>5. QED
  BY <1>2, <1>3, <1>4

(* A claim that matches finds no other holder: the row is not PROCESSING,  *)
(* or its lock is old.                                                     *)
LEMMA ClaimKeeps ==
  ASSUME Inv, NEW p \in Processes, NEW j \in jobs[p], Claim(p, j)
  PROVE  Inv'
<1> USE OutboxAssumption DEF Inv
<1>1. CASE ~Matches(j)
  BY <1>1, DropKeeps DEF Claim
<1>2. CASE Matches(j)
  <2> DEFINE i == [j EXCEPT !.claimed = TRUE]
             m == j.on
  <2>1. /\ status' = [status EXCEPT ![m] = "PROCESSING"]
        /\ attempts' = [attempts EXCEPT ![m] = @ + 1]
        /\ stale' = stale \ {m}
        /\ jobs' = [jobs EXCEPT ![p] = (@ \ {j}) \cup {i}]
        /\ UNCHANGED delivered
        /\ ~j.claimed /\ status[m] = j.status /\ attempts[m] = j.attempts
    BY <1>2 DEF Claim, SetStatus, Unlock, Matches
  <2>2. /\ m \in Messages /\ j.attempts \in 0 .. MaxAttempts - 1
        /\ j.status \in {"PENDING", "FAILED", "PROCESSING"}
        /\ i \in Jobs /\ i.on = m /\ i.attempts = j.attempts /\ i.status = j.status
        /\ i.claimed
    BY JobTypes
  <2>3. \A n \in Messages :
          /\ status'[n] = IF n = m THEN "PROCESSING" ELSE status[n]
          /\ attempts'[n] = IF n = m THEN attempts[m] + 1 ELSE attempts[n]
          /\ attempts[n] \in Nat
    BY <2>1 DEF RowsOK
  <2>4. \A q \in Processes : \A k \in jobs'[q] : k \in jobs[q] \/ (q = p /\ k = i)
    BY <2>1 DEF RowsOK
  <2>5. RowsOK'
    <3>1. attempts' \in [Messages -> 0 .. MaxAttempts]
      BY <2>1, <2>2 DEF RowsOK
    <3>2. status' \in [Messages -> Status]
      BY <2>1 DEF RowsOK, Status
    <3>3. jobs' \in [Processes -> SUBSET Jobs]
      BY <2>1, <2>2 DEF RowsOK
    <3>4. QED
      BY <2>1, <3>1, <3>2, <3>3 DEF RowsOK
  <2>6. Fresh' /\ ExhaustedIsSpent'
    BY <2>3, <2>2 DEF Fresh, ExhaustedIsSpent, Untouched
  <2>7. DeliveredIsSent'
    BY <2>1, <2>2, <2>3 DEF DeliveredIsSent, Untouched
  <2>8. ReadBefore'
    <3> SUFFICES ASSUME NEW q \in Processes, NEW k \in jobs'[q], k.on \in Untouched
                 PROVE  k.attempts <= attempts'[k.on]
      BY DEF ReadBefore
    <3>1. CASE k \in jobs[q]
      <4>1. k.attempts <= attempts[k.on]
        BY <3>1 DEF ReadBefore
      <4>2. k.attempts \in 0 .. MaxAttempts - 1
        BY <3>1, JobTypes
      <4>3. QED
        BY <2>3, <4>1, <4>2 DEF Untouched
    <3>2. CASE k = i
      BY <2>1, <2>2, <2>3, <3>2
    <3>3. QED
      BY <2>4, <3>1, <3>2
  <2>9. LeftBehind'
    <3> SUFFICES ASSUME NEW q \in Processes, NEW k \in jobs'[q], k.on \in Untouched,
                        ~k.claimed, k.status = "PROCESSING", status'[k.on] = "PROCESSING",
                        attempts'[k.on] = k.attempts
                 PROVE  k.on \in stale'
      BY DEF LeftBehind
    <3>1. k \in jobs[q]
      BY <2>2, <2>4
    <3>2. k.on # m
      BY <2>2, <2>3, <3>1, JobTypes DEF ReadBefore
    <3>3. QED
      BY <2>1, <2>3, <3>1, <3>2 DEF LeftBehind, Untouched
  <2>10. ASSUME m \in Untouched, NEW q \in Processes, NEW k \in jobs[q], k.on = m, k.claimed
         PROVE  FALSE
    <3>1. status[m] = "PROCESSING" /\ m \notin stale
      BY <2>10 DEF HeldRow
    <3>2. QED
      BY <2>1, <2>10, <3>1 DEF LeftBehind
  <2>11. HeldRow'
    <3> SUFFICES ASSUME NEW q \in Processes, NEW k \in jobs'[q], k.on \in Untouched, k.claimed
                 PROVE  /\ status'[k.on] = "PROCESSING" /\ k.on \notin stale'
                        /\ attempts'[k.on] = k.attempts + 1
      BY DEF HeldRow
    <3>1. CASE k \in jobs[q]
      BY <2>1, <2>3, <2>10, <3>1 DEF HeldRow, Untouched
    <3>2. CASE k = i
      BY <2>1, <2>2, <2>3, <3>2
    <3>3. QED
      BY <2>4, <3>1, <3>2
  <2>12. OneClaim'
    <3> SUFFICES ASSUME NEW q \in Processes, NEW r \in Processes,
                        NEW k \in jobs'[q], NEW l \in jobs'[r],
                        k.on \in Untouched, l.on = k.on, k.claimed, l.claimed
                 PROVE  q = r /\ k = l
      BY DEF OneClaim
    <3>1. CASE k.on = m
      BY <2>4, <2>10, <3>1
    <3>2. CASE k.on # m
      BY <2>2, <2>4, <3>2 DEF OneClaim
    <3>3. QED
      BY <3>1, <3>2
  <2>13. QED
    BY <2>5, <2>6, <2>7, <2>8, <2>9, <2>11, <2>12
<1>3. QED
  BY <1>1, <1>2

(* A holder finishes: its row, which nobody else holds, is SENT, or waits, *)
(* or is given up when its attempts are used.                              *)
LEMMA FinishKeeps ==
  ASSUME Inv, NEW p \in Processes, NEW j \in jobs[p], Finish(p, j)
  PROVE  Inv'
<1> USE OutboxAssumption DEF Inv
<1> DEFINE m == j.on
<1>1. PICK to \in {"SENT", Verdict(j)} :
        /\ status' = [status EXCEPT ![m] = to]
        /\ delivered' = IF to = "SENT" THEN delivered \cup {m} ELSE delivered
  BY DEF Finish, Deliver, Fail, SetStatus, Verdict
<1>2. /\ j.claimed
      /\ stale' = stale \ {m}
      /\ jobs' = [jobs EXCEPT ![p] = @ \ {j}]
      /\ UNCHANGED attempts
  BY DEF Finish, Deliver, Fail, Unlock, Drop
<1>3. m \in Messages /\ j.attempts \in 0 .. MaxAttempts - 1
  BY JobTypes
<1>4. to \in {"SENT", "EXHAUSTED", "FAILED"}
  BY <1>1 DEF Verdict
<1>5. \A n \in Messages : status'[n] = IF n = m THEN to ELSE status[n]
  BY <1>1 DEF RowsOK
<1>6. \A q \in Processes : \A k \in jobs'[q] : k \in jobs[q] /\ (q = p => k # j)
  BY <1>2 DEF RowsOK
<1>7. RowsOK'
  <2>1. jobs' \in [Processes -> SUBSET Jobs]
    BY <1>2 DEF RowsOK
  <2>2. status' \in [Messages -> Status]
    BY <1>1, <1>4 DEF RowsOK, Status
  <2>3. delivered' \subseteq Messages
    BY <1>1, <1>3 DEF RowsOK
  <2>4. QED
    BY <1>2, <2>1, <2>2, <2>3 DEF RowsOK
<1>8. Fresh' /\ ReadBefore'
  BY <1>2, <1>4, <1>5, <1>6 DEF Fresh, ReadBefore
<1>9. LeftBehind'
  BY <1>2, <1>4, <1>5, <1>6, <1>3 DEF LeftBehind, Untouched
<1>10. ASSUME m \in Untouched, NEW q \in Processes, NEW k \in jobs'[q], k.on = m, k.claimed
       PROVE  FALSE
  BY <1>2, <1>6, <1>10 DEF OneClaim
<1>11. HeldRow'
  BY <1>2, <1>5, <1>6, <1>10 DEF HeldRow, Untouched
<1>12. OneClaim'
  BY <1>6 DEF OneClaim
<1>13. ExhaustedIsSpent'
  <2> SUFFICES ASSUME NEW n \in Untouched
               PROVE  /\ status'[n] = "EXHAUSTED" => attempts[n] = MaxAttempts
                      /\ status'[n] \in {"PENDING", "FAILED"} => attempts[n] < MaxAttempts
    BY <1>2 DEF ExhaustedIsSpent
  <2>1. CASE n = m
    <3>1. attempts[m] = j.attempts + 1
      BY <1>2, <2>1 DEF HeldRow
    <3>2. QED
      BY <1>1, <1>3, <1>5, <2>1, <3>1 DEF Verdict
  <2>2. CASE n # m
    BY <1>5, <2>2 DEF ExhaustedIsSpent, Untouched
  <2>3. QED
    BY <2>1, <2>2
<1>14. DeliveredIsSent'
  <2> SUFFICES ASSUME NEW n \in Untouched, n \in delivered' PROVE status'[n] = "SENT"
    BY DEF DeliveredIsSent
  <2>1. CASE n = m
    <3>1. m \notin delivered
      BY <1>2, <2>1 DEF HeldRow, DeliveredIsSent
    <3>2. QED
      BY <1>1, <1>3, <1>5, <2>1, <3>1
  <2>2. CASE n # m
    BY <1>1, <1>5, <2>2 DEF DeliveredIsSent, Untouched
  <2>3. QED
    BY <2>1, <2>2
<1>15. QED
  BY <1>7, <1>8, <1>9, <1>11, <1>12, <1>13, <1>14

(* What is written anew, or put back by an administrator, is no scan's.    *)
LEMMA RowKeeps ==
  ASSUME Inv, NEW m \in Messages, Enqueue(m) \/ RetryNotificationOutbox(m)
  PROVE  Inv'
<1> USE OutboxAssumption DEF Inv
<1>1. CASE Enqueue(m)
  <2>1. /\ status[m] = "NONE" /\ status' = [status EXCEPT ![m] = "PENDING"]
        /\ UNCHANGED <<attempts, stale, delivered, jobs>>
    BY <1>1 DEF Enqueue, SetStatus
  <2>2. \A n \in Messages : status'[n] = IF n = m THEN "PENDING" ELSE status[n]
    BY <2>1 DEF RowsOK
  <2>3. RowsOK'
    BY <2>1 DEF RowsOK, Status
  <2>4. Fresh' /\ ReadBefore' /\ OneClaim'
    BY <2>1, <2>2 DEF Fresh, ReadBefore, OneClaim
  <2>5. LeftBehind' /\ HeldRow'
    BY <2>1, <2>2 DEF LeftBehind, HeldRow, Untouched
  <2>6. ExhaustedIsSpent'
    BY <2>1, <2>2 DEF Fresh, ExhaustedIsSpent, Untouched
  <2>7. DeliveredIsSent'
    BY <2>1, <2>2 DEF DeliveredIsSent, Untouched
  <2>8. QED
    BY <2>3, <2>4, <2>5, <2>6, <2>7
<1>2. CASE RetryNotificationOutbox(m)
  <2>1. /\ m \in Retried
        /\ status' = [status EXCEPT ![m] = "PENDING"]
        /\ attempts' = [attempts EXCEPT ![m] = 0]
        /\ stale' = stale \ {m}
        /\ UNCHANGED <<delivered, jobs>>
    BY <1>2 DEF RetryNotificationOutbox, SetStatus, Unlock
  <2>2. \A n \in Messages : /\ status'[n] = IF n = m THEN "PENDING" ELSE status[n]
                            /\ attempts'[n] = IF n = m THEN 0 ELSE attempts[n]
    BY <2>1 DEF RowsOK
  <2>3. \A n \in Untouched : /\ status'[n] = status[n] /\ attempts'[n] = attempts[n]
                             /\ n \in stale' <=> n \in stale
    BY <2>1, <2>2 DEF Untouched
  <2>4. RowsOK'
    BY <2>1 DEF RowsOK, Status
  <2>5. Fresh'
    BY <2>2 DEF Fresh
  <2>6. ReadBefore' /\ LeftBehind' /\ HeldRow'
    BY <2>1, <2>3 DEF ReadBefore, LeftBehind, HeldRow
  <2>7. OneClaim' /\ ExhaustedIsSpent' /\ DeliveredIsSent'
    BY <2>1, <2>3 DEF OneClaim, ExhaustedIsSpent, DeliveredIsSent
  <2>8. QED
    BY <2>4, <2>5, <2>6, <2>7
<1>3. QED
  BY <1>1, <1>2

(* A lock grows old only when its holder is gone.                          *)
LEMMA LockKeeps ==
  ASSUME Inv, Slow = {}, NEW m \in Messages, LockGrowsOld(m)
  PROVE  Inv'
<1> USE DEF Inv
<1>1. Held(m, Processes) = {} /\ stale' = stale \cup {m}
      /\ UNCHANGED <<status, attempts, delivered, jobs>>
  BY DEF LockGrowsOld
<1>2. ASSUME NEW p \in Processes, NEW j \in jobs[p], j.claimed PROVE j.on # m
  <2> SUFFICES ASSUME j.on = m PROVE FALSE
    OBVIOUS
  <2>1. j \in UNION {jobs[q] : q \in Processes}
    OBVIOUS
  <2>2. <<p, j>> \in Held(m, Processes)
    BY <1>2, <2>1 DEF Held
  <2>3. QED
    BY <1>1, <2>2
<1>3. HeldRow'
  BY <1>1, <1>2 DEF HeldRow
<1>4. RowsOK' /\ Fresh' /\ ReadBefore' /\ LeftBehind'
  BY <1>1 DEF RowsOK, Fresh, ReadBefore, LeftBehind
<1>5. OneClaim' /\ ExhaustedIsSpent' /\ DeliveredIsSent'
  BY <1>1 DEF OneClaim, ExhaustedIsSpent, DeliveredIsSent
<1>6. QED
  BY <1>3, <1>4, <1>5

(* Every step keeps the invariant.                                         *)
LEMMA StepInv ==
  ASSUME Slow = {}
  PROVE  Inv /\ [Next]_vars => Inv'
<1> SUFFICES ASSUME Inv, [Next]_vars PROVE Inv'
  OBVIOUS
<1>1. ASSUME NEW m \in Messages, Enqueue(m) \/ RetryNotificationOutbox(m) PROVE Inv'
  BY <1>1, RowKeeps
<1>2. ASSUME NEW m \in Messages, LockGrowsOld(m) PROVE Inv'
  BY <1>2, LockKeeps
<1>3. ASSUME NEW p \in Processes, Scan(p) PROVE Inv'
  BY <1>3, ScanKeeps
<1>4. ASSUME NEW p \in Processes, NEW j \in jobs[p], Claim(p, j) PROVE Inv'
  BY <1>4, ClaimKeeps
<1>5. ASSUME NEW p \in Processes, NEW j \in jobs[p], Finish(p, j) PROVE Inv'
  BY <1>5, FinishKeeps
<1>6. ASSUME NEW p \in Processes, NEW j \in jobs[p], Die(p, j) PROVE Inv'
  BY <1>6, DropKeeps DEF Die
<1>7. ASSUME UNCHANGED <<status, attempts, stale, delivered, jobs>> PROVE Inv'
  BY <1>7 DEF Inv, RowsOK, Fresh, ReadBefore, LeftBehind, HeldRow, OneClaim,
              ExhaustedIsSpent, DeliveredIsSent
<1>8. QED
  BY <1>1, <1>2, <1>3, <1>4, <1>5, <1>6, <1>7 DEF Next, vars, Due

(* The invariant, when no server is slower than its lock.                  *)
LEMMA InvAlways ==
  ASSUME Slow = {}
  PROVE  Spec => []Inv
<1>1. Inv /\ [Next]_vars => Inv'
  BY StepInv
<1>2. QED
  BY <1>1, InitInv, PTL DEF Spec

-----------------------------------------------------------------------------
(* Theorems *)

(* The compared claim of processOne admits one holder of a row, however    *)
(* many scans read it and whoever died with it.                            *)
THEOREM OneHolderAlways ==
  ASSUME Slow = {}
  PROVE  Spec => []OneHolder
<1>1. ASSUME Inv PROVE OneHolder
  <2> SUFFICES ASSUME NEW m \in Untouched
               PROVE  Cardinality(Held(m, Processes)) <= 1
    BY DEF OneHolder
  <2>1. \A x, y \in Held(m, Processes) : x = y
    BY <1>1 DEF Held, Inv, OneClaim
  <2>2. CASE Held(m, Processes) = {}
    BY <2>2, FS_EmptySet
  <2>3. ASSUME NEW x \in Held(m, Processes)
        PROVE  Cardinality(Held(m, Processes)) <= 1
    <3>1. Held(m, Processes) = {x}
      BY <2>1
    <3>2. QED
      BY <3>1, FS_Singleton
  <2>4. QED
    BY <2>2, <2>3
<1>2. Inv => OneHolder
  BY <1>1
<1>3. QED
  BY <1>2, InvAlways, PTL

(* A row is given up exactly when its attempts are used.                   *)
THEOREM ExhaustedIsSpentAlways ==
  ASSUME Slow = {}
  PROVE  Spec => []ExhaustedIsSpent
<1>1. Inv => ExhaustedIsSpent
  BY DEF Inv
<1>2. QED
  BY <1>1, InvAlways, PTL

(* What was delivered stays SENT.                                          *)
THEOREM SentStays ==
  ASSUME Slow = {}
  PROVE  Spec => SentIsFinal
<1> DEFINE Stays(m) == m \in delivered => status'[m] = "SENT"
<1>1. ASSUME Inv', [Next]_vars, NEW m \in Untouched PROVE Stays(m)
  <2>1. delivered \subseteq delivered'
    BY <1>1 DEF Next, vars, Enqueue, RetryNotificationOutbox, Due, LockGrowsOld, Scan, Claim,
                Finish, Deliver, Fail, Die
  <2>2. QED
    BY <1>1, <2>1 DEF Inv, DeliveredIsSent
<1>2. Inv' /\ [Next]_vars => [\A m \in Untouched : Stays(m)]_vars
  BY <1>1
<1>3. QED
  BY <1>2, InvAlways, PTL DEF Spec, SentIsFinal
=============================================================================
