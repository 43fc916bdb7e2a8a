-------------------------- MODULE NotificationOutbox --------------------------
(***************************************************************************)
(* The notification outbox: src/services/notificationService.js.           *)
(*                                                                         *)
(* A business transaction leaves a row in the outbox; the periodic scan of *)
(* every server process reads a batch of rows, claims each by comparing    *)
(* its status and its attempts, delivers it in one transaction with its    *)
(* SENT mark, or writes down the failure for a later attempt.  A process   *)
(* that dies between claim and result leaves the row PROCESSING; after     *)
(* five minutes another scan may claim it.                                 *)
(*                                                                         *)
(* Time is the order of events: `due' holds the rows whose nextAttemptAt   *)
(* has come, in the order it came, which is the order the scan sorts by;   *)
(* `stale' holds the rows locked five minutes ago or more.                 *)
(***************************************************************************)
EXTENDS Naturals, FiniteSets, SequencesExt

CONSTANTS
  Messages,      \* one for each (channel, user, eventKey)
  Processes,     \* servers that run the scan
  MaxAttempts,   \* NOTIFICATION_OUTBOX_MAX_ATTEMPTS
  BatchSize,     \* NOTIFICATION_OUTBOX_BATCH_SIZE
  Fatal,         \* bound: the attempts at which a process may die
  Retried,       \* bound: the messages an administrator may put back
  Slow           \* processes that may hold a claim for over five minutes

ASSUME OutboxAssumption ==
  /\ MaxAttempts \in Nat \ {0} /\ BatchSize \in Nat \ {0}
  /\ Fatal \subseteq 1 .. MaxAttempts /\ Retried \subseteq Messages
  /\ Slow \subseteq Processes

Status == {"NONE", "PENDING", "PROCESSING", "SENT", "FAILED", "EXHAUSTED"}

(* What a scan keeps of a row: as it read it, and whether it claimed it. *)
Jobs == [on : Messages, status : {"PENDING", "FAILED", "PROCESSING"},
         attempts : 0 .. MaxAttempts - 1, claimed : BOOLEAN]

VARIABLES
  status,      \* of each row; NONE: not written yet
  attempts,    \* of each row
  due,         \* the rows whose nextAttemptAt has come, oldest first
  stale,       \* the rows whose lockedAt is five minutes old
  delivered,   \* the notifications in their user's inbox
  jobs         \* jobs[p]: what the scan of p still has to do

vars == <<status, attempts, due, stale, delivered, jobs>>

TypeOK ==
  /\ status \in [Messages -> Status]
  /\ attempts \in [Messages -> 0 .. MaxAttempts]
  /\ due \in Seq(Messages) /\ IsInjective(due)
  /\ stale \subseteq Messages
  /\ delivered \subseteq Messages
  /\ jobs \in [Processes -> SUBSET Jobs]

Init ==
  /\ status = [m \in Messages |-> "NONE"]
  /\ attempts = [m \in Messages |-> 0]
  /\ due = << >>
  /\ stale = {}
  /\ delivered = {}
  /\ jobs = [p \in Processes |-> {}]

-----------------------------------------------------------------------------
SetStatus(m, to) == status' = [status EXCEPT ![m] = to]
Drop(p, j) == jobs' = [jobs EXCEPT ![p] = @ \ {j}]
Unlock(m)  == stale' = stale \ {m}

(* The upsert inside a business transaction; on a row that is there it     *)
(* changes nothing.                                                        *)
Enqueue(m) ==
  /\ status[m] = "NONE"
  /\ SetStatus(m, "PENDING")
  /\ due' = Append(due, m)
  /\ UNCHANGED <<attempts, stale, delivered, jobs>>

WaitingOnly == {m \in Messages : m \in ToSet(due) /\ status[m] \in {"PENDING", "FAILED"}}
Candidates ==
  WaitingOnly \cup {m \in Messages : status[m] = "PROCESSING" /\ m \in stale}

(* m is due before n. *)
Before(m, n) ==
  \E i \in DOMAIN due : due[i] = m /\ \A k \in 1 .. i : due[k] # n

(* The first BatchSize candidates; those not yet due come in any order. *)
Batches ==
  {b \in SUBSET Candidates :
     /\ Cardinality(b) <= BatchSize
     /\ Cardinality(b) = BatchSize \/ b = Candidates
     /\ \A m \in b, n \in Candidates \ b : ~ Before(n, m)}

(* The filter comes after the batch is cut. *)
Runnable(m) == attempts[m] < MaxAttempts

(* processNotificationOutbox, up to the start of its jobs. *)
Scan(p) ==
  /\ jobs[p] = {}
  /\ \E b \in Batches :
       jobs' = [jobs EXCEPT ![p] =
         {[on |-> m, status |-> status[m], attempts |-> attempts[m], claimed |-> FALSE] :
            m \in {n \in b : Runnable(n)}}]
  /\ UNCHANGED <<status, attempts, due, stale, delivered>>

(* The condition of processOne's first update. *)
MatchesStatus(j) == status[j.on] = j.status
Matches(j) == status[j.on] = j.status /\ attempts[j.on] = j.attempts

Claim(p, j) ==
  /\ ~ j.claimed
  /\ \/ /\ Matches(j)
        /\ SetStatus(j.on, "PROCESSING")
        /\ attempts' = [attempts EXCEPT ![j.on] = @ + 1]
        /\ Unlock(j.on)
        /\ jobs' = [jobs EXCEPT ![p] = (@ \ {j}) \cup {[j EXCEPT !.claimed = TRUE]}]
     \/ /\ ~ Matches(j)
        /\ Drop(p, j)
        /\ UNCHANGED <<status, attempts, stale>>
  /\ UNCHANGED <<due, delivered>>

(* Delivery and the SENT mark commit together; the mark asks nothing of    *)
(* the row.                                                                *)
Deliver(p, j) ==
  /\ j.claimed
  /\ SetStatus(j.on, "SENT")
  /\ delivered' = delivered \cup {j.on}
  /\ Unlock(j.on)
  /\ due' = Remove(due, j.on)
  /\ Drop(p, j)
  /\ UNCHANGED attempts

VerdictLate(j) == IF j.attempts >= MaxAttempts THEN "EXHAUSTED" ELSE "FAILED"
Verdict(j)     == IF j.attempts + 1 >= MaxAttempts THEN "EXHAUSTED" ELSE "FAILED"

(* The channel or the transaction throws: the row waits for retryAt. *)
Fail(p, j) ==
  /\ j.claimed
  /\ SetStatus(j.on, Verdict(j))
  /\ Unlock(j.on)
  /\ due' = Remove(due, j.on)
  /\ Drop(p, j)
  /\ UNCHANGED <<attempts, delivered>>

(* The process dies, or loses the database, with the row claimed.  To die  *)
(* before the claim leaves nothing behind.                                 *)
Die(p, j) ==
  /\ j.claimed /\ j.attempts + 1 \in Fatal
  /\ Drop(p, j)
  /\ UNCHANGED <<status, attempts, due, stale, delivered>>

(* An administrator puts the row back: attempts 0, due now. *)
RetryNotificationOutbox(m) ==
  /\ m \in Retried /\ status[m] \in {"FAILED", "EXHAUSTED"}
  /\ SetStatus(m, "PENDING")
  /\ attempts' = [attempts EXCEPT ![m] = 0]
  /\ due' = Append(Remove(due, m), m)
  /\ Unlock(m)
  /\ UNCHANGED <<delivered, jobs>>

(* The clock: nextAttemptAt of a failed row comes; a lock grows old.       *)
Due(m) ==
  /\ status[m] \in {"FAILED", "PROCESSING"} /\ m \notin ToSet(due)
  /\ due' = Append(due, m)
  /\ UNCHANGED <<status, attempts, stale, delivered, jobs>>

Held(m, by) == {x \in {<<p, j>> : p \in by, j \in UNION {jobs[q] : q \in by}} :
                  x[2] \in jobs[x[1]] /\ x[2].on = m /\ x[2].claimed}

LockGrowsOld(m) ==
  /\ status[m] = "PROCESSING" /\ m \notin stale
  /\ Held(m, Processes \ Slow) = {}
  /\ stale' = stale \cup {m}
  /\ UNCHANGED <<status, attempts, due, delivered, jobs>>

-----------------------------------------------------------------------------
Finish(p, j) == Deliver(p, j) \/ Fail(p, j)

Next ==
  \/ \E m \in Messages :
       \/ Enqueue(m) \/ RetryNotificationOutbox(m) \/ Due(m) \/ LockGrowsOld(m)
  \/ \E p \in Processes :
       \/ Scan(p)
       \/ \E j \in jobs[p] : Claim(p, j) \/ Finish(p, j) \/ Die(p, j)

(* orderTimeoutJob.js scans every minute and awaits what it started; the   *)
(* clock moves.  Nobody owes a retry.                                      *)
Fairness ==
  /\ \A p \in Processes :
       /\ WF_vars(Scan(p))
       /\ \A j \in Jobs : WF_vars(j \in jobs[p] /\ (Claim(p, j) \/ Finish(p, j)))
  /\ \A m \in Messages : WF_vars(Due(m)) /\ WF_vars(LockGrowsOld(m))

Spec == Init /\ [][Next]_vars /\ Fairness

-----------------------------------------------------------------------------
(* Properties. *)

(* The properties are about rows no administrator puts back.  That sets    *)
(* attempts to 0, so a scan's old reading may match the row again.         *)
Untouched == Messages \ Retried

(* Two scans, even of a row reclaimed from a dead process, never deliver   *)
(* the same message at once: the compared claim admits one.                *)
OneHolder == \A m \in Untouched : Cardinality(Held(m, Processes)) <= 1

(* Attempts are counted across processes: a row is given up only when all  *)
(* its attempts are used, and never waits with none left.  (One whose last *)
(* holder died has none left and is not given up: it stays PROCESSING.)    *)
ExhaustedIsSpent ==
  \A m \in Untouched :
    /\ status[m] = "EXHAUSTED" => attempts[m] = MaxAttempts
    /\ status[m] \in {"PENDING", "FAILED"} => attempts[m] < MaxAttempts

(* What was delivered is never announced as failed or sent again. *)
SentIsFinal ==
  [][\A m \in Untouched : m \in delivered => status'[m] = "SENT"]_vars

(* Rows a scan still reads and never runs: FAILED or PROCESSING with no    *)
(* attempt left, after a death at the last one.                            *)
Stuck == {m \in Candidates : ~ Runnable(m)}

(* docs/api.md: failed deliveries are retried.  Every notification ends    *)
(* SENT, or EXHAUSTED where an administrator sees it, also when processes  *)
(* die on the way, when the batch holds fewer rows than wait and when      *)
(* other rows are put back for ever; unless stuck rows fill the batch.     *)
EveryNotificationSettles ==
  \A m \in Untouched :
    status[m] = "PENDING"
      ~> (status[m] \in {"SENT", "EXHAUSTED"} \/ Cardinality(Stuck) >= BatchSize)
=============================================================================
