----------------------------- MODULE SqlitePipe -----------------------------
(***************************************************************************)
(* class Sqlite and Store.recordShare of the pool (contrib/pool/store.mjs): *)
(* one long-lived sqlite3 child.  SQL goes down its stdin, rows and a       *)
(* sentinel per request come back on stdout, errors on stderr, and every    *)
(* sentinel settles the promise at the head of a queue.  Requests are not   *)
(* serialised: several may be in flight, the two output pipes are read      *)
(* independently, and a request that times out leaves the queue while its   *)
(* SQL is still on its way to the child.                                    *)
(*                                                                         *)
(* Every request is a recordShare: INSERT OR IGNORE of a key, then a SELECT *)
(* of the row with that key, whose id stands for the key.                   *)
(***************************************************************************)
EXTENDS Naturals, Sequences, FiniteSets, SequencesExt

CONSTANTS
  Request,     \* calls of recordShare
  Key,         \* (job_id, nonce) pairs
  KeyOf,       \* [Request -> Key]; two requests with one key are a retry
  MaxFailures  \* bound: statements the child reports an error for

ASSUME PipeAssumption ==
  /\ KeyOf \in [Request -> Key]
  /\ MaxFailures \in Nat

VARIABLES
  table,       \* keys in the `shares` table, durable
  total,       \* total_changes() of the connection
  childUp,     \* the sqlite3 process runs
  stdin,       \* requests written and not yet executed
  stdout,      \* lines written and not yet read: rows and sentinels
  stderr,      \* error messages written and not yet read
  failures,    \* statements that failed so far
  alive,       \* this.alive
  q,           \* this.q: the waiters, by request
  rows,        \* this.rows: row lines read since the last sentinel
  errBuf,      \* this.errBuf: errors read since the last sentinel
  lastTotal,   \* this.lastTotal
  outcome      \* what became of each request's promise

vars == <<table, total, childUp, stdin, stdout, stderr, failures, alive, q, rows,
          errBuf, lastTotal, outcome>>

child  == <<table, total, childUp, stdin, failures>>
parent == <<alive, q, rows, errBuf, lastTotal, outcome>>

-----------------------------------------------------------------------------
\* Lines of stdout; `of` is history: the request the line answers.
Row(k, r)      == [kind |-> "row", key |-> k, of |-> r]
Sentinel(n, r) == [kind |-> "end", total |-> n, of |-> r]

New      == [state |-> "new"]
Waiting  == [state |-> "waiting"]
TimedOut == [state |-> "timed out"]
Gone     == [state |-> "gone"]

\* Mutant: the call returned, so the share is taken to be stored.
ResolvedUnverified(read, n) ==
  [state |-> "acknowledged", fresh |-> n > 0,
   row |-> IF read = <<>> THEN CHOOSE k \in Key : TRUE ELSE Head(read).key]

\* recordShare after run() resolved: no row read back means it throws.
Resolved(read, n) ==
  IF read = <<>> THEN [state |-> "row not there"]
  ELSE [state |-> "acknowledged", fresh |-> n > 0, row |-> Head(read).key]

Rejected == [state |-> "rejected"]

Init ==
  /\ table = {} /\ total = 0 /\ childUp = TRUE /\ failures = 0
  /\ stdin = <<>> /\ stdout = <<>> /\ stderr = <<>>
  /\ alive = TRUE /\ q = <<>> /\ rows = <<>> /\ errBuf = <<>> /\ lastTotal = 0
  /\ outcome = [r \in Request |-> New]

\* run(): queue the waiter and write the SQL, without waiting for the others.
Run(r) ==
  /\ outcome[r] = New
  /\ IF alive
     THEN /\ q' = Append(q, r)
          /\ stdin' = IF childUp THEN Append(stdin, r) ELSE stdin
          /\ outcome' = [outcome EXCEPT ![r] = Waiting]
     ELSE /\ outcome' = [outcome EXCEPT ![r] = Gone]
          /\ UNCHANGED <<q, stdin>>
  /\ UNCHANGED <<table, total, childUp, failures, stdout, stderr, alive, rows, errBuf, lastTotal>>

\* Mutant: the timer drops the oldest waiter, whoever it is.
TimeoutDropsHead(r) ==
  /\ outcome[r] = Waiting
  /\ q' = IF q = <<>> THEN q ELSE Tail(q)
  /\ outcome' = [outcome EXCEPT ![r] = TimedOut]
  /\ UNCHANGED <<child, stdout, stderr, alive, rows, errBuf, lastTotal>>

\* this.q.indexOf(w) and the splice.
Spliced(waiters, r) ==
  IF r \in Range(waiters) THEN RemoveAt(waiters, CHOOSE i \in DOMAIN waiters : waiters[i] = r)
  ELSE waiters

\* The timer of run(): the waiter leaves the queue, its SQL does not.
Timeout(r) ==
  /\ outcome[r] = Waiting
  /\ q' = Spliced(q, r)
  /\ outcome' = [outcome EXCEPT ![r] = TimedOut]
  /\ UNCHANGED <<child, stdout, stderr, alive, rows, errBuf, lastTotal>>

\* The child executes the next request: the insert, the select, the sentinel.
Execute ==
  LET r == Head(stdin)
      k == KeyOf[r]
  IN  /\ childUp /\ stdin # <<>>
      /\ stdin' = Tail(stdin)
      /\ total' = IF k \in table THEN total ELSE total + 1
      /\ table' = table \cup {k}
      /\ stdout' = stdout \o <<Row(k, r), Sentinel(total', r)>>
      /\ UNCHANGED <<childUp, failures, stderr, parent>>

\* The insert fails (locked, full disk): sqlite3 says so on stderr and carries
\* on with the select and the sentinel.
ExecuteFails ==
  LET r == Head(stdin)
      k == KeyOf[r]
  IN  /\ childUp /\ stdin # <<>> /\ failures < MaxFailures
      /\ failures' = failures + 1
      /\ stdin' = Tail(stdin)
      /\ stderr' = Append(stderr, r)
      /\ stdout' = stdout \o (IF k \in table THEN <<Row(k, r)>> ELSE <<>>) \o <<Sentinel(total, r)>>
      /\ UNCHANGED <<table, total, childUp, parent>>

ReadError ==
  /\ stderr # <<>>
  /\ errBuf' = Append(errBuf, Head(stderr))
  /\ stderr' = Tail(stderr)
  /\ UNCHANGED <<child, stdout, alive, q, rows, lastTotal, outcome>>

ReadRow ==
  /\ stdout # <<>> /\ Head(stdout).kind = "row"
  /\ rows' = Append(rows, Head(stdout))
  /\ stdout' = Tail(stdout)
  /\ UNCHANGED <<child, stderr, alive, q, errBuf, lastTotal, outcome>>

\* Mutant: the rows read so far are not taken away with the sentinel.
ReadSentinelKeepsRows ==
  LET line == Head(stdout)
  IN  /\ stdout # <<>> /\ line.kind = "end"
      /\ stdout' = Tail(stdout)
      /\ errBuf' = <<>>
      /\ IF q = <<>>
         THEN UNCHANGED <<q, lastTotal, outcome>>
         ELSE /\ q' = Tail(q)
              /\ lastTotal' = line.total
              /\ outcome' = [outcome EXCEPT ![Head(q)] =
                               IF errBuf # <<>> THEN Rejected
                               ELSE Resolved(rows, line.total - lastTotal)]
      /\ UNCHANGED <<child, stderr, alive, rows>>

\* Mutant: a sentinel that comes with an error settles nobody.
ReadSentinelSkipsErrors ==
  LET line == Head(stdout)
  IN  /\ stdout # <<>> /\ line.kind = "end"
      /\ stdout' = Tail(stdout)
      /\ rows' = <<>> /\ errBuf' = <<>>
      /\ IF q = <<>> \/ errBuf # <<>>
         THEN UNCHANGED <<q, lastTotal, outcome>>
         ELSE /\ q' = Tail(q)
              /\ lastTotal' = line.total
              /\ outcome' = [outcome EXCEPT ![Head(q)] = Resolved(rows, line.total - lastTotal)]
      /\ UNCHANGED <<child, stderr, alive>>

\* A sentinel settles whoever is at the head of the queue, and is dropped,
\* lastTotal untouched, when nobody is.
ReadSentinel ==
  LET line == Head(stdout)
  IN  /\ stdout # <<>> /\ line.kind = "end"
      /\ stdout' = Tail(stdout)
      /\ rows' = <<>> /\ errBuf' = <<>>
      /\ IF q = <<>>
         THEN UNCHANGED <<q, lastTotal, outcome>>
         ELSE /\ q' = Tail(q)
              /\ lastTotal' = line.total
              /\ outcome' = [outcome EXCEPT ![Head(q)] =
                               IF errBuf # <<>> THEN Rejected
                               ELSE Resolved(rows, line.total - lastTotal)]
      /\ UNCHANGED <<child, stderr, alive>>

ChildDies ==
  /\ childUp
  /\ childUp' = FALSE
  /\ stdin' = <<>>
  /\ UNCHANGED <<table, total, failures, stdout, stderr, parent>>

\* The exit event: every waiter is rejected and onFatal closes the store.  The
\* output still in the pipes may be read before it or after it.
ExitEvent ==
  /\ ~childUp /\ alive
  /\ alive' = FALSE
  /\ q' = <<>>
  /\ outcome' = [r \in Request |-> IF outcome[r] = Waiting THEN Gone ELSE outcome[r]]
  /\ UNCHANGED <<child, stdout, stderr, rows, errBuf, lastTotal>>

Next ==
  \/ \E r \in Request : Run(r) \/ Timeout(r)
  \/ Execute \/ ExecuteFails \/ ChildDies
  \/ ReadRow \/ ReadSentinel \/ ReadError \/ ExitEvent

Spec == Init /\ [][Next]_vars

\* The child works off its input, the event loop reads its output and sees it
\* exit.  Nothing forces a call, a timer, a failure or the child's death.
FairSpec ==
  /\ Spec
  /\ WF_vars(Execute \/ ExecuteFails)
  /\ WF_vars(ReadRow \/ ReadSentinel)
  /\ WF_vars(ExitEvent)

-----------------------------------------------------------------------------
(* Properties.                                                              *)

NothingTimedOut == \A r \in Request : outcome[r] # TimedOut

\* "A share is acknowledged to the miner only AFTER it is durable", until the
\* first timeout: whatever fails, however the calls overlap and whenever the child
\* dies.  (One timed-out request is enough to break it for another one.)
PromptAcksAreRecorded ==
  NothingTimedOut =>
    \A r \in Request : outcome[r].state = "acknowledged" => KeyOf[r] \in table

\* Until the first timeout an acknowledged request read its own row back, and
\* `fresh` -- a difference of two cumulative counters -- is true for at most one
\* of a key's requests.
AnsweredByOwnRow ==
  NothingTimedOut =>
    /\ \A r \in Request : outcome[r].state = "acknowledged" => outcome[r].row = KeyOf[r]
    /\ \A r, s \in Request :
         /\ outcome[r].state = "acknowledged" /\ outcome[s].state = "acknowledged"
         /\ outcome[r].fresh /\ outcome[s].fresh /\ KeyOf[r] = KeyOf[s]
         => r = s

\* After timeouts the queue is shorter than the stream of sentinels, never
\* longer: while the child lives every waiter has a sentinel coming, and the
\* one it gets belongs to a request issued no later than its own.
WaitersAreCovered ==
  LET ends == {k \in DOMAIN stdout : stdout[k].kind = "end"}
  IN  childUp =>
        /\ Len(q) <= Cardinality(ends) + Len(stdin)
        /\ \A i \in DOMAIN q :
             \/ \E k \in ends : stdout[k].of = q[i] /\ i <= Cardinality({j \in ends : j <= k})
             \/ \E k \in DOMAIN stdin : stdin[k] = q[i] /\ i <= Cardinality(ends) + k

\* No caller waits for ever: even after other requests timed out, or the child
\* died, the promise of every request that was issued is settled.
EveryRequestSettles ==
  \A r \in Request : outcome[r] = Waiting ~> outcome[r] # Waiting
=============================================================================
