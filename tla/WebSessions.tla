---------------------------- MODULE WebSessions ----------------------------
(***************************************************************************)
(* Tickets that carry a CLI identity into a browser: `labkit web` creates  *)
(* one with a signed request and the browser exchanges it for a session.   *)
(* Both are transactions on web_session_tickets, modelled statement by     *)
(* statement at PostgreSQL's READ COMMITTED level: an insert is seen by    *)
(* others once it commits, a deleted row is locked until its transaction   *)
(* ends, and NOW() is the time at which the transaction began.             *)
(***************************************************************************)
EXTENDS Naturals, FiniteSets

CONSTANTS Creators,   \* requests that create a ticket, which is named after them
          Exchanges,  \* requests that exchange one
          Limits,     \* values of maxOutstanding the API may be started with
          TTL,
          MaxTime,    \* bound on the clock
          None

ASSUME WebSessionsAssumption ==
  /\ Limits \subseteq Nat \ {0} /\ TTL \in Nat \ {0} /\ MaxTime \in Nat
  /\ Creators \cap Exchanges = {} /\ None \notin Creators

VARIABLES now,      \* the clock of the database and of the API
          row,      \* the row of each ticket: none, fresh (uncommitted), live
          expires,  \* its expires_at
          tx,       \* the requests and their transactions
          maxOutstanding   \* of the service, set when it is made

vars == <<now, row, expires, tx, maxOutstanding>>

Requests == Creators \cup Exchanges
Tickets  == Creators

Open == {"begun", "locked", "cleaned", "inserted", "deleted"}

Init ==
  /\ maxOutstanding \in Limits
  /\ now = 0
  /\ row = [t \in Tickets |-> "none"]
  /\ expires = [t \in Tickets |-> 0]
  /\ tx = [x \in Requests |->
             [pc |-> "idle", start |-> 0, holds |-> {}, ticket |-> None]]

(* Rows a transaction sees; those it deleted itself it sees no more.       *)
Visible(x, t) == row[t] = "live" /\ t \notin tx[x].holds

HeldBy(y, t) == t \in tx[y].holds

Unlocked(x, t) == \A y \in Requests \ {x} : ~HeldBy(y, t)

OutOfDate(x, t) == expires[t] <= tx[x].start

-----------------------------------------------------------------------------
(* BeginTx.  The browser presents the ticket the CLI was answered with.    *)
Begin(x) ==
  /\ tx[x].pc = "idle"
  /\ \E t \in Tickets :
       /\ x \in Creators => t = x
       /\ x \in Exchanges => tx[t].pc = "done"
       /\ tx' = [tx EXCEPT ![x] =
                   [pc |-> "begun", start |-> now, holds |-> {}, ticket |-> t]]
  /\ UNCHANGED <<now, row, expires>>

(* pg_advisory_xact_lock, released when the transaction ends.              *)
LockNotTaken(c) == TRUE   \* mutation: the lock is not taken
LockOfSession(c) ==       \* mutation: pg_advisory_lock, kept by the connection
  \A d \in Creators \ {c} : tx[d].pc \in {"idle", "begun"}
LockFree(c) == \A d \in Creators \ {c} : tx[d].pc \notin Open \ {"begun"}

AcquireCreateLock(c) ==
  /\ tx[c].pc = "begun"
  /\ LockFree(c)
  /\ tx' = [tx EXCEPT ![c].pc = "locked"]
  /\ UNCHANGED <<now, row, expires>>

(* Both transactions first delete the expired rows, one after another in   *)
(* the order the scan meets them.                                          *)
Cleaning(x) == tx[x].pc = IF x \in Creators THEN "locked" ELSE "begun"

ExpiredAtOnce(x, t) == Visible(x, t) /\ expires[t] <= tx[x].start + TTL   \* mutation: compared with created_at
Expired(x, t) == Visible(x, t) /\ OutOfDate(x, t)

CleanupRow(x, t) ==
  /\ Cleaning(x) /\ Expired(x, t) /\ Unlocked(x, t)
  /\ tx' = [tx EXCEPT ![x].holds = @ \cup {t}]
  /\ UNCHANGED <<now, row, expires>>

CleanupEnds(x) ==
  /\ Cleaning(x)
  /\ \A t \in Tickets : ~Expired(x, t)
  /\ tx' = [tx EXCEPT ![x].pc = "cleaned"]
  /\ UNCHANGED <<now, row, expires>>

Ends(x, pc) == tx' = [tx EXCEPT ![x].pc = pc, ![x].holds = {}]

(* CountActiveWebSessionTickets; one too many rolls back.                  *)
Active(c) == {t \in Tickets : Visible(c, t) /\ ~OutOfDate(c, t)}

ExpiresAt == now + TTL

CreateTicket(c) ==
  /\ tx[c].pc = "cleaned"
  /\ IF Cardinality(Active(c)) >= maxOutstanding
       THEN Ends(c, "refused") /\ UNCHANGED <<row, expires>>
       ELSE /\ tx' = [tx EXCEPT ![c].pc = "inserted"]
            /\ row' = [row EXCEPT ![c] = "fresh"]
            /\ expires' = [expires EXCEPT ![c] = ExpiresAt]
  /\ UNCHANGED now

(* DELETE ... RETURNING waits for a transaction that deleted the row.      *)
Matches(x, t) == Visible(x, t) /\ ~OutOfDate(x, t)

UnlockedAlways(x, t) == TRUE   \* mutation: reads the row, deletes it later
RowFree(x, t) == Unlocked(x, t)

ConsumeTicket(x) ==
  LET t == tx[x].ticket IN
  /\ tx[x].pc = "cleaned"
  /\ \/ ~Matches(x, t) /\ Ends(x, "refused")
     \/ /\ Matches(x, t) /\ RowFree(x, t)
        /\ tx' = [tx EXCEPT ![x].pc = "deleted", ![x].holds = @ \cup {t}]
  /\ UNCHANGED <<now, row, expires>>

Commit(x) ==
  /\ tx[x].pc \in {"inserted", "deleted"}
  /\ Ends(x, IF x \in Creators THEN "done" ELSE "consumed")
  /\ row' = [t \in Tickets |-> IF HeldBy(x, t) THEN "none"
                               ELSE IF t = x THEN "live" ELSE row[t]]
  /\ UNCHANGED <<now, expires>>

(* issueBrowserSession and the redirect.                                   *)
IssueSession(x) ==
  /\ tx[x].pc = "consumed"
  /\ Ends(x, "done")
  /\ UNCHANGED <<now, row, expires>>

Rollback(x) ==
  /\ Ends(x, "failed")
  /\ row' = [t \in Tickets |-> IF t = x /\ row[t] = "fresh" THEN "none" ELSE row[t]]
  /\ UNCHANGED <<now, expires>>

-----------------------------------------------------------------------------
(* The client goes away or a statement fails.                              *)
Abort(x) == tx[x].pc \in Open /\ Rollback(x)

WaitsFor(x, y) ==
  \/ x \in Creators /\ y \in Creators /\ tx[x].pc = "begun"
                    /\ tx[y].pc \in Open \ {"begun"}
  \/ \E t \in Tickets : HeldBy(y, t) /\ Cleaning(x) /\ Expired(x, t)
  \/ x \in Exchanges /\ tx[x].pc = "cleaned"
     /\ HeldBy(y, tx[x].ticket) /\ Matches(x, tx[x].ticket)

(* PostgreSQL's deadlock detector fails one of the transactions that wait  *)
(* for each other.                                                         *)
DeadlockVictim(x) ==
  /\ \E S \in SUBSET Requests :
       /\ x \in S
       /\ \A y \in S : \E z \in S \ {y} : WaitsFor(y, z)
  /\ Rollback(x)

(* A restart of the API rolls every open transaction back; answers that    *)
(* were on their way are lost.                                             *)
ApiRestart ==
  /\ \E x \in Requests : tx[x].pc \in Open \cup {"consumed"}
  /\ tx' = [x \in Requests |->
              IF tx[x].pc \in Open \cup {"consumed"}
              THEN [tx[x] EXCEPT !.pc = "failed", !.holds = {}] ELSE tx[x]]
  /\ row' = [t \in Tickets |-> IF row[t] = "fresh" THEN "none" ELSE row[t]]
  /\ UNCHANGED <<now, expires>>

Tick == now < MaxTime /\ now' = now + 1 /\ UNCHANGED <<row, expires, tx>>

Step(x) ==
  \/ \E t \in Tickets : CleanupRow(x, t)
  \/ CleanupEnds(x)
  \/ x \in Creators /\ CreateTicket(x)
  \/ x \in Exchanges /\ ConsumeTicket(x)
  \/ Commit(x)
  \/ IssueSession(x)
  \/ DeadlockVictim(x)

Next ==
  /\ \/ \E x \in Requests : Begin(x) \/ Step(x) \/ Abort(x)
     \/ \E c \in Creators : AcquireCreateLock(c)
     \/ ApiRestart
     \/ Tick
  /\ UNCHANGED maxOutstanding

Spec == Init /\ [][Next]_vars

(* Requests are goroutines that run on; PostgreSQL serves the waiters of a *)
(* lock in turn.                                                           *)
FairSpec ==
  /\ Spec
  /\ \A x \in Requests : WF_vars(Step(x) /\ UNCHANGED maxOutstanding)
  /\ \A c \in Creators : SF_vars(AcquireCreateLock(c) /\ UNCHANGED maxOutstanding)

-----------------------------------------------------------------------------
(* Every variable has its type.                                            *)
TypeOK ==
  /\ maxOutstanding \in Limits /\ now \in 0..MaxTime
  /\ row \in [Tickets -> {"none", "fresh", "live"}]
  /\ expires \in [Tickets -> 0..(MaxTime + TTL)]
  /\ tx \in [Requests -> [pc : Open \cup {"idle", "done", "consumed", "refused", "failed"},
                          start : 0..MaxTime, holds : SUBSET Tickets,
                          ticket : Tickets \cup {None}]]

(* No more than maxOutstanding tickets can be exchanged at any time,       *)
(* although every request counts with the clock of its own, older, start.  *)
OutstandingBounded ==
  /\ TypeOK
  /\ Cardinality({t \in Tickets : row[t] = "live" /\ expires[t] > now}) <= maxOutstanding

(* A ticket gives one session, whatever other exchanges of it are under    *)
(* way, roll back or are waiting for one that does.                        *)
TicketUsedOnce ==
  \A t \in Tickets :
    Cardinality({x \in Exchanges : tx[x].ticket = t /\ tx[x].pc \in {"consumed", "done"}}) <= 1

(* Tickets survive failures and restarts: a row disappears because an      *)
(* exchange of it commits or because its time is over.                     *)
TicketsSurvive ==
  [][\A t \in Tickets : row[t] = "live" /\ row'[t] # "live" =>
       \/ expires[t] <= now
       \/ \E x \in Exchanges : tx[x].ticket = t /\ tx'[x].pc = "consumed"]_vars

(* No request waits for ever for the advisory lock and the row locks.      *)
EveryoneAnswered ==
  \A x \in Requests : tx[x].pc = "begun" ~> tx[x].pc \notin Open
=============================================================================
