-------------------------- MODULE WebSessionsProofs --------------------------
(***************************************************************************)
(* What WebSessions promises for any number of requests, any limit, life   *)
(* of a ticket and length of the run.                                      *)
(***************************************************************************)
EXTENDS WebSessions, FiniteSetTheorems, TLAPS

-----------------------------------------------------------------------------
(* The inductive invariant.                                                *)

TxType ==
  [pc : Open \cup {"idle", "done", "consumed", "refused", "failed"},
   start : 0..MaxTime, holds : SUBSET Tickets, ticket : Tickets \cup {None}]

(* A transaction has deleted rows that were out of date when it began, and *)
(* the ticket it exchanges.                                                *)
HoldsOK(x) ==
  \A t \in tx[x].holds :
    /\ row[t] = "live"
    /\ tx[x].pc \in Open
    /\ expires[t] <= tx[x].start \/ (x \in Exchanges /\ tx[x].pc = "deleted" /\ t = tx[x].ticket)

(* A row is locked by one transaction.                                     *)
Apart == \A x, y \in Requests : x # y => tx[x].holds \cap tx[y].holds = {}

CreatorOK(c) ==
  /\ tx[c].pc \in {"idle", "begun", "locked", "cleaned", "inserted", "done", "refused", "failed"}
  /\ tx[c].pc = "inserted" <=> row[c] = "fresh"
  /\ row[c] = "live" => tx[c].pc = "done"

ExchangeOK(x) ==
  LET t == tx[x].ticket IN
  /\ tx[x].pc \notin {"locked", "inserted"}
  /\ tx[x].pc # "idle" => t \in Tickets /\ tx[t].pc = "done"
  /\ tx[x].pc = "deleted" => t \in tx[x].holds
  /\ tx[x].pc \in {"consumed", "done"} => row[t] = "none"

Locking == {"locked", "cleaned", "inserted"}

OneCreates ==
  \A c, d \in Creators : tx[c].pc \in Locking /\ tx[d].pc \in Locking => c = d

Used(x) == tx[x].pc \in {"consumed", "done"}

UsedOnce ==
  \A x, y \in Exchanges : Used(x) /\ Used(y) /\ tx[x].ticket = tx[y].ticket => x = y

LiveRows == {t \in Tickets : row[t] = "live"}
Outstanding == {t \in Tickets : row[t] = "live" /\ expires[t] > now}

(* What is counted stays counted: whoever has inserted a ticket left room  *)
(* for it, and nobody else may insert one before it commits.               *)
Counted ==
  /\ IsFiniteSet(LiveRows)
  /\ Cardinality(Outstanding) <= maxOutstanding
  /\ \A c \in Creators : tx[c].pc = "inserted" => Cardinality(Outstanding) < maxOutstanding

IInv ==
  /\ TypeOK
  /\ \A x \in Requests : tx[x].start <= now /\ HoldsOK(x)
  /\ Apart
  /\ \A c \in Creators : CreatorOK(c)
  /\ \A x \in Exchanges : ExchangeOK(x)
  /\ OneCreates /\ UsedOnce
  /\ Counted

LEMMA Types ==
  ASSUME IInv
  PROVE  /\ maxOutstanding \in Limits /\ maxOutstanding \in Nat /\ now \in Nat /\ now <= MaxTime
         /\ row \in [Tickets -> {"none", "fresh", "live"}]
         /\ expires \in [Tickets -> Nat]
         /\ tx \in [Requests -> TxType]
         /\ \A x \in Requests : tx[x] \in TxType /\ tx[x].start \in Nat
         /\ MaxTime \in Nat /\ TTL \in Nat
         /\ Creators \cap Exchanges = {} /\ Creators \cup Exchanges = Requests /\ Tickets = Creators
  BY WebSessionsAssumption DEF IInv, TypeOK, TxType, Requests, Tickets

LEMMA Fewer ==
  ASSUME NEW S, NEW T, IsFiniteSet(T), S \subseteq T
  PROVE  /\ IsFiniteSet(S) /\ Cardinality(S) \in Nat /\ Cardinality(T) \in Nat
         /\ Cardinality(S) <= Cardinality(T)
  BY FS_Subset, FS_CardinalityType

LEMMA OutstandingFinite ==
  ASSUME IInv
  PROVE  IsFiniteSet(Outstanding) /\ Cardinality(Outstanding) \in Nat
  <1>1. Outstanding \subseteq LiveRows /\ IsFiniteSet(LiveRows)
    BY DEF IInv, Counted, Outstanding, LiveRows
  <1> QED BY <1>1, Fewer

LEMMA InitInv == Init => IInv
  <1> SUFFICES ASSUME Init PROVE IInv
    OBVIOUS
  <1>1. LiveRows = {} /\ Outstanding = {}
    BY DEF Init, LiveRows, Outstanding
  <1>2. Counted
    <2>1. maxOutstanding \in Nat /\ \A c \in Creators : tx[c].pc # "inserted"
      BY WebSessionsAssumption DEF Init, Requests
    <2> QED BY <1>1, <2>1, FS_EmptySet DEF Counted
  <1>3. TypeOK
    BY WebSessionsAssumption DEF Init, TypeOK
  <1> QED BY <1>2, <1>3 DEF Init, IInv, HoldsOK, Apart, CreatorOK, ExchangeOK, OneCreates, UsedOnce, Used,
                            Locking, Requests, Tickets

-----------------------------------------------------------------------------
(* A transaction that changes no row others see takes a step to p.         *)
LEMMA TxStepKeeps ==
  ASSUME IInv, NEW x \in Requests, NEW p \in TxType,
         tx' = [tx EXCEPT ![x] = p], UNCHANGED <<now, row, expires, maxOutstanding>>,
         p.start <= now,
         \A t \in p.holds : /\ row[t] = "live" /\ p.pc \in Open
                            /\ t \in tx[x].holds \/ Unlocked(x, t)
                            /\ \/ expires[t] <= p.start
                               \/ x \in Exchanges /\ p.pc = "deleted" /\ t = p.ticket,
         x \in Creators =>
           /\ p.pc \in {"begun", "locked", "cleaned", "refused", "failed"}
           /\ tx[x].pc \notin {"inserted", "done"}
           /\ p.pc \in Locking => tx[x].pc \in Locking \/ LockFree(x),
         x \in Exchanges =>
           /\ p.pc \notin {"locked", "inserted"}
           /\ p.ticket \in Tickets /\ tx[p.ticket].pc = "done"
           /\ p.pc = "deleted" => p.ticket \in p.holds
           /\ p.pc \in {"consumed", "done"} =>
                row[p.ticket] = "none" /\ tx[x].pc = "consumed" /\ p.ticket = tx[x].ticket
  PROVE  IInv'
  <1>1. /\ tx \in [Requests -> TxType] /\ tx' \in [Requests -> TxType]
        /\ tx'[x] = p /\ \A y \in Requests \ {x} : tx'[y] = tx[y]
        /\ Creators \cap Exchanges = {} /\ Creators \cup Exchanges = Requests /\ Tickets = Creators
    BY Types
  <1>2. TypeOK'
    BY <1>1 DEF IInv, TypeOK, TxType
  <1>3. \A y \in Requests : (tx[y].start <= now /\ HoldsOK(y))'
    <2> TAKE y \in Requests
    <2>1. tx[y].start <= now /\ HoldsOK(y)
      BY DEF IInv
    <2>2. CASE y = x
      BY <1>1, <2>2 DEF HoldsOK
    <2>3. CASE y # x
      BY <1>1, <2>1, <2>3 DEF HoldsOK
    <2> QED BY <2>2, <2>3
  <1>4. Apart'
    <2>1. \A y \in Requests \ {x} : p.holds \cap tx[y].holds = {}
      BY <1>1 DEF IInv, Apart, Unlocked, HeldBy
    <2> QED BY <1>1, <2>1 DEF IInv, Apart
  <1>5. \A c \in Creators : CreatorOK(c)'
    <2> TAKE c \in Creators
    <2>1. CreatorOK(c)
      BY DEF IInv
    <2>2. CASE c = x
      BY <1>1, <2>1, <2>2 DEF CreatorOK
    <2>3. CASE c # x
      BY <1>1, <2>1, <2>3 DEF CreatorOK
    <2> QED BY <2>2, <2>3
  <1>6. \A t \in Tickets : tx[t].pc = "done" => tx'[t].pc = "done"
    BY <1>1
  <1>7. \A y \in Exchanges : ExchangeOK(y)'
    <2> TAKE y \in Exchanges
    <2>1. ExchangeOK(y)
      BY DEF IInv
    <2>2. CASE y = x
      BY <1>1, <1>6, <2>2 DEF ExchangeOK
    <2>3. CASE y # x
      BY <1>1, <1>6, <2>1, <2>3 DEF ExchangeOK
    <2> QED BY <2>2, <2>3
  <1>8. OneCreates'
    <2>1. \A d \in Creators \ {x} : x \in Creators /\ p.pc \in Locking => tx[d].pc \notin Locking
      BY DEF IInv, OneCreates, LockFree, Locking, Open
    <2> QED BY <1>1, <2>1 DEF IInv, OneCreates
  <1>9. UsedOnce'
    <2>1. \A y \in Exchanges : Used(y)' => Used(y) /\ tx'[y].ticket = tx[y].ticket
      BY <1>1 DEF Used
    <2> QED BY <2>1 DEF IInv, UsedOnce
  <1>10. Counted'
    <2>1. LiveRows' = LiveRows /\ Outstanding' = Outstanding
      BY DEF LiveRows, Outstanding, Tickets
    <2>2. \A c \in Creators : tx'[c].pc = "inserted" => tx[c].pc = "inserted"
      BY <1>1
    <2> QED BY <2>1, <2>2 DEF IInv, Counted
  <1> QED BY <1>2, <1>3, <1>4, <1>5, <1>7, <1>8, <1>9, <1>10 DEF IInv

LEMMA BeginKeeps ==
  ASSUME IInv, NEW x \in Requests, Begin(x), UNCHANGED maxOutstanding
  PROVE  IInv'
  <1>1. PICK t \in Tickets :
          /\ x \in Exchanges => tx[t].pc = "done"
          /\ tx' = [tx EXCEPT ![x] = [pc |-> "begun", start |-> now, holds |-> {}, ticket |-> t]]
    BY DEF Begin
  <1> DEFINE p == [pc |-> "begun", start |-> now, holds |-> {}, ticket |-> t]
  <1>2. p \in TxType /\ p.pc = "begun" /\ p.start = now /\ p.holds = {} /\ p.ticket = t
    BY Types DEF TxType, Open
  <1>3. tx' = [tx EXCEPT ![x] = p] /\ tx[x].pc = "idle" /\ UNCHANGED <<now, row, expires>>
    BY <1>1 DEF Begin
  <1> HIDE DEF p
  <1>4. p.start <= now /\ (x \in Creators => x \notin Exchanges) /\ UNCHANGED maxOutstanding
    BY <1>2, Types
  <1> QED BY <1>1, <1>2, <1>3, <1>4, TxStepKeeps DEF Locking

LEMMA LockKeeps ==
  ASSUME IInv, NEW c \in Creators, AcquireCreateLock(c), UNCHANGED maxOutstanding
  PROVE  IInv'
  <1> DEFINE p == [tx[c] EXCEPT !.pc = "locked"]
  <1>1. c \in Requests /\ c \notin Exchanges /\ tx[c] \in TxType /\ tx[c].start <= now /\ HoldsOK(c)
    BY Types DEF IInv, Requests
  <1>2. /\ p \in TxType /\ p.pc = "locked" /\ p.pc \in Open /\ p.start = tx[c].start
        /\ p.holds = tx[c].holds
    BY <1>1 DEF TxType, Open
  <1>3. /\ tx' = [tx EXCEPT ![c] = p] /\ tx[c].pc = "begun" /\ LockFree(c)
        /\ UNCHANGED <<now, row, expires>>
    BY <1>1, Types DEF AcquireCreateLock
  <1> HIDE DEF p
  <1>4. \A t \in p.holds : row[t] = "live" /\ expires[t] <= p.start
    BY <1>1, <1>2 DEF HoldsOK
  <1> QED BY <1>1, <1>2, <1>3, <1>4, TxStepKeeps

LEMMA CleanupKeeps ==
  ASSUME IInv, NEW x \in Requests, (\E t \in Tickets : CleanupRow(x, t)) \/ CleanupEnds(x),
         UNCHANGED maxOutstanding
  PROVE  IInv'
  <1>1. /\ tx[x] \in TxType /\ tx[x].start <= now /\ HoldsOK(x) /\ tx \in [Requests -> TxType]
        /\ x \in Exchanges => ExchangeOK(x) /\ x \notin Creators
        /\ Cleaning(x) /\ UNCHANGED <<now, row, expires>>
    BY Types DEF IInv, CleanupRow, CleanupEnds
  <1>2. tx[x].pc = IF x \in Creators THEN "locked" ELSE "begun"
    BY <1>1 DEF Cleaning
  <1>3. ASSUME NEW t \in Tickets, CleanupRow(x, t)
        PROVE  IInv'
    <2> DEFINE p == [tx[x] EXCEPT !.holds = @ \cup {t}]
    <2>1. /\ p \in TxType /\ p.pc = tx[x].pc /\ p.start = tx[x].start /\ p.ticket = tx[x].ticket
          /\ p.holds = tx[x].holds \cup {t}
      BY <1>1 DEF TxType
    <2>2. /\ tx' = [tx EXCEPT ![x] = p] /\ row[t] = "live" /\ expires[t] <= tx[x].start
          /\ Unlocked(x, t)
      BY <1>1, <1>3 DEF CleanupRow, Expired, Visible, OutOfDate
    <2> HIDE DEF p
    <2>3. p.pc \in Open /\ p.pc \notin {"inserted", "done", "deleted", "consumed", "idle"}
      BY <1>2, <2>1 DEF Open
    <2>4. \A u \in p.holds : /\ row[u] = "live" /\ expires[u] <= p.start
                             /\ u \in tx[x].holds \/ Unlocked(x, u)
      BY <1>1, <2>1, <2>2, <2>3 DEF HoldsOK
    <2> QED BY <1>1, <1>2, <2>1, <2>2, <2>3, <2>4, TxStepKeeps DEF ExchangeOK, Locking
  <1>4. CASE CleanupEnds(x)
    <2> DEFINE p == [tx[x] EXCEPT !.pc = "cleaned"]
    <2>1. /\ p \in TxType /\ p.pc = "cleaned" /\ p.start = tx[x].start /\ p.ticket = tx[x].ticket
          /\ p.holds = tx[x].holds /\ p.pc \in Open
      BY <1>1 DEF TxType, Open
    <2>2. tx' = [tx EXCEPT ![x] = p]
      BY <1>1, <1>4 DEF CleanupEnds
    <2> HIDE DEF p
    <2>3. \A u \in p.holds : row[u] = "live" /\ expires[u] <= p.start
      BY <1>1, <1>2, <2>1 DEF HoldsOK
    <2> QED BY <1>1, <1>2, <2>1, <2>2, <2>3, TxStepKeeps DEF ExchangeOK, Locking
  <1> QED BY <1>3, <1>4

-----------------------------------------------------------------------------
(* The insertion: what the transaction counts with the clock of its start, *)
(* minus what it has deleted, contains all that is outstanding now.        *)
LEMMA CreateKeeps ==
  ASSUME IInv, NEW c \in Creators, CreateTicket(c), UNCHANGED maxOutstanding
  PROVE  IInv'
  <1>1. /\ c \in Requests /\ c \notin Exchanges /\ tx[c] \in TxType /\ tx[c].start <= now /\ HoldsOK(c)
        /\ tx \in [Requests -> TxType] /\ CreatorOK(c) /\ tx[c].pc = "cleaned"
        /\ row \in [Tickets -> {"none", "fresh", "live"}] /\ expires \in [Tickets -> Nat]
        /\ c \in Tickets /\ now' = now /\ now \in Nat /\ TTL \in Nat /\ tx[c].start \in Nat
        /\ maxOutstanding \in Nat
    BY Types DEF IInv, CreateTicket
  <1>2. CASE Cardinality(Active(c)) >= maxOutstanding
    <2> DEFINE p == [tx[c] EXCEPT !.pc = "refused", !.holds = {}]
    <2>1. p \in TxType /\ p.pc = "refused" /\ p.start = tx[c].start /\ p.holds = {}
      BY <1>1 DEF TxType
    <2>2. tx' = [tx EXCEPT ![c] = p] /\ UNCHANGED <<now, row, expires>>
      BY <1>1, <1>2 DEF CreateTicket, Ends
    <2> HIDE DEF p
    <2> QED BY <1>1, <2>1, <2>2, TxStepKeeps DEF Locking
  <1>3. CASE ~(Cardinality(Active(c)) >= maxOutstanding)
    <2> DEFINE p == [tx[c] EXCEPT !.pc = "inserted"]
    <2>1. /\ p \in TxType /\ p.pc = "inserted" /\ p.start = tx[c].start /\ p.holds = tx[c].holds
          /\ p.pc \in Open
      BY <1>1 DEF TxType, Open
    <2>2. /\ tx' = [tx EXCEPT ![c] = p] /\ row' = [row EXCEPT ![c] = "fresh"]
          /\ expires' = [expires EXCEPT ![c] = now + TTL]
      BY <1>1, <1>3 DEF CreateTicket, ExpiresAt
    <2> HIDE DEF p
    <2>3. /\ tx' \in [Requests -> TxType] /\ tx'[c] = p /\ \A y \in Requests \ {c} : tx'[y] = tx[y]
          /\ row[c] = "none" /\ row'[c] = "fresh"
          /\ row' \in [Tickets -> {"none", "fresh", "live"}]
          /\ \A t \in Tickets \ {c} : row'[t] = row[t] /\ expires'[t] = expires[t]
          /\ Creators \cap Exchanges = {} /\ Creators \cup Exchanges = Requests /\ Tickets = Creators
      BY <1>1, <2>1, <2>2, Types DEF CreatorOK
    <2>4. TypeOK'
      <3>1. now + TTL \in 0 .. (MaxTime + TTL)
        BY Types
      <3> QED BY <2>2, <2>3, <3>1 DEF IInv, TypeOK, TxType, CreateTicket
    <2>5. \A y \in Requests : \A t \in tx[y].holds : t # c /\ t \in Tickets
      BY <1>1, <2>3, Types DEF IInv, HoldsOK, TxType
    <2>6. \A y \in Requests : (tx[y].start <= now /\ HoldsOK(y))'
      <3> TAKE y \in Requests
      <3>1. tx[y].start <= now /\ HoldsOK(y)
        BY DEF IInv
      <3>2. CASE y = c
        BY <1>1, <2>1, <2>3, <2>5, <3>2 DEF HoldsOK
      <3>3. CASE y # c
        BY <1>1, <2>3, <2>5, <3>1, <3>3 DEF HoldsOK
      <3> QED BY <3>2, <3>3
    <2>7. Apart'
      BY <2>1, <2>3 DEF IInv, Apart
    <2>8. \A d \in Creators : CreatorOK(d)'
      BY <2>1, <2>3 DEF IInv, CreatorOK
    <2>9. \A y \in Exchanges : ExchangeOK(y)'
      <3> TAKE y \in Exchanges
      <3>1. ExchangeOK(y) /\ y \in Requests /\ y # c /\ tx'[y] = tx[y]
        BY <2>3 DEF IInv
      <3>2. tx[y].pc # "idle" => tx[y].ticket # c
        BY <1>1, <3>1 DEF ExchangeOK
      <3> QED BY <2>3, <3>1, <3>2 DEF ExchangeOK
    <2>10. OneCreates'
      BY <1>1, <2>1, <2>3 DEF IInv, OneCreates, Locking
    <2>11. UsedOnce'
      BY <2>3 DEF IInv, UsedOnce, Used
    <2>12. Counted'
      <3>1. LiveRows' = LiveRows /\ Outstanding' = Outstanding
        BY <1>1, <2>3 DEF LiveRows, Outstanding
      <3>2. Outstanding \subseteq Active(c) /\ Active(c) \subseteq LiveRows
        <4>1. Active(c) \subseteq LiveRows
          BY DEF Active, LiveRows, Visible
        <4>2. ASSUME NEW t \in Outstanding PROVE t \in Active(c)
          <5>1. t \in Tickets /\ row[t] = "live" /\ expires[t] > now /\ expires[t] \in Nat
            BY <1>1 DEF Outstanding
          <5>2. t \notin tx[c].holds
            BY <1>1, <5>1 DEF HoldsOK
          <5> QED BY <1>1, <5>1, <5>2 DEF Active, Visible, OutOfDate
        <4> QED BY <4>1, <4>2
      <3>3. IsFiniteSet(LiveRows) /\ IsFiniteSet(Active(c))
        BY <3>2, Fewer DEF IInv, Counted
      <3>4. Cardinality(Outstanding) <= Cardinality(Active(c))
            /\ Cardinality(Outstanding) \in Nat /\ Cardinality(Active(c)) \in Nat
        BY <3>2, <3>3, Fewer
      <3>5. Cardinality(Outstanding) < maxOutstanding
        BY <1>1, <1>3, <3>4
      <3> QED BY <1>1, <3>1, <3>3, <3>4, <3>5 DEF Counted
    <2> QED BY <2>4, <2>6, <2>7, <2>8, <2>9, <2>10, <2>11, <2>12 DEF IInv
  <1> QED BY <1>2, <1>3

LEMMA ConsumeKeeps ==
  ASSUME IInv, NEW x \in Exchanges, ConsumeTicket(x), UNCHANGED maxOutstanding
  PROVE  IInv'
  <1> DEFINE t == tx[x].ticket
  <1>1. /\ x \in Requests /\ x \notin Creators /\ tx[x] \in TxType /\ tx[x].start <= now /\ HoldsOK(x)
        /\ tx \in [Requests -> TxType] /\ ExchangeOK(x) /\ tx[x].pc = "cleaned"
        /\ UNCHANGED <<now, row, expires>>
    BY Types DEF IInv, ConsumeTicket
  <1>2. t \in Tickets /\ tx[t].pc = "done"
    BY <1>1 DEF ExchangeOK
  <1>3. CASE Ends(x, "refused")
    <2> DEFINE p == [tx[x] EXCEPT !.pc = "refused", !.holds = {}]
    <2>1. p \in TxType /\ p.pc = "refused" /\ p.start = tx[x].start /\ p.holds = {} /\ p.ticket = t
      BY <1>1 DEF TxType
    <2>2. tx' = [tx EXCEPT ![x] = p]
      BY <1>1, <1>3 DEF Ends
    <2> HIDE DEF p
    <2> QED BY <1>1, <1>2, <2>1, <2>2, TxStepKeeps
  <1>4. CASE /\ Matches(x, t) /\ RowFree(x, t)
             /\ tx' = [tx EXCEPT ![x].pc = "deleted", ![x].holds = @ \cup {t}]
    <2> DEFINE p == [tx[x] EXCEPT !.pc = "deleted", !.holds = @ \cup {t}]
    <2>1. /\ p \in TxType /\ p.pc = "deleted" /\ p.start = tx[x].start /\ p.ticket = t
          /\ p.holds = tx[x].holds \cup {t} /\ p.pc \in Open
      BY <1>1, <1>2 DEF TxType, Open
    <2>2. tx' = [tx EXCEPT ![x] = p]
      BY <1>1, <1>4
    <2>3. row[t] = "live" /\ Unlocked(x, t)
      BY <1>4 DEF Matches, Visible, RowFree
    <2> HIDE DEF p
    <2>4. \A u \in p.holds : /\ row[u] = "live"
                             /\ u \in tx[x].holds \/ Unlocked(x, u)
                             /\ expires[u] <= p.start \/ u = p.ticket
      BY <1>1, <2>1, <2>3 DEF HoldsOK
    <2> QED BY <1>1, <1>2, <2>1, <2>2, <2>4, TxStepKeeps
  <1> QED BY <1>3, <1>4 DEF ConsumeTicket

LEMMA IssueKeeps ==
  ASSUME IInv, NEW x \in Requests, IssueSession(x), UNCHANGED maxOutstanding
  PROVE  IInv'
  <1> DEFINE p == [tx[x] EXCEPT !.pc = "done", !.holds = {}]
  <1>1. /\ x \in Exchanges /\ x \notin Creators /\ tx[x] \in TxType /\ tx[x].start <= now
        /\ tx \in [Requests -> TxType] /\ ExchangeOK(x) /\ tx[x].pc = "consumed"
        /\ UNCHANGED <<now, row, expires>>
    BY Types DEF IInv, IssueSession, CreatorOK
  <1>2. /\ p \in TxType /\ p.pc = "done" /\ p.start = tx[x].start /\ p.holds = {}
        /\ p.ticket = tx[x].ticket
    BY <1>1 DEF TxType
  <1>3. tx' = [tx EXCEPT ![x] = p]
    BY <1>1 DEF IssueSession, Ends
  <1> HIDE DEF p
  <1> QED BY <1>1, <1>2, <1>3, TxStepKeeps DEF ExchangeOK

-----------------------------------------------------------------------------
(* A transaction with an inserted or a deleted ticket ends: its own ticket *)
(* is there or not, and the rows it gives up were locked by it.            *)
Ending(x, p, gone) ==
  /\ tx[x].pc \in {"inserted", "deleted"}
  /\ p.start = tx[x].start /\ p.ticket = tx[x].ticket /\ p.holds = {}
  /\ x \in Creators => p.pc \in {"done", "failed"}
  /\ x \in Exchanges => p.pc = "consumed" /\ gone = tx[x].holds
  /\ gone \subseteq tx[x].holds
  /\ tx' = [tx EXCEPT ![x] = p]
  /\ row' \in [Tickets -> {"none", "fresh", "live"}]
  /\ \A t \in Tickets : row'[t] = IF t = x THEN IF p.pc = "done" THEN "live" ELSE "none"
                                   ELSE IF t \in gone THEN "none" ELSE row[t]
  /\ UNCHANGED <<now, expires, maxOutstanding>>

LEMMA EndKeeps ==
  ASSUME IInv, NEW x \in Requests, NEW p \in TxType, NEW gone, Ending(x, p, gone)
  PROVE  IInv'
  <1> USE DEF Ending
  <1>1. /\ tx \in [Requests -> TxType] /\ tx' \in [Requests -> TxType]
        /\ tx'[x] = p /\ \A y \in Requests \ {x} : tx'[y] = tx[y]
        /\ Creators \cap Exchanges = {} /\ Creators \cup Exchanges = Requests /\ Tickets = Creators
        /\ row \in [Tickets -> {"none", "fresh", "live"}]
        /\ row' \in [Tickets -> {"none", "fresh", "live"}]
        /\ \A t \in Tickets : row'[t] = IF t = x THEN IF p.pc = "done" THEN "live" ELSE "none"
                                         ELSE IF t \in gone THEN "none" ELSE row[t]
        /\ expires \in [Tickets -> Nat] /\ now \in Nat /\ maxOutstanding \in Nat
    BY Types
  <1>2. /\ x \in Creators => tx[x].pc = "inserted" /\ row[x] = "fresh" /\ x \in Tickets
        /\ x \in Exchanges => tx[x].pc = "deleted" /\ x \notin Tickets /\ tx[x].ticket \in gone
    BY <1>1 DEF IInv, CreatorOK, ExchangeOK
  <1>3. \A t \in gone : t \in Tickets /\ row[t] = "live" /\ tx[t].pc = "done" /\ t # x
    BY <1>1, <1>2 DEF IInv, HoldsOK, CreatorOK, TxType
  <1>4. TypeOK'
    BY <1>1 DEF IInv, TypeOK, TxType
  <1>5. \A y \in Requests : (tx[y].start <= now /\ HoldsOK(y))'
    <2> TAKE y \in Requests
    <2>1. tx[y].start <= now /\ HoldsOK(y)
      BY DEF IInv
    <2>2. CASE y = x
      BY <1>1, <2>1, <2>2 DEF HoldsOK
    <2>3. CASE y # x
      <3>1. \A t \in tx[y].holds : t \in Tickets /\ t # x /\ t \notin gone
        BY <1>1, <1>2, <2>1, <2>3 DEF IInv, Apart, HoldsOK, TxType
      <3> QED BY <1>1, <2>1, <2>3, <3>1 DEF HoldsOK
    <2> QED BY <2>2, <2>3
  <1>6. Apart'
    BY <1>1 DEF IInv, Apart
  <1>7. \A c \in Creators : CreatorOK(c)'
    <2> TAKE c \in Creators
    <2>1. CreatorOK(c) /\ c \in Tickets /\ c \in Requests
      BY <1>1 DEF IInv
    <2>2. CASE c = x
      BY <1>1, <2>1, <2>2 DEF CreatorOK
    <2>3. CASE c # x /\ c \in gone
      BY <1>1, <1>3, <2>1, <2>3 DEF CreatorOK
    <2>4. CASE c # x /\ c \notin gone
      BY <1>1, <2>1, <2>4 DEF CreatorOK
    <2> QED BY <2>2, <2>3, <2>4
  <1>8. \A t \in Tickets : tx[t].pc = "done" => tx'[t].pc = "done" /\ t # x
    BY <1>1, <1>2
  <1>9. \A y \in Exchanges : ExchangeOK(y)'
    <2> TAKE y \in Exchanges
    <2>1. ExchangeOK(y) /\ y \in Requests
      BY <1>1 DEF IInv
    <2>2. CASE y = x
      BY <1>1, <1>2, <1>3, <1>8, <2>1, <2>2 DEF ExchangeOK
    <2>3. CASE y # x
      BY <1>1, <1>3, <1>8, <2>1, <2>3 DEF ExchangeOK
    <2> QED BY <2>2, <2>3
  <1>10. OneCreates'
    BY <1>1 DEF IInv, OneCreates, Locking
  <1>11. UsedOnce'
    <2>1. \A y \in Exchanges : Used(y) => tx[y].ticket \notin gone
      BY <1>3 DEF IInv, ExchangeOK, Used
    <2>2. \A y \in Exchanges \ {x} : (Used(y)' <=> Used(y)) /\ tx'[y].ticket = tx[y].ticket
      BY <1>1 DEF Used
    <2>3. x \in Exchanges => tx'[x].ticket \in gone
      BY <1>1, <1>2
    <2> QED BY <2>1, <2>2, <2>3 DEF IInv, UsedOnce
  <1>12. Counted'
    <2>1. IsFiniteSet(LiveRows) /\ IsFiniteSet(Outstanding) /\ Cardinality(Outstanding) \in Nat
      BY OutstandingFinite DEF IInv, Counted
    <2>2. CASE x \in Creators
      <3>1. LiveRows' \subseteq LiveRows \cup {x} /\ Outstanding' \subseteq Outstanding \cup {x}
        BY <1>1 DEF LiveRows, Outstanding
      <3>2. /\ IsFiniteSet(LiveRows \cup {x}) /\ IsFiniteSet(Outstanding \cup {x})
            /\ Cardinality(Outstanding \cup {x}) <= Cardinality(Outstanding) + 1
        <4>1. IsFiniteSet(LiveRows \cup {x})
          BY <2>1, FS_AddElement
        <4>2. /\ IsFiniteSet(Outstanding \cup {x})
              /\ Cardinality(Outstanding \cup {x}) =
                   IF x \in Outstanding THEN Cardinality(Outstanding) ELSE Cardinality(Outstanding) + 1
          BY <2>1, FS_AddElement
        <4> QED BY <2>1, <4>1, <4>2
      <3>3. /\ IsFiniteSet(LiveRows') /\ Cardinality(Outstanding') \in Nat
            /\ Cardinality(Outstanding \cup {x}) \in Nat
            /\ Cardinality(Outstanding') <= Cardinality(Outstanding \cup {x})
        BY <3>1, <3>2, Fewer
      <3>4. Cardinality(Outstanding) < maxOutstanding
        BY <1>2, <2>2 DEF IInv, Counted
      <3>5. \A c \in Creators : tx'[c].pc # "inserted"
        BY <1>1, <1>2, <2>2 DEF IInv, OneCreates, Locking
      <3> QED BY <1>1, <2>1, <3>2, <3>3, <3>4, <3>5 DEF Counted
    <2>3. CASE x \in Exchanges
      <3>1. LiveRows' \subseteq LiveRows /\ Outstanding' \subseteq Outstanding
        BY <1>1, <1>2, <2>3 DEF LiveRows, Outstanding
      <3>2. /\ IsFiniteSet(LiveRows') /\ Cardinality(Outstanding') \in Nat
            /\ Cardinality(Outstanding') <= Cardinality(Outstanding)
        BY <2>1, <3>1, Fewer
      <3>3. \A c \in Creators : tx'[c].pc = tx[c].pc
        BY <1>1, <2>3
      <3> QED BY <1>1, <2>1, <3>2, <3>3 DEF IInv, Counted
    <2> QED BY <1>1, <2>2, <2>3
  <1> QED BY <1>4, <1>5, <1>6, <1>7, <1>9, <1>10, <1>11, <1>12 DEF IInv

LEMMA CommitKeeps ==
  ASSUME IInv, NEW x \in Requests, Commit(x), UNCHANGED maxOutstanding
  PROVE  IInv'
  <1> DEFINE pc == IF x \in Creators THEN "done" ELSE "consumed"
             p == [tx[x] EXCEPT !.pc = pc, !.holds = {}]
  <1>1. /\ tx[x] \in TxType /\ tx \in [Requests -> TxType] /\ tx[x].pc \in {"inserted", "deleted"}
        /\ Creators \cap Exchanges = {} /\ Creators \cup Exchanges = Requests /\ Tickets = Creators
    BY Types DEF Commit
  <1>2. x \in Creators => row[x] = "fresh" /\ x \notin tx[x].holds
    BY <1>1 DEF IInv, CreatorOK, HoldsOK
  <1>3. tx' = [tx EXCEPT ![x] = p] /\ UNCHANGED <<now, expires, maxOutstanding>>
    BY <1>1 DEF Commit, Ends
  <1>4. pc \in {"done", "consumed"} /\ (x \in Creators => pc = "done")
        /\ (x \in Exchanges => pc = "consumed")
    BY <1>1
  <1>5. /\ row' \in [Tickets -> {"none", "fresh", "live"}]
        /\ \A t \in Tickets : row'[t] = IF t = x THEN IF pc = "done" THEN "live" ELSE "none"
                                         ELSE IF t \in tx[x].holds THEN "none" ELSE row[t]
    BY <1>1, <1>2, Types DEF Commit, HeldBy
  <1> HIDE DEF pc
  <1>6. /\ p \in TxType /\ p.pc = pc /\ p.start = tx[x].start /\ p.holds = {}
        /\ p.ticket = tx[x].ticket
    BY <1>1, <1>4 DEF TxType
  <1> HIDE DEF p
  <1>7. Ending(x, p, tx[x].holds)
    BY <1>1, <1>3, <1>4, <1>5, <1>6 DEF Ending
  <1> QED BY <1>6, <1>7, EndKeeps

LEMMA RollbackKeeps ==
  ASSUME IInv, NEW x \in Requests, tx[x].pc \in Open, Rollback(x), UNCHANGED maxOutstanding
  PROVE  IInv'
  <1> DEFINE p == [tx[x] EXCEPT !.pc = "failed", !.holds = {}]
  <1>1. /\ tx[x] \in TxType /\ tx \in [Requests -> TxType] /\ tx[x].start <= now
        /\ Creators \cap Exchanges = {} /\ Creators \cup Exchanges = Requests /\ Tickets = Creators
        /\ row \in [Tickets -> {"none", "fresh", "live"}]
    BY Types DEF IInv
  <1>2. /\ p \in TxType /\ p.pc = "failed" /\ p.start = tx[x].start /\ p.holds = {}
        /\ p.ticket = tx[x].ticket
    BY <1>1 DEF TxType
  <1>3. tx' = [tx EXCEPT ![x] = p] /\ UNCHANGED <<now, expires, maxOutstanding>>
    BY <1>1 DEF Rollback, Ends
  <1> HIDE DEF p
  <1>4. CASE x \in Creators /\ tx[x].pc = "inserted"
    <2>1. row[x] = "fresh"
      BY <1>4 DEF IInv, CreatorOK
    <2>2. /\ row' \in [Tickets -> {"none", "fresh", "live"}]
          /\ \A t \in Tickets : row'[t] = IF t = x THEN "none" ELSE row[t]
      BY <1>1, <2>1 DEF Rollback
    <2>3. p.pc # "done" /\ x \notin Exchanges /\ {} \subseteq tx[x].holds
      BY <1>1, <1>2, <1>4
    <2>4. Ending(x, p, {})
      BY <1>2, <1>3, <1>4, <2>2, <2>3 DEF Ending
    <2> QED BY <1>2, <2>4, EndKeeps
  <1>5. CASE ~(x \in Creators /\ tx[x].pc = "inserted")
    <2>1. x \in Tickets => row[x] # "fresh"
      BY <1>1, <1>5 DEF IInv, CreatorOK
    <2>2. row' = row
      BY <1>1, <2>1 DEF Rollback
    <2>3. x \in Exchanges => tx[x].ticket \in Tickets /\ tx[tx[x].ticket].pc = "done"
      BY DEF IInv, ExchangeOK, Open
    <2>4. x \in Creators => tx[x].pc \notin {"inserted", "done"}
      BY <1>5 DEF Open
    <2> QED BY <1>1, <1>2, <1>3, <2>2, <2>3, <2>4, TxStepKeeps DEF Locking
  <1> QED BY <1>4, <1>5

(* PostgreSQL breaks a deadlock among transactions that are open.          *)
LEMMA VictimIsOpen ==
  ASSUME IInv, NEW x \in Requests, DeadlockVictim(x)
  PROVE  tx[x].pc \in Open
  <1>1. PICK z \in Requests : WaitsFor(x, z)
    BY DEF DeadlockVictim
  <1> QED BY <1>1 DEF WaitsFor, Cleaning, Open

(* A restart ends every transaction and forgets what was not committed.    *)
LEMMA RestartKeeps ==
  ASSUME IInv, ApiRestart, UNCHANGED maxOutstanding
  PROVE  IInv'
  <1> DEFINE Ended(x) == tx[x].pc \in Open \cup {"consumed"}
  <1>1. /\ tx \in [Requests -> TxType] /\ UNCHANGED <<now, expires, maxOutstanding>>
        /\ Creators \cap Exchanges = {} /\ Creators \cup Exchanges = Requests /\ Tickets = Creators
        /\ row \in [Tickets -> {"none", "fresh", "live"}]
    BY Types DEF ApiRestart
  <1>2. /\ row' \in [Tickets -> {"none", "fresh", "live"}]
        /\ \A t \in Tickets : row'[t] = IF row[t] = "fresh" THEN "none" ELSE row[t]
    BY <1>1 DEF ApiRestart
  <1>3. tx' = [x \in Requests |-> IF Ended(x) THEN [tx[x] EXCEPT !.pc = "failed", !.holds = {}]
                                  ELSE tx[x]]
    BY DEF ApiRestart
  <1>4. \A x \in Requests :
          /\ tx'[x] \in TxType
          /\ tx'[x].start = tx[x].start /\ tx'[x].ticket = tx[x].ticket
          /\ Ended(x) => tx'[x].pc = "failed" /\ tx'[x].holds = {}
          /\ ~Ended(x) => tx'[x] = tx[x]
    <2> TAKE x \in Requests
    <2>1. tx[x] \in TxType
      BY <1>1
    <2>2. CASE Ended(x)
      <3>1. tx'[x] = [tx[x] EXCEPT !.pc = "failed", !.holds = {}]
        BY <1>3, <2>2
      <3> QED BY <2>1, <2>2, <3>1 DEF TxType
    <2>3. CASE ~Ended(x)
      BY <1>3, <2>1, <2>3
    <2> QED BY <2>2, <2>3
  <1>5. \A x \in Requests : tx'[x].holds = {}
    <2> TAKE x \in Requests
    <2>1. ~Ended(x) => tx[x].holds = {}
      BY <1>1 DEF IInv, HoldsOK, TxType
    <2> QED BY <1>4, <2>1
  <1>6. tx' \in [Requests -> TxType]
    BY <1>3, <1>4
  <1>7. TypeOK'
    BY <1>1, <1>2, <1>6 DEF IInv, TypeOK, TxType
  <1>8. \A x \in Requests : (tx[x].start <= now /\ HoldsOK(x))'
    BY <1>1, <1>4, <1>5 DEF IInv, HoldsOK
  <1>9. Apart'
    BY <1>5 DEF Apart
  <1>10. \A c \in Creators : CreatorOK(c)'
    <2> TAKE c \in Creators
    <2>1. CreatorOK(c) /\ c \in Requests /\ c \in Tickets
      BY <1>1 DEF IInv
    <2> QED BY <1>2, <1>4, <2>1 DEF CreatorOK, Open
  <1>11. \A x \in Exchanges : ExchangeOK(x)'
    <2> TAKE x \in Exchanges
    <2>1. ExchangeOK(x) /\ x \in Requests
      BY <1>1 DEF IInv
    <2>2. \A t \in Tickets : tx[t].pc = "done" => tx'[t].pc = "done"
      BY <1>1, <1>4 DEF Open
    <2>3. CASE Ended(x)
      BY <1>4, <2>1, <2>2, <2>3 DEF ExchangeOK, Open
    <2>4. CASE ~Ended(x)
      BY <1>2, <1>4, <2>1, <2>2, <2>4 DEF ExchangeOK, Open
    <2> QED BY <2>3, <2>4
  <1>12. \A c \in Requests : tx'[c].pc \notin Locking
    BY <1>4 DEF Locking, Open
  <1>13. OneCreates'
    BY <1>1, <1>12 DEF OneCreates
  <1>14. UsedOnce'
    <2>1. \A x \in Exchanges : Used(x)' => Used(x)
      BY <1>1, <1>4 DEF Used
    <2> QED BY <1>1, <1>4, <2>1 DEF IInv, UsedOnce
  <1>15. Counted'
    <2>1. LiveRows' = LiveRows /\ Outstanding' = Outstanding
      BY <1>1, <1>2 DEF LiveRows, Outstanding
    <2> QED BY <1>1, <1>12, <2>1 DEF IInv, Counted, Locking
  <1> QED BY <1>7, <1>8, <1>9, <1>10, <1>11, <1>13, <1>14, <1>15 DEF IInv

LEMMA TickKeeps ==
  ASSUME IInv, Tick, UNCHANGED maxOutstanding
  PROVE  IInv'
  <1>1. /\ now \in Nat /\ now < MaxTime /\ now' = now + 1 /\ MaxTime \in Nat
        /\ expires \in [Tickets -> Nat] /\ maxOutstanding \in Nat
        /\ \A x \in Requests : tx[x].start \in Nat
        /\ UNCHANGED <<row, expires, tx, maxOutstanding>>
    BY Types DEF Tick
  <1>2. TypeOK'
    BY <1>1 DEF IInv, TypeOK
  <1>3. \A x \in Requests : (tx[x].start <= now /\ HoldsOK(x))'
    BY <1>1 DEF IInv, HoldsOK
  <1>4. /\ Apart' /\ OneCreates' /\ UsedOnce'
        /\ \A c \in Creators : CreatorOK(c)'
        /\ \A x \in Exchanges : ExchangeOK(x)'
    BY <1>1 DEF IInv, Apart, OneCreates, UsedOnce, Used, CreatorOK, ExchangeOK
  <1>5. Counted'
    <2>1. LiveRows' = LiveRows /\ Outstanding' \subseteq Outstanding
      BY <1>1 DEF LiveRows, Outstanding
    <2>2. /\ Cardinality(Outstanding') \in Nat /\ Cardinality(Outstanding) \in Nat
          /\ Cardinality(Outstanding') <= Cardinality(Outstanding)
      BY <2>1, OutstandingFinite, Fewer
    <2> QED BY <1>1, <2>1, <2>2 DEF IInv, Counted
  <1> QED BY <1>2, <1>3, <1>4, <1>5 DEF IInv

-----------------------------------------------------------------------------
(* Whatever requests, deadlocks, failures and restarts do, the invariant   *)
(* of tickets and transactions holds.                                      *)
THEOREM Invariance == Spec => []IInv
  <1>1. IInv /\ Next => IInv'
    <2> SUFFICES ASSUME IInv, Next PROVE IInv'
      OBVIOUS
    <2>1. UNCHANGED maxOutstanding /\ (\A c \in Creators : c \in Requests)
          /\ (\A x \in Exchanges : x \in Requests)
      BY DEF Next, Requests
    <2>2. ASSUME NEW x \in Requests, Begin(x) PROVE IInv'
      BY <2>1, <2>2, BeginKeeps
    <2>3. ASSUME NEW x \in Requests, Step(x) PROVE IInv'
      <3>1. CASE (\E t \in Tickets : CleanupRow(x, t)) \/ CleanupEnds(x)
        BY <2>1, <3>1, CleanupKeeps
      <3>2. CASE x \in Creators /\ CreateTicket(x)
        BY <2>1, <3>2, CreateKeeps
      <3>3. CASE x \in Exchanges /\ ConsumeTicket(x)
        BY <2>1, <3>3, ConsumeKeeps
      <3>4. CASE Commit(x)
        BY <2>1, <3>4, CommitKeeps
      <3>5. CASE IssueSession(x)
        BY <2>1, <3>5, IssueKeeps
      <3>6. CASE DeadlockVictim(x)
        BY <2>1, <3>6, VictimIsOpen, RollbackKeeps DEF DeadlockVictim
      <3> QED BY <2>3, <3>1, <3>2, <3>3, <3>4, <3>5, <3>6 DEF Step
    <2>4. ASSUME NEW x \in Requests, Abort(x) PROVE IInv'
      BY <2>1, <2>4, RollbackKeeps DEF Abort
    <2>5. ASSUME NEW c \in Creators, AcquireCreateLock(c) PROVE IInv'
      BY <2>1, <2>5, LockKeeps
    <2>6. CASE ApiRestart
      BY <2>1, <2>6, RestartKeeps
    <2>7. CASE Tick
      BY <2>1, <2>7, TickKeeps
    <2> QED BY <2>2, <2>3, <2>4, <2>5, <2>6, <2>7 DEF Next
  <1>2. IInv /\ UNCHANGED vars => IInv'
    BY DEF vars, IInv, TypeOK, HoldsOK, Apart, CreatorOK, ExchangeOK, OneCreates, UsedOnce, Used,
           Counted, LiveRows, Outstanding
  <1> QED BY <1>1, <1>2, InitInv, PTL DEF Spec

(* maxOutstanding holds at every moment, although each request counts with *)
(* the clock of its own start.                                             *)
THEOREM LimitHolds == Spec => []OutstandingBounded
  <1>1. IInv => OutstandingBounded
    BY DEF IInv, Counted, Outstanding, OutstandingBounded
  <1> QED BY <1>1, Invariance, PTL

(* A ticket gives at most one session, however its exchanges race.         *)
THEOREM TicketsWorkOnce == Spec => []TicketUsedOnce
  <1>1. IInv => TicketUsedOnce
    <2> SUFFICES ASSUME IInv, NEW t \in Tickets
                 PROVE  Cardinality({x \in Exchanges : tx[x].ticket = t
                                       /\ tx[x].pc \in {"consumed", "done"}}) <= 1
      BY DEF TicketUsedOnce
    <2> DEFINE S == {x \in Exchanges : tx[x].ticket = t /\ tx[x].pc \in {"consumed", "done"}}
    <2>1. \A x, y \in S : x = y
      BY DEF IInv, UsedOnce, Used
    <2> HIDE DEF S
    <2>2. CASE S = {}
      <3>1. Cardinality(S) = 0
        BY <2>2, FS_EmptySet
      <3> QED BY <3>1 DEF S
    <2>3. CASE S # {}
      <3> PICK x \in S : S = {x}
        BY <2>1, <2>3
      <3>1. Cardinality(S) = 1
        BY FS_Singleton
      <3> QED BY <3>1 DEF S
    <2> QED BY <2>2, <2>3
  <1> QED BY <1>1, Invariance, PTL

(* A failed or restarted request takes no ticket with it.                  *)
THEOREM FailuresKeepTickets == Spec => TicketsSurvive
  <1> DEFINE A == \A t \in Tickets : row[t] = "live" /\ row'[t] # "live" =>
                    \/ expires[t] <= now
                    \/ \E x \in Exchanges : tx[x].ticket = t /\ tx'[x].pc = "consumed"
  <1>1. IInv /\ Next => A
    <2> SUFFICES ASSUME IInv, Next, NEW t \in Tickets, row[t] = "live", row'[t] # "live"
                 PROVE  \/ expires[t] <= now
                        \/ \E x \in Exchanges : tx[x].ticket = t /\ tx'[x].pc = "consumed"
      OBVIOUS
    <2>1. PICK x \in Requests : Commit(x)
      <3>1. row' # row
        OBVIOUS
      <3>2. ASSUME NEW y \in Requests, Rollback(y) PROVE FALSE
        BY <3>2 DEF Rollback
      <3>3. ASSUME NEW c \in Creators, CreateTicket(c) PROVE FALSE
        <4>1. CreatorOK(c) /\ row \in [Tickets -> {"none", "fresh", "live"}]
          BY Types DEF IInv
        <4> QED BY <3>1, <3>3, <4>1 DEF CreateTicket, CreatorOK
      <3>4. ~ApiRestart
        BY DEF ApiRestart
      <3> QED BY <3>1, <3>2, <3>3, <3>4 DEF Next, Step, Begin, Abort, AcquireCreateLock, CleanupRow,
                 CleanupEnds, ConsumeTicket, IssueSession, DeadlockVictim, Tick
    <2>2. /\ HoldsOK(x) /\ tx[x].start <= now /\ tx[x].start \in Nat /\ now \in Nat
          /\ expires[t] \in Nat /\ tx \in [Requests -> TxType] /\ tx[x] \in TxType
          /\ Creators \cap Exchanges = {}
      BY Types DEF IInv
    <2>3. t \in tx[x].holds
      BY <2>1 DEF Commit, HeldBy
    <2>4. CASE expires[t] <= tx[x].start
      BY <2>2, <2>4
    <2>5. CASE x \in Exchanges /\ t = tx[x].ticket
      <3>1. x \notin Creators
        BY <2>2, <2>5
      <3>2. tx' = [tx EXCEPT ![x].pc = "consumed", ![x].holds = {}]
        BY <2>1, <3>1 DEF Commit, Ends
      <3>3. tx'[x].pc = "consumed"
        BY <2>2, <3>2 DEF TxType
      <3> QED BY <2>5, <3>3
    <2> QED BY <2>2, <2>3, <2>4, <2>5 DEF HoldsOK
  <1>2. IInv /\ [Next]_vars => [A]_vars
    BY <1>1
  <1> QED BY <1>2, Invariance, PTL DEF Spec, TicketsSurvive
=============================================================================
