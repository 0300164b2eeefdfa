----------------------------- MODULE WalProofs -----------------------------
(***************************************************************************)
(* What the write-ahead log keeps, for every number of threads, keys and    *)
(* record lengths and every size of the ring.                              *)
(***************************************************************************)
EXTENDS Wal, WellFoundedInduction, TLAPS

-----------------------------------------------------------------------------
(* The inductive invariant.                                                *)

Labels == {"idle", "append", "payload", "advance", "apply"}

TypeOK ==
    /\ ring \subseteq Records /\ write_pos \in 0 .. Ring /\ wal_seq \in Nat /\ wal_lock \in BOOLEAN
    /\ mem \in [Keys -> Nat] /\ pc \in [Threads -> Labels]
    /\ \A t \in Threads : pc[t] # "idle" => rec[t] \in Records
    /\ rec \in [Threads -> Records \cup {NoRecord}]
    /\ calls \in Nat /\ crashes \in Nat /\ acked \subseteq Nat

Writing(t) == pc[t] \in {"payload", "advance"}
Past(t)    == pc[t] \in {"payload", "advance", "apply"}

\* At most one thread appends, and it holds the lock; e is where its record
\* ends, or where the next one goes, and up to e only its record may be torn.
WriterOK(e) ==
    /\ ~wal_lock => write_pos = e /\ \A t \in Threads : ~Writing(t)
    /\ wal_lock => wal_seq > 0
    /\ \A t, u \in Threads : Writing(t) /\ Writing(u) => t = u
    /\ \A t \in Threads : Writing(t) => rec[t].pos + rec[t].len = e /\ rec[t].seq = wal_seq - 1
    /\ \A t \in Threads : pc[t] = "payload" => rec[t] \in ring
    /\ \A r \in ring : r.pos < e /\ ~r.ok => \E t \in Threads : pc[t] = "payload" /\ rec[t] = r

\* The records of the current lap, numbered from s on, fill the ring up to e.
LapOK(e, s) ==
    /\ s <= wal_seq /\ (s = wal_seq => e = 0 /\ s = 0)
    /\ \A q \in s .. wal_seq - 1 : \E r \in ring : r.pos < e /\ r.seq = q
    /\ \A r \in ring : r.pos < e =>
         /\ r.pos + r.len <= e /\ s <= r.seq /\ r.seq < wal_seq
         /\ r.seq = wal_seq - 1 => r.pos + r.len = e
         /\ r.seq = s => r.pos = 0
         /\ r.seq # s => \E x \in ring : x.pos < e /\ x.seq = r.seq - 1 /\ x.pos + x.len = r.pos

\* The calls that are past the log are numbered below the one that is in it.
Settled(q) == q < wal_seq /\ (wal_lock => q < wal_seq - 1)

CallsOK ==
    /\ \A q \in acked : Settled(q)
    /\ \A t \in Threads : pc[t] = "apply" => Settled(rec[t].seq)

\* Without a restart, what is left of earlier laps is older, and the numbers
\* tell the records apart.
OrderOK(e, s) ==
    /\ \A r \in ring : r.seq < wal_seq /\ (e <= r.pos => r.seq < s)
    /\ \A r, x \in ring : r.seq = x.seq => r = x
    /\ \A r, x \in ring : r.pos < e /\ x.pos < e /\ r.pos < x.pos => r.seq < x.seq

LogOK(e, s) == WriterOK(e) /\ LapOK(e, s) /\ (crashes = 0 => OrderOK(e, s))

LogInv == \E e \in 0 .. Ring, s \in Nat : LogOK(e, s)

\* Every record of this process is still in the ring.
Complete == \A q \in 0 .. wal_seq - 1 : \E r \in ring : r.seq = q

Effect(r) == IF r.op = "SET" THEN r.id ELSE 0

IsLast(r, k) == r.key = k /\ \A x \in ring : x.key = k => x.seq <= r.seq

Agrees(k) ==
    \/ \E r \in ring : IsLast(r, k) /\ mem[k] = Effect(r)
    \/ (\A r \in ring : r.key # k) /\ mem[k] = 0

\* Two calls of one key overlap.
MetOK ==
    \A t, u \in Threads :
        t # u /\ pc[t] # "idle" /\ pc[u] # "idle" /\ rec[t].key = rec[u].key => t \in met

\* A record and the call that appended it.
SameCall(r, x) == r.key = x.key /\ r.op = x.op /\ r.id = x.id

ShardOK ==
    /\ \A t \in Threads : Past(t) => \A x \in ring : x.seq = rec[t].seq => SameCall(x, rec[t])
    /\ \A t \in Threads : Past(t) /\ t \notin met => \A x \in ring : x.key = rec[t].key => x.seq <= rec[t].seq
    /\ \A k \in Keys \ apart : (\A t \in Threads : Past(t) => rec[t].key # k) => Agrees(k)

WalInv ==
    TypeOK /\ LogInv /\ CallsOK /\ MetOK /\ RotationOrder /\ (crashes = 0 /\ Complete => ShardOK)

-----------------------------------------------------------------------------
(* Types and positions.                                                    *)

\* A set of naturals that is not empty has a least member.
LEMMA LeastNumber ==
    ASSUME NEW T, T \subseteq Nat, T # {}
    PROVE  \E x \in T : \A y \in T : x <= y
<1> DEFINE R == OpToRel(<, Nat)
<1>1. IsWellFoundedOn(R, Nat)
  BY NatLessThanWellFounded, Zenon
<1> HIDE DEF R
<1>2. PICK x \in T : \A y \in T : ~ (<<y, x>> \in R)
  BY <1>1, WFMin, Zenon
<1>3. ASSUME NEW y \in T, y < x PROVE FALSE
  <2>1. <<y, x>> \in R
    BY <1>3 DEF R, OpToRel
  <2>2. QED
    BY <1>2, <2>1, Zenon
<1>4. QED
  BY <1>3

\* A record goes to the end of the last one or, if it does not fit, to 0.
LEMMA PositionIs ==
    ASSUME write_pos \in 0 .. Ring, NEW len \in 1 .. Ring
    PROVE  \/ Position(len) = 0
           \/ Position(len) = write_pos /\ write_pos + len <= Ring
<1> USE RingAssumption
<1>1. CASE write_pos = Ring
  BY <1>1 DEF Position
<1>2. CASE write_pos < Ring
  <2>1. write_pos % Ring = write_pos
    BY <1>2
  <2>2. QED
    BY <2>1 DEF Position
<1>3. QED
  BY <1>1, <1>2

\* What append_header puts into the ring.
LEMMA NewRecord ==
    ASSUME TypeOK, NEW t \in Threads, append_header(t)
    PROVE  \E r \in Records :
              /\ r.len = rec[t].len /\ r.seq = wal_seq /\ SameCall(r, rec[t])
              /\ r.pos = Position(r.len)
              /\ rec'[t] = r /\ \A u \in Threads : u # t => rec'[u] = rec[u]
              /\ ring' = Overwrite(r.pos, r.len) \cup {r}
<1> USE DEF TypeOK
<1> DEFINE r == [rec[t] EXCEPT !.pos = Position(rec[t].len), !.seq = wal_seq]
<1>1. rec[t] \in Records
  BY Zenon DEF append_header
<1>2. rec[t].len \in 1 .. Ring
  BY <1>1, RingAssumption, Zenon DEF Records
<1>3. Position(rec[t].len) \in 0 .. Ring - 1
  BY <1>2, PositionIs, RingAssumption
<1>4. r \in Records
  BY <1>1, <1>3, Zenon DEF Records
<1>5. r.len = rec[t].len /\ r.seq = wal_seq /\ SameCall(r, rec[t]) /\ r.pos = Position(rec[t].len)
  BY <1>1 DEF Records, SameCall
<1>6. rec' = [rec EXCEPT ![t] = r] /\ ring' = Overwrite(r.pos, r.len) \cup {r}
  BY Zenon DEF append_header
<1> HIDE DEF r
<1>7. rec'[t] = r /\ \A u \in Threads : u # t => rec'[u] = rec[u]
  BY <1>6, Zenon
<1>8. QED
  BY <1>4, <1>5, <1>6, <1>7, Zenon


\* The variables keep their types.
LEMMA TypeStart == Init => TypeOK
<1> SUFFICES ASSUME Init PROVE TypeOK
  OBVIOUS
<1>1. 0 \in 0 .. Ring /\ 0 \in Nat
  BY RingAssumption
<1>2. QED
  BY <1>1, Zenon DEF Init, TypeOK, Labels

\* The variables keep their types.
LEMMA TypeNext == TypeOK /\ LogInv /\ [Next]_vars => TypeOK'
<1> SUFFICES ASSUME TypeOK, LogInv, [Next]_vars PROVE TypeOK'
  OBVIOUS
<1> USE DEF TypeOK, Labels
<1>1. ASSUME NEW t \in Threads, NEW op \in {"SET", "DEL"}, NEW k \in Keys, NEW len \in Lengths,
             vc_call(t, op, k, len)
      PROVE  TypeOK'
  <2>1. PICK r : r = [pos |-> 0, len |-> len, seq |-> 0, op |-> op, key |-> k,
                      id |-> calls + 1, ok |-> FALSE]
    BY Zenon
  <2>2. r \in Records
    BY <1>1, <2>1, RingAssumption, WalBounds DEF vc_call, Records
  <2>3. rec' = [rec EXCEPT ![t] = r] /\ pc' = [pc EXCEPT ![t] = "append"]
    BY <1>1, <2>1, Zenon DEF vc_call, Goto
  <2>4. calls' \in Nat
    BY <1>1 DEF vc_call
  <2>5. rec' \in [Threads -> Records \cup {NoRecord}] /\ pc' \in [Threads -> Labels]
    BY <2>2, <2>3, Zenon
  <2>6. \A u \in Threads : pc'[u] # "idle" => rec'[u] \in Records
    BY <2>2, <2>3, Zenon
  <2>7. QED
    BY <1>1, <2>4, <2>5, <2>6, Zenon DEF vc_call, log
<1>2. ASSUME NEW t \in Threads, append_header(t) PROVE TypeOK'
  <2>1. PICK r \in Records : /\ rec'[t] = r /\ \A u \in Threads : u # t => rec'[u] = rec[u]
                             /\ ring' = Overwrite(r.pos, r.len) \cup {r}
    BY <1>2, NewRecord, Zenon
  <2>2. rec' \in [Threads -> Records \cup {NoRecord}]
    <3>1. PICK x : rec' = [rec EXCEPT ![t] = x]
      BY <1>2, Zenon DEF append_header
    <3>2. x = r
      BY <2>1, <3>1, Zenon
    <3>3. QED
      BY <3>1, <3>2, Zenon
  <2>3. ring' \subseteq Records
    BY <2>1, Zenon DEF Overwrite
  <2>4. pc' = [pc EXCEPT ![t] = "payload"] /\ pc[t] # "idle"
    BY <1>2, Zenon DEF append_header, Goto
  <2>5. \A u \in Threads : pc'[u] # "idle" => rec'[u] \in Records
    BY <2>1, <2>4, Zenon
  <2>6. wal_seq' \in Nat
    BY <1>2 DEF append_header
  <2>7. QED
    BY <1>2, <2>2, <2>3, <2>4, <2>5, <2>6, Zenon DEF append_header
<1>3. ASSUME NEW t \in Threads, append_payload(t) PROVE TypeOK'
  <2>1. rec[t] \in Records
    BY <1>3, Zenon DEF append_payload
  <2>2. [rec[t] EXCEPT !.ok = TRUE] \in Records
    BY <2>1, Zenon DEF Records
  <2>3. ring' \subseteq Records
    BY <1>3, <2>2, Zenon DEF append_payload
  <2>4. QED
    BY <1>3, <2>1, <2>3, Zenon DEF append_payload, Goto
<1>4. ASSUME NEW t \in Threads, append_advance(t) PROVE TypeOK'
  <2>1. rec[t] \in Records
    BY <1>4, Zenon DEF append_advance
  <2>2. rec[t].pos + rec[t].len \in 0 .. Ring
    BY <1>4, Zenon DEF append_advance, Writing, LogInv, LogOK, WriterOK
  <2>3. QED
    BY <1>4, <2>1, <2>2, Zenon DEF append_advance, Goto
<1>5. ASSUME NEW t \in Threads, apply(t) \/ set_oom(t) PROVE TypeOK'
  <2>1. rec[t] \in Records
    BY <1>5, Zenon DEF apply, set_oom
  <2>2. rec[t].id \in Nat /\ rec[t].key \in Keys /\ rec[t].seq \in Nat
    BY <2>1 DEF Records
  <2>3. mem' \in [Keys -> Nat] /\ acked' \subseteq Nat
    <3>1. CASE apply(t)
      <4>1. (IF rec[t].op = "SET" THEN rec[t].id ELSE 0) \in Nat
        BY <2>2
      <4>2. QED
        BY <2>2, <3>1, <4>1, Zenon DEF apply
    <3>2. CASE set_oom(t)
      BY <3>2, Zenon DEF set_oom
    <3>3. QED
      BY <1>5, <3>1, <3>2, Zenon
  <2>4. QED
    BY <1>5, <2>3, Zenon DEF apply, set_oom, Return, Goto, log
<1>6. ASSUME NEW k \in Keys, lose(k) PROVE TypeOK'
  <2>1. mem' \in [Keys -> Nat]
    BY <1>6 DEF lose
  <2>2. QED
    BY <1>6, <2>1, Zenon DEF lose, log
<1>7. CASE restart
  <2>1. mem' \in [Keys -> Nat] /\ write_pos' \in 0 .. Ring /\ wal_seq' \in Nat /\ crashes' \in Nat
    BY <1>7, RingAssumption DEF restart
  <2>2. QED
    BY <1>7, <2>1, Zenon DEF restart
<1>8. CASE UNCHANGED vars
  BY <1>8, Zenon DEF vars, log
<1>9. QED
  BY <1>1, <1>2, <1>3, <1>4, <1>5, <1>6, <1>7, <1>8, Zenon DEF Next, Finished


-----------------------------------------------------------------------------
(* A record enters the ring.                                               *)

\* What the fields of a record are.
LEMMA Fields ==
    ASSUME NEW r \in Records
    PROVE  /\ r.pos \in Nat /\ r.len \in Nat /\ r.len > 0 /\ r.len <= Ring /\ r.seq \in Nat
           /\ r.ok \in BOOLEAN /\ r.key \in Keys
<1>1. r.len \in Lengths /\ r.pos \in 0 .. Ring - 1 /\ r.seq \in Nat /\ r.ok \in BOOLEAN /\ r.key \in Keys
  BY Zenon DEF Records
<1>2. r.len \in 1 .. Ring
  BY <1>1, RingAssumption, Zenon
<1>3. Ring \in Nat
  BY RingAssumption, Zenon
<1>4. r.pos \in Nat /\ r.len \in Nat /\ r.len > 0 /\ r.len <= Ring
  BY <1>1, <1>2, <1>3
<1>5. QED
  BY <1>1, <1>4, Zenon

\* The new record follows the last one of the lap.
LEMMA LapGoesOn ==
    ASSUME ring \subseteq Records, wal_seq \in Nat, NEW e \in Nat, NEW s \in Nat, LapOK(e, s),
           NEW r \in Records, r.seq = wal_seq, r.pos = e, e # 0,
           ring' = Overwrite(r.pos, r.len) \cup {r}, wal_seq' = wal_seq + 1
    PROVE  LapOK(e + r.len, s)' /\ \A x \in ring' : x.pos < e + r.len => x = r \/ (x \in ring /\ x.pos < e)
<1>1. \A x \in ring \cup {r} : x.pos \in Nat /\ x.len \in Nat /\ x.len > 0 /\ x.seq \in Nat
  BY Fields, Zenon
<1>2. ASSUME NEW x \in ring, x.pos < e PROVE x \in ring' /\ x.pos < e + r.len
  <2>1. x.pos + x.len <= r.pos
    BY <1>2, Zenon DEF LapOK
  <2>2. x.pos < e + r.len
    BY <1>1, <1>2
  <2>3. QED
    BY <2>1, <2>2, Zenon DEF Overwrite
<1>3. ASSUME NEW x \in ring', x.pos < e + r.len, x # r PROVE x \in ring /\ x.pos < e
  <2>1. x \in ring /\ (x.pos + x.len <= e \/ e + r.len <= x.pos)
    BY <1>3, Zenon DEF Overwrite
  <2>2. QED
    BY <1>1, <1>3, <2>1
<1>4. r \in ring' /\ r.pos < e + r.len
  <2>1. e < e + r.len
    BY <1>1
  <2>2. QED
    BY <2>1, Zenon
<1>5. s < wal_seq
  <2>1. s <= wal_seq /\ s # wal_seq
    BY Zenon DEF LapOK
  <2>2. QED
    BY <2>1
<1>6. PICK l \in ring : l.pos < e /\ l.seq = wal_seq - 1
  <2>1. wal_seq - 1 \in s .. wal_seq - 1
    BY <1>5
  <2>2. QED
    BY <2>1, Zenon DEF LapOK
<1>7. l.pos + l.len = r.pos /\ l.seq = r.seq - 1
  BY <1>6, Zenon DEF LapOK
<1>8. s <= wal_seq' /\ s # wal_seq' /\ wal_seq' - 1 = wal_seq
  BY <1>5
<1>9. ASSUME NEW q \in s .. wal_seq' - 1 PROVE \E x \in ring' : x.pos < e + r.len /\ x.seq = q
  <2>1. CASE q = wal_seq
    BY <1>4, <2>1, Zenon
  <2>2. CASE q # wal_seq
    <3>1. q \in s .. wal_seq - 1
      BY <1>8, <2>2
    <3>2. PICK x \in ring : x.pos < e /\ x.seq = q
      BY <3>1, Zenon DEF LapOK
    <3>3. QED
      BY <1>2, <3>2, Zenon
  <2>3. QED
    BY <2>1, <2>2, Zenon
<1> DEFINE Good(x) ==
      /\ x.pos + x.len <= e + r.len /\ s <= x.seq /\ x.seq < wal_seq'
      /\ x.seq = wal_seq => x.pos + x.len = e + r.len
      /\ x.seq = s => x.pos = 0
      /\ x.seq # s => \E y \in ring' : y.pos < e + r.len /\ y.seq = x.seq - 1 /\ y.pos + y.len = x.pos
<1>10. Good(r)
  <2>1. r.pos + r.len <= e + r.len /\ s <= r.seq /\ r.seq < wal_seq' /\ r.seq # s
    BY <1>1, <1>5
  <2>2. l \in ring' /\ l.pos < e + r.len
    BY <1>2, <1>6, Zenon
  <2>3. QED
    BY <1>7, <2>1, <2>2, Zenon
<1>11. ASSUME NEW x \in ring, x.pos < e PROVE Good(x)
  <2>1. x.pos + x.len <= e /\ s <= x.seq /\ x.seq < wal_seq
    BY <1>11, Zenon DEF LapOK
  <2>2. x.pos + x.len <= e + r.len /\ x.seq < wal_seq' /\ x.seq # wal_seq
    BY <1>1, <2>1
  <2>3. x.seq = s => x.pos = 0
    BY <1>11, Zenon DEF LapOK
  <2>4. ASSUME x.seq # s
        PROVE  \E y \in ring' : y.pos < e + r.len /\ y.seq = x.seq - 1 /\ y.pos + y.len = x.pos
    <3>1. PICK y \in ring : y.pos < e /\ y.seq = x.seq - 1 /\ y.pos + y.len = x.pos
      BY <1>11, <2>4, Zenon DEF LapOK
    <3>2. QED
      BY <1>2, <3>1, Zenon
  <2>5. QED
    BY <2>1, <2>2, <2>3, <2>4, Zenon
<1>12. ASSUME NEW x \in ring', x.pos < e + r.len PROVE Good(x)
  BY <1>3, <1>10, <1>11, <1>12, Zenon
<1> HIDE DEF Good
<1>13. ASSUME NEW x \in ring', x.pos < e + r.len
       PROVE  /\ x.pos + x.len <= e + r.len /\ s <= x.seq /\ x.seq < wal_seq'
              /\ x.seq = wal_seq' - 1 => x.pos + x.len = e + r.len
              /\ x.seq = s => x.pos = 0
              /\ x.seq # s => \E y \in ring' : y.pos < e + r.len /\ y.seq = x.seq - 1 /\ y.pos + y.len = x.pos
  BY <1>8, <1>12, <1>13, Zenon DEF Good
<1>14. QED
  BY <1>3, <1>8, <1>9, <1>13, Zenon DEF LapOK

\* A record at position 0 starts a lap.
LEMMA LapStarts ==
    ASSUME ring \subseteq Records, NEW q \in Nat, wal_seq = q,
           NEW r \in Records, r.seq = q, r.pos = 0,
           ring' = Overwrite(r.pos, r.len) \cup {r}, wal_seq' = q + 1
    PROVE  LapOK(r.len, q)' /\ \A x \in ring' : x.pos < r.len => x = r
<1>1. \A x \in ring \cup {r} : x.pos \in Nat /\ x.len \in Nat /\ x.len > 0 /\ x.seq \in Nat
  BY Fields, Zenon
<1>2. ASSUME NEW x \in ring', x.pos < r.len PROVE x = r
  <2>1. x = r \/ (x \in ring /\ (x.pos + x.len <= 0 \/ 0 + r.len <= x.pos))
    BY <1>2, Zenon DEF Overwrite
  <2>2. QED
    BY <1>1, <1>2, <2>1
<1>3. r \in ring' /\ r.pos < r.len /\ r.pos + r.len = r.len
  <2>1. 0 < r.len /\ 0 + r.len = r.len
    BY <1>1
  <2>2. QED
    BY <2>1, Zenon
<1>4. q <= wal_seq' /\ q # wal_seq' /\ wal_seq' - 1 = q /\ q < wal_seq' /\ r.len <= r.len /\ q <= q
  BY <1>1
<1>5. \A p \in q .. wal_seq' - 1 : p = q
  BY <1>4
<1>6. QED
  BY <1>2, <1>3, <1>4, <1>5, Zenon DEF LapOK


\* The newest record keeps the laps apart if those before it are its lap.
LEMMA RotationStep ==
    ASSUME ring \subseteq Records, crashes = 0, RotationOrder, NEW r \in Records,
           \A x \in ring' : x = r \/ (x \in ring /\ x.seq < r.seq),
           \A x, y \in ring' : x # r /\ y # r /\ x.pos <= r.pos =>
               IF y.pos <= r.pos THEN x.pos < y.pos => x.seq < y.seq ELSE y.seq < x.seq
    PROVE  RotationOrder'
<1>1. \A x \in ring' : x \in Records
  BY Zenon
<1>2. \A x \in ring' : x.pos \in Nat /\ x.seq \in Nat
  BY <1>1, Fields, Zenon
<1> SUFFICES ASSUME NEW a \in ring', NEW x \in ring', a.pos < x.pos, a.seq > x.seq, NEW y \in ring'
             PROVE  IF y.pos <= a.pos THEN y.seq > x.seq ELSE y.pos >= x.pos => y.seq < a.seq
  BY Zenon DEF RotationOrder
<1>3. r.pos \in Nat /\ r.seq \in Nat
  BY Fields, Zenon
<1>4. x # r
  BY <1>2, <1>3
<1>5. CASE a = r
  <2>1. CASE y = r
    BY <1>2, <1>3, <1>5, <2>1
  <2>2. CASE y # r
    <3>1. y.pos <= r.pos => IF x.pos <= r.pos THEN y.pos < x.pos => y.seq < x.seq ELSE x.seq < y.seq
      BY <1>4, <2>2, Zenon
    <3>2. y.seq < r.seq
      BY <2>2, Zenon
    <3>3. QED
      BY <1>2, <1>3, <1>5, <3>1, <3>2
  <2>3. QED
    BY <2>1, <2>2, Zenon
<1>6. CASE a # r /\ y = r
  <2>1. a.pos <= r.pos /\ x.pos <= r.pos => (a.pos < x.pos => a.seq < x.seq)
    BY <1>4, <1>6, Zenon
  <2>2. x.seq < r.seq
    BY <1>4, Zenon
  <2>3. QED
    BY <1>2, <1>3, <1>6, <2>1, <2>2
<1>7. CASE a # r /\ y # r
  BY <1>4, <1>7, Zenon DEF RotationOrder
<1>8. QED
  BY <1>5, <1>6, <1>7, Zenon

\* The numbers of the records after a record that goes on the lap.
LEMMA OrderGoesOn ==
    ASSUME ring \subseteq Records, NEW e \in Nat, NEW s \in Nat, OrderOK(e, s), LapOK(e, s),
           NEW r \in Records, wal_seq \in Nat, r.seq = wal_seq, r.pos = e,
           ring' = Overwrite(r.pos, r.len) \cup {r}, wal_seq' = wal_seq + 1,
           RotationOrder, crashes = 0
    PROVE  OrderOK(e + r.len, s)' /\ RotationOrder'
<1>1. \A x \in ring \cup {r} : x.pos \in Nat /\ x.len \in Nat /\ x.len > 0 /\ x.seq \in Nat
  BY Fields, Zenon
<1>2. ASSUME NEW x \in ring', x # r
      PROVE  x \in ring /\ x.seq < wal_seq /\ (x.pos < e \/ e + r.len <= x.pos)
  <2>1. x \in ring /\ (x.pos + x.len <= e \/ e + r.len <= x.pos)
    BY <1>2, Zenon DEF Overwrite
  <2>2. x.pos < e \/ e + r.len <= x.pos
    BY <1>1, <2>1
  <2>3. QED
    BY <2>1, <2>2, Zenon DEF OrderOK
<1>3. \A x \in ring' : x.seq < wal_seq' /\ (e + r.len <= x.pos => x.seq < s)
  <2>1. ASSUME NEW x \in ring' PROVE x.seq < wal_seq' /\ (e + r.len <= x.pos => x.seq < s)
    <3>1. CASE x = r
      BY <1>1, <3>1
    <3>2. CASE x # r
      <4>1. x \in ring /\ x.seq < wal_seq /\ (e <= x.pos => x.seq < s)
        BY <1>2, <3>2, Zenon DEF OrderOK
      <4>2. QED
        BY <1>1, <4>1
    <3>3. QED
      BY <3>1, <3>2, Zenon
  <2>2. QED
    BY <2>1, Zenon
<1>4. \A x, y \in ring' : x.seq = y.seq => x = y
  <2>1. \A x \in ring' : x # r => x.seq # r.seq
    BY <1>1, <1>2
  <2>2. QED
    BY <1>2, <2>1, Zenon DEF OrderOK
<1>5. ASSUME NEW x \in ring', NEW y \in ring', x.pos < e + r.len, y.pos < e + r.len, x.pos < y.pos
      PROVE  x.seq < y.seq
  <2>1. CASE x = r
    BY <1>1, <1>2, <1>5, <2>1
  <2>2. CASE x # r /\ y = r
    BY <1>2, <2>2, Zenon
  <2>3. CASE x # r /\ y # r
    <3>1. x \in ring /\ y \in ring /\ x.pos < e /\ y.pos < e
      BY <1>1, <1>2, <1>5, <2>3
    <3>2. QED
      BY <1>5, <3>1, Zenon DEF OrderOK
  <2>4. QED
    BY <2>1, <2>2, <2>3, Zenon
<1>6. OrderOK(e + r.len, s)'
  BY <1>3, <1>4, <1>5, Zenon DEF OrderOK
<1>7. ASSUME NEW x \in ring', NEW y \in ring', x # r, y # r, x.pos <= r.pos
      PROVE  IF y.pos <= r.pos THEN x.pos < y.pos => x.seq < y.seq ELSE y.seq < x.seq
  <2>1. x \in ring /\ y \in ring /\ x.pos < e /\ (y.pos <= e => y.pos < e)
    BY <1>1, <1>2, <1>7
  <2>2. y.pos < e /\ x.pos < y.pos => x.seq < y.seq
    BY <2>1, Zenon DEF OrderOK
  <2>3. s <= x.seq /\ (e <= y.pos => y.seq < s)
    BY <2>1, Zenon DEF OrderOK, LapOK
  <2>4. QED
    BY <1>1, <2>1, <2>2, <2>3
<1>8. RotationOrder'
  BY <1>2, <1>7, RotationStep, Zenon
<1>9. QED
  BY <1>6, <1>8, Zenon

\* The numbers of the records after a record that starts a lap.
LEMMA OrderStarts ==
    ASSUME ring \subseteq Records, NEW e \in Nat, NEW s \in Nat, OrderOK(e, s),
           NEW q \in Nat, wal_seq = q, NEW r \in Records, r.seq = q, r.pos = 0,
           ring' = Overwrite(r.pos, r.len) \cup {r}, wal_seq' = q + 1,
           RotationOrder, crashes = 0
    PROVE  OrderOK(r.len, q)' /\ RotationOrder'
<1>1. \A x \in ring \cup {r} : x.pos \in Nat /\ x.len \in Nat /\ x.len > 0 /\ x.seq \in Nat
  BY Fields, Zenon
<1>2. ASSUME NEW x \in ring', x # r PROVE x \in ring /\ x.seq < q
  BY <1>2, Zenon DEF Overwrite, OrderOK
<1>3. ASSUME NEW x \in ring', x.pos < r.len PROVE x = r
  BY <1>3, LapStarts, Zenon
<1>4. \A x \in ring' : x.seq < wal_seq' /\ (r.len <= x.pos => x.seq < q)
  BY <1>1, <1>2
<1>5. \A x, y \in ring' : x.seq = y.seq => x = y
  <2>1. \A x \in ring' : x # r => x.seq # r.seq
    BY <1>1, <1>2
  <2>2. QED
    BY <1>2, <2>1, Zenon DEF OrderOK
<1>6. \A x, y \in ring' : x.pos < r.len /\ y.pos < r.len /\ x.pos < y.pos => x.seq < y.seq
  BY <1>1, <1>3
<1>7. OrderOK(r.len, q)'
  BY <1>4, <1>5, <1>6, Zenon DEF OrderOK
<1>8. \A x \in ring' : x.pos <= r.pos => x = r
  BY <1>1, <1>2, <1>3
<1>9. RotationOrder'
  BY <1>2, <1>8, RotationStep, Zenon
<1>10. QED
  BY <1>7, <1>9, Zenon


\* append_header: the record goes where the lap ends, or starts a new one.
LEMMA HeaderLog ==
    ASSUME TypeOK, LogInv, RotationOrder, NEW t \in Threads, append_header(t)
    PROVE  LogInv' /\ RotationOrder'
<1> USE DEF TypeOK
<1>1. PICK e \in 0 .. Ring, s \in Nat : LogOK(e, s)
  BY Zenon DEF LogInv
<1>2. PICK r \in Records :
         /\ r.seq = wal_seq /\ r.pos = Position(r.len)
         /\ rec'[t] = r /\ \A u \in Threads : u # t => rec'[u] = rec[u]
         /\ ring' = Overwrite(r.pos, r.len) \cup {r}
  BY NewRecord, Zenon
<1>3. /\ pc[t] = "append" /\ ~wal_lock /\ wal_lock' /\ wal_seq' = wal_seq + 1 /\ crashes' = crashes
      /\ pc' = [pc EXCEPT ![t] = "payload"]
  BY Zenon DEF append_header, Goto
<1>4. write_pos = e /\ \A u \in Threads : ~Writing(u)
  BY <1>1, <1>3, Zenon DEF LogOK, WriterOK
<1>5. r.len \in 1 .. Ring /\ r.pos \in Nat /\ e \in Nat
  BY <1>1, Fields, RingAssumption
<1>6. r.pos = 0 \/ (r.pos = e /\ e # 0 /\ e + r.len <= Ring)
  <2>1. r.pos = 0 \/ (r.pos = write_pos /\ write_pos + r.len <= Ring)
    BY <1>2, <1>5, PositionIs, Zenon
  <2>2. QED
    BY <1>4, <2>1, Zenon
<1>7. ASSUME NEW f, f = r.pos + r.len, \A x \in ring' : x.pos < f => x = r \/ (x \in ring /\ x.pos < e)
      PROVE  WriterOK(f)'
  <2>1. \A u \in Threads : Writing(u)' <=> u = t
    BY <1>3, <1>4, Zenon DEF Writing
  <2>2. wal_seq' > 0 /\ wal_seq' - 1 = wal_seq
    BY <1>3
  <2>3. \A u \in Threads : pc'[u] = "payload" => u = t
    BY <2>1, Zenon DEF Writing
  <2>4. r \in ring'
    BY <1>2, Zenon
  <2>5. \A x \in ring : x.pos < e => x.ok
    BY <1>1, <1>4, Zenon DEF LogOK, WriterOK, Writing
  <2>6. \A x \in ring' : x.pos < f /\ ~x.ok => \E u \in Threads : pc'[u] = "payload" /\ rec'[u] = x
    BY <1>2, <1>3, <1>7, <2>5, Zenon
  <2>7. rec'[t].pos + rec'[t].len = f /\ rec'[t].seq = wal_seq' - 1 /\ rec'[t] \in ring'
    BY <1>2, <1>7, <2>2, <2>4, Zenon
  <2>8. QED
    BY <1>3, <2>1, <2>2, <2>3, <2>6, <2>7, ZenonT(30) DEF WriterOK
<1>8. CASE r.pos = 0
  <2>1. PICK q \in Nat : q = wal_seq
    BY Zenon
  <2>2. r.len \in 0 .. Ring /\ r.pos + r.len = r.len
    BY <1>5, <1>8
  <2>3. LapOK(r.len, q)' /\ \A x \in ring' : x.pos < r.len => x = r
    BY <1>2, <1>3, <1>8, <2>1, LapStarts, Zenon
  <2>4. crashes = 0 => OrderOK(r.len, q)' /\ RotationOrder'
    BY <1>1, <1>2, <1>3, <1>5, <1>8, <2>1, OrderStarts, Zenon DEF LogOK
  <2>5. WriterOK(r.len)'
    BY <1>7, <2>2, <2>3, Zenon
  <2>6. LogOK(r.len, q)'
    BY <1>3, <2>3, <2>4, <2>5, Zenon DEF LogOK
  <2>7. RotationOrder'
    BY <1>3, <2>4, Zenon DEF RotationOrder
  <2>8. QED
    BY <2>2, <2>6, <2>7, Zenon DEF LogInv
<1>9. CASE r.pos = e /\ e # 0 /\ e + r.len <= Ring
  <2>1. LapOK(e, s)
    BY <1>1, Zenon DEF LogOK
  <2>2. PICK f \in 0 .. Ring : f = e + r.len
    <3>1. e + r.len \in 0 .. Ring
      BY <1>5, <1>9
    <3>2. QED
      BY <3>1, Zenon
  <2>3. LapOK(f, s)' /\ \A x \in ring' : x.pos < f => x = r \/ (x \in ring /\ x.pos < e)
    BY <1>2, <1>3, <1>5, <1>9, <2>1, <2>2, LapGoesOn, Zenon
  <2>4. crashes = 0 => OrderOK(f, s)' /\ RotationOrder'
    BY <1>1, <1>2, <1>3, <1>5, <1>9, <2>1, <2>2, OrderGoesOn, Zenon DEF LogOK
  <2>5. WriterOK(f)'
    BY <1>7, <1>9, <2>2, <2>3, Zenon
  <2>6. LogOK(f, s)'
    BY <1>3, <2>3, <2>4, <2>5, Zenon DEF LogOK
  <2>7. RotationOrder'
    BY <1>3, <2>4, Zenon DEF RotationOrder
  <2>8. QED
    BY <2>6, <2>7, Zenon DEF LogInv
<1>10. QED
  BY <1>6, <1>8, <1>9, Zenon

\* Two versions of one record.
Twin(x, y) == x.pos = y.pos /\ x.len = y.len /\ x.seq = y.seq /\ SameCall(x, y)

\* append_payload: the torn record becomes valid and is otherwise the same.
LEMMA PayloadTwins ==
    ASSUME TypeOK, LogInv, NEW t \in Threads, append_payload(t)
    PROVE  /\ \A x \in ring' : \E y \in ring : Twin(x, y)
           /\ \A y \in ring : \E x \in ring' : Twin(x, y)
           /\ \A x, z \in ring' : \A y \in ring : Twin(x, y) /\ Twin(z, y) /\ crashes = 0 => x = z
           /\ \A x \in ring' : x.ok \/ (x \in ring /\ x # rec[t])
<1> USE DEF TypeOK
<1>1. rec[t] \in Records /\ rec[t] \in ring
  BY Zenon DEF append_payload, LogInv, LogOK, WriterOK
<1>2. PICK n : n = [rec[t] EXCEPT !.ok = TRUE]
  BY Zenon
<1>3. n.pos = rec[t].pos /\ n.len = rec[t].len /\ n.seq = rec[t].seq /\ SameCall(n, rec[t]) /\ n.ok
  BY <1>1, <1>2 DEF Records, SameCall
<1>4. ring' = (ring \ {rec[t]}) \cup {n}
  BY <1>2, Zenon DEF append_payload
<1>5. Twin(n, rec[t]) /\ \A x : Twin(x, x)
  BY <1>3, Zenon DEF Twin, SameCall
<1>6. \A x \in ring' : \E y \in ring : Twin(x, y)
  BY <1>1, <1>4, <1>5, Zenon
<1>7. \A y \in ring : \E x \in ring' : Twin(x, y)
  BY <1>4, <1>5, Zenon
<1>8. ASSUME NEW x \in ring', NEW z \in ring', x.seq = z.seq, crashes = 0 PROVE x = z
  <2>1. \A a, b \in ring : a.seq = b.seq => a = b
    BY <1>8, Zenon DEF LogInv, LogOK, OrderOK
  <2>2. \A a \in ring' : a # n => a \in ring /\ a.seq # n.seq
    BY <1>1, <1>3, <1>4, <2>1, Zenon
  <2>3. QED
    BY <1>8, <2>1, <2>2, Zenon
<1>9. ASSUME NEW x \in ring', NEW z \in ring', NEW y \in ring, Twin(x, y), Twin(z, y), crashes = 0
      PROVE  x = z
  BY <1>8, <1>9, Zenon DEF Twin
<1>10. \A x \in ring' : x.ok \/ (x \in ring /\ x # rec[t])
  BY <1>3, <1>4, Zenon
<1>11. QED
  BY <1>6, <1>7, <1>9, <1>10, Zenon

\* append_payload changes no position and no number.
LEMMA PayloadLog ==
    ASSUME TypeOK, LogInv, RotationOrder, NEW t \in Threads, append_payload(t)
    PROVE  LogInv' /\ RotationOrder' /\ (Complete' => Complete)
<1> USE DEF TypeOK
<1>1. /\ \A x \in ring' : \E y \in ring : Twin(x, y)
      /\ \A y \in ring : \E x \in ring' : Twin(x, y)
      /\ \A x, z \in ring' : \A y \in ring : Twin(x, y) /\ Twin(z, y) /\ crashes = 0 => x = z
  BY PayloadTwins, Zenon
<1>2. PICK e \in 0 .. Ring, s \in Nat : LogOK(e, s)
  BY Zenon DEF LogInv
<1>3. /\ pc[t] = "payload" /\ pc' = [pc EXCEPT ![t] = "advance"] /\ write_pos' = write_pos /\ rec' = rec
      /\ wal_seq' = wal_seq /\ wal_lock' = wal_lock /\ crashes' = crashes
  BY Zenon DEF append_payload, Goto
<1>4. WriterOK(e)'
  <2>1. \A u \in Threads : Writing(u)' <=> Writing(u)
    BY <1>3, Zenon DEF Writing
  <2>2. ASSUME NEW u \in Threads, pc'[u] = "payload" PROVE FALSE
    <3>1. u # t /\ pc[u] = "payload"
      BY <1>3, <2>2, Zenon
    <3>2. Writing(t) /\ Writing(u)
      BY <1>3, <3>1, Zenon DEF Writing
    <3>3. QED
      BY <1>2, <3>1, <3>2, Zenon DEF LogOK, WriterOK
  <2>3. ASSUME NEW x \in ring', x.pos < e PROVE x.ok
    <3>1. CASE x \in ring /\ x # rec[t]
      <4>1. ASSUME NEW u \in Threads, pc[u] = "payload" PROVE u = t
        BY <1>3, <2>2, <4>1, Zenon
      <4>2. QED
        BY <1>2, <2>3, <3>1, <4>1, Zenon DEF LogOK, WriterOK
    <3>2. QED
      BY <3>1, PayloadTwins, Zenon
  <2>4. QED
    BY <1>2, <1>3, <2>1, <2>2, <2>3, Zenon DEF LogOK, WriterOK
<1>5. LapOK(e, s)'
  <2>1. LapOK(e, s)
    BY <1>2, Zenon DEF LogOK
  <2>2. ASSUME NEW q \in s .. wal_seq - 1 PROVE \E x \in ring' : x.pos < e /\ x.seq = q
    <3>1. PICK y \in ring : y.pos < e /\ y.seq = q
      BY <2>1, <2>2, Zenon DEF LapOK
    <3>2. QED
      BY <1>1, <3>1, Zenon DEF Twin
  <2>3. ASSUME NEW x \in ring', x.pos < e
        PROVE  /\ x.pos + x.len <= e /\ s <= x.seq /\ x.seq < wal_seq
               /\ x.seq = wal_seq - 1 => x.pos + x.len = e
               /\ x.seq = s => x.pos = 0
               /\ x.seq # s => \E z \in ring' : z.pos < e /\ z.seq = x.seq - 1 /\ z.pos + z.len = x.pos
    <3>1. PICK y \in ring : Twin(x, y)
      BY <1>1, Zenon
    <3>2. ASSUME x.seq # s PROVE \E z \in ring' : z.pos < e /\ z.seq = x.seq - 1 /\ z.pos + z.len = x.pos
      <4>1. PICK v \in ring : v.pos < e /\ v.seq = y.seq - 1 /\ v.pos + v.len = y.pos
        BY <2>1, <2>3, <3>1, <3>2, Zenon DEF LapOK, Twin
      <4>2. PICK z \in ring' : Twin(z, v)
        BY <1>1, Zenon
      <4>3. QED
        BY <3>1, <4>1, <4>2, Zenon DEF Twin
    <3>3. /\ y.pos + y.len <= e /\ s <= y.seq /\ y.seq < wal_seq
          /\ y.seq = wal_seq - 1 => y.pos + y.len = e
          /\ y.seq = s => y.pos = 0
      <4>1. y.pos < e
        BY <2>3, <3>1, Zenon DEF Twin
      <4>2. QED
        BY <2>1, <4>1, Zenon DEF LapOK
    <3>4. QED
      BY <3>1, <3>2, <3>3, Zenon DEF Twin
  <2>4. QED
    BY <1>3, <2>1, <2>2, <2>3, Zenon DEF LapOK
<1>6. ASSUME crashes = 0 PROVE OrderOK(e, s)'
  <2>1. OrderOK(e, s)
    BY <1>2, <1>6, Zenon DEF LogOK
  <2>2. \A x \in ring' : x.seq < wal_seq /\ (e <= x.pos => x.seq < s)
    BY <1>1, <2>1, Zenon DEF OrderOK, Twin
  <2>3. ASSUME NEW x \in ring', NEW z \in ring' PROVE x.seq = z.seq => x = z
    <3>1. PICK y \in ring : Twin(x, y)
      BY <1>1, Zenon
    <3>2. PICK v \in ring : Twin(z, v)
      BY <1>1, Zenon
    <3>3. x.seq = z.seq => y = v
      BY <2>1, <3>1, <3>2, Zenon DEF OrderOK, Twin
    <3>4. QED
      BY <1>1, <1>6, <3>1, <3>2, <3>3, Zenon
  <2>4. ASSUME NEW x \in ring', NEW z \in ring', x.pos < e, z.pos < e, x.pos < z.pos PROVE x.seq < z.seq
    <3>1. PICK y \in ring : Twin(x, y)
      BY <1>1, Zenon
    <3>2. PICK v \in ring : Twin(z, v)
      BY <1>1, Zenon
    <3>3. QED
      BY <2>1, <2>4, <3>1, <3>2, Zenon DEF OrderOK, Twin
  <2>5. QED
    BY <1>3, <2>2, <2>3, <2>4, Zenon DEF OrderOK
<1>7. LogInv'
  BY <1>3, <1>4, <1>5, <1>6, Zenon DEF LogInv, LogOK
<1>8. ASSUME crashes = 0, NEW a \in ring', NEW x \in ring', a.pos < x.pos, a.seq > x.seq, NEW y \in ring'
      PROVE  IF y.pos <= a.pos THEN y.seq > x.seq ELSE y.pos >= x.pos => y.seq < a.seq
  <2>1. PICK b \in ring : Twin(a, b)
    BY <1>1, Zenon
  <2>2. PICK v \in ring : Twin(x, v)
    BY <1>1, Zenon
  <2>3. PICK w \in ring : Twin(y, w)
    BY <1>1, Zenon
  <2>4. QED
    BY <1>8, <2>1, <2>2, <2>3, ZenonT(30) DEF RotationOrder, Twin
<1>9. RotationOrder'
  BY <1>3, <1>8, Zenon DEF RotationOrder
<1>10. Complete' => Complete
  <2>1. ASSUME Complete', NEW q \in 0 .. wal_seq - 1 PROVE \E y \in ring : y.seq = q
    <3>1. PICK x \in ring' : x.seq = q
      BY <1>3, <2>1, Zenon DEF Complete
    <3>2. PICK y \in ring : Twin(x, y)
      BY <1>1, Zenon
    <3>3. QED
      BY <3>1, <3>2, Zenon DEF Twin
  <2>2. QED
    BY <2>1, Zenon DEF Complete
<1>11. QED
  BY <1>7, <1>9, <1>10, Zenon


\* append_advance releases the lock, with the record in place.
LEMMA AdvanceLog ==
    ASSUME TypeOK, LogInv, RotationOrder, NEW t \in Threads, append_advance(t)
    PROVE  LogInv' /\ RotationOrder'
<1> USE DEF TypeOK
<1>1. PICK e \in 0 .. Ring, s \in Nat : LogOK(e, s)
  BY Zenon DEF LogInv
<1>2. /\ pc[t] = "advance" /\ pc' = [pc EXCEPT ![t] = "apply"] /\ write_pos' = rec[t].pos + rec[t].len
      /\ ring' = ring /\ rec' = rec /\ wal_seq' = wal_seq /\ ~wal_lock' /\ crashes' = crashes
  BY Zenon DEF append_advance, Goto
<1>3. Writing(t) /\ \A u \in Threads : Writing(u) => u = t
  BY <1>1, <1>2, Zenon DEF LogOK, WriterOK, Writing
<1>4. \A u \in Threads : ~Writing(u)'
  BY <1>2, <1>3, Zenon DEF Writing
<1>5. \A u \in Threads : pc[u] # "payload" /\ pc'[u] # "payload"
  BY <1>2, <1>3, <1>4, Zenon DEF Writing
<1>6. WriterOK(e)'
  BY <1>1, <1>2, <1>3, <1>4, <1>5, Zenon DEF LogOK, WriterOK
<1>7. LapOK(e, s)' /\ (crashes = 0 => OrderOK(e, s)')
  BY <1>1, <1>2, Zenon DEF LogOK, LapOK, OrderOK
<1>8. QED
  BY <1>2, <1>6, <1>7, Zenon DEF LogInv, LogOK, RotationOrder

\* The log is as good as before when only calls outside wal_append move.
LEMMA LogFrame ==
    ASSUME LogInv, RotationOrder, UNCHANGED <<log, crashes>>,
           \A u \in Threads : /\ Writing(u)' <=> Writing(u)
                              /\ Writing(u) => rec'[u] = rec[u] /\ pc'[u] = pc[u]
    PROVE  LogInv' /\ RotationOrder'
<1>1. PICK e \in 0 .. Ring, s \in Nat : LogOK(e, s)
  BY Zenon DEF LogInv
<1>2. ring' = ring /\ write_pos' = write_pos /\ wal_seq' = wal_seq /\ wal_lock' = wal_lock /\ crashes' = crashes
  BY Zenon DEF log
<1>3. \A u \in Threads : (pc'[u] = "payload" <=> pc[u] = "payload") /\ (pc[u] = "payload" => rec'[u] = rec[u])
  BY Zenon DEF Writing
<1>4. WriterOK(e)'
  <2>1. \A t \in Threads : Writing(t)' => rec'[t].pos + rec'[t].len = e /\ rec'[t].seq = wal_seq' - 1
    BY <1>1, <1>2, Zenon DEF LogOK, WriterOK
  <2>2. \A r \in ring : r.pos < e /\ ~r.ok => \E t \in Threads : pc'[t] = "payload" /\ rec'[t] = r
    BY <1>1, <1>3, Zenon DEF LogOK, WriterOK
  <2>3. \A t \in Threads : pc'[t] = "payload" => rec'[t] \in ring
    BY <1>1, <1>3, Zenon DEF LogOK, WriterOK
  <2>4. QED
    BY <1>1, <1>2, <2>1, <2>2, <2>3, Zenon DEF LogOK, WriterOK
<1>5. LapOK(e, s)' /\ (crashes = 0 => OrderOK(e, s)')
  BY <1>1, <1>2, Zenon DEF LogOK, LapOK, OrderOK
<1>6. QED
  BY <1>2, <1>4, <1>5, Zenon DEF LogInv, LogOK, RotationOrder

\* wal_init starts a log whose first lap is empty; the records stay.
LEMMA RestartLog ==
    ASSUME TypeOK, restart
    PROVE  LogInv' /\ RotationOrder'
<1>1. crashes' # 0
  BY DEF TypeOK, restart
<1>2. 0 \in 0 .. Ring /\ 0 \in Nat /\ 0 <= 0 /\ 0 .. 0 - 1 = {}
  BY RingAssumption
<1>3. \A r \in ring : ~(r.pos < 0)
  <2>1. \A r \in ring : r.pos \in Nat
    BY Fields, Zenon DEF TypeOK
  <2>2. QED
    BY <2>1
<1>4. \A u \in Threads : pc'[u] = "idle"
  BY Zenon DEF restart
<1>5. WriterOK(0)' /\ LapOK(0, 0)'
  BY <1>2, <1>3, <1>4, Zenon DEF restart, WriterOK, LapOK, Writing
<1>6. QED
  BY <1>1, <1>2, <1>5, Zenon DEF LogInv, LogOK, RotationOrder


\* Every step keeps the log as the invariant says.
LEMMA LogNext ==
    ASSUME TypeOK, LogInv, RotationOrder, [Next]_vars
    PROVE  LogInv' /\ RotationOrder'
<1> USE DEF TypeOK
<1>1. ASSUME NEW t \in Threads, NEW op \in {"SET", "DEL"}, NEW k \in Keys, NEW len \in Lengths,
             vc_call(t, op, k, len)
      PROVE  LogInv' /\ RotationOrder'
  <2>1. /\ UNCHANGED <<log, crashes>> /\ pc[t] = "idle" /\ pc' = [pc EXCEPT ![t] = "append"]
        /\ \A u \in Threads : u # t => rec'[u] = rec[u]
    BY <1>1, Zenon DEF vc_call, Goto
  <2>2. \A u \in Threads : (Writing(u)' <=> Writing(u)) /\ (Writing(u) => rec'[u] = rec[u] /\ pc'[u] = pc[u])
    BY <2>1, Zenon DEF Writing
  <2>3. QED
    BY <2>1, <2>2, LogFrame, Zenon
<1>2. ASSUME NEW t \in Threads, apply(t) \/ set_oom(t) PROVE LogInv' /\ RotationOrder'
  <2>1. /\ UNCHANGED <<log, crashes>> /\ pc[t] = "apply" /\ pc' = [pc EXCEPT ![t] = "idle"]
        /\ \A u \in Threads : u # t => rec'[u] = rec[u]
    BY <1>2, Zenon DEF apply, set_oom, Return, Goto
  <2>2. \A u \in Threads : (Writing(u)' <=> Writing(u)) /\ (Writing(u) => rec'[u] = rec[u] /\ pc'[u] = pc[u])
    BY <2>1, Zenon DEF Writing
  <2>3. QED
    BY <2>1, <2>2, LogFrame, Zenon
<1>3. ASSUME UNCHANGED <<log, crashes, pc, rec>> PROVE LogInv' /\ RotationOrder'
  <2>1. \A u \in Threads : (Writing(u)' <=> Writing(u)) /\ (Writing(u) => rec'[u] = rec[u] /\ pc'[u] = pc[u])
    BY <1>3, Zenon DEF Writing
  <2>2. QED
    BY <1>3, <2>1, LogFrame, Zenon
<1>4. ASSUME NEW k \in Keys, lose(k) PROVE LogInv' /\ RotationOrder'
  BY <1>3, <1>4, Zenon DEF lose
<1>5. CASE UNCHANGED vars
  BY <1>3, <1>5, Zenon DEF vars
<1>6. QED
  BY <1>1, <1>2, <1>4, <1>5, HeaderLog, PayloadLog, AdvanceLog, RestartLog, Zenon DEF Next, Finished

-----------------------------------------------------------------------------
(* The calls.                                                              *)

\* A call that returned, or is past the log, is numbered below the one in it.
LEMMA CallsNext ==
    ASSUME TypeOK, LogInv, CallsOK, [Next]_vars
    PROVE  CallsOK'
<1> USE DEF TypeOK
<1>1. ASSUME NEW t \in Threads, NEW op \in {"SET", "DEL"}, NEW k \in Keys, NEW len \in Lengths,
             vc_call(t, op, k, len)
      PROVE  CallsOK'
  <2>1. /\ UNCHANGED <<log, acked>> /\ pc' = [pc EXCEPT ![t] = "append"]
        /\ \A u \in Threads : u # t => rec'[u] = rec[u]
    BY <1>1, Zenon DEF vc_call, Goto
  <2>2. QED
    BY <2>1, Zenon DEF CallsOK, Settled, log
<1>2. ASSUME NEW t \in Threads, append_header(t) PROVE CallsOK'
  <2>1. /\ pc' = [pc EXCEPT ![t] = "payload"] /\ wal_seq' = wal_seq + 1 /\ acked' = acked
        /\ \A u \in Threads : u # t => rec'[u] = rec[u]
    BY <1>2, Zenon DEF append_header, Goto
  <2>2. \A q \in Nat : Settled(q) => Settled(q)'
    BY <2>1 DEF Settled
  <2>3. \A u \in Threads : pc[u] = "apply" => rec[u].seq \in Nat
    BY Fields, Zenon
  <2>4. \A u \in Threads : pc'[u] = "apply" => pc[u] = "apply" /\ rec'[u] = rec[u]
    BY <2>1, Zenon
  <2>5. QED
    BY <2>1, <2>2, <2>3, <2>4, Zenon DEF CallsOK
<1>3. ASSUME NEW t \in Threads, append_payload(t) PROVE CallsOK'
  BY <1>3, Zenon DEF append_payload, Goto, CallsOK, Settled
<1>4. ASSUME NEW t \in Threads, append_advance(t) PROVE CallsOK'
  <2>1. /\ pc[t] = "advance" /\ pc' = [pc EXCEPT ![t] = "apply"] /\ wal_seq' = wal_seq /\ acked' = acked
        /\ rec' = rec /\ ~wal_lock'
    BY <1>4, Zenon DEF append_advance, Goto
  <2>2. rec[t].seq = wal_seq - 1
    BY <2>1, Zenon DEF LogInv, LogOK, WriterOK, Writing
  <2>3. Settled(rec[t].seq)'
    BY <2>1, <2>2 DEF Settled
  <2>4. \A q \in Nat : Settled(q) => Settled(q)'
    BY <2>1 DEF Settled
  <2>5. \A u \in Threads : pc[u] = "apply" => rec[u].seq \in Nat
    BY Fields, Zenon
  <2>6. \A u \in Threads : pc'[u] = "apply" => u = t \/ pc[u] = "apply"
    BY <2>1, Zenon
  <2>7. QED
    BY <2>1, <2>3, <2>4, <2>5, <2>6, Zenon DEF CallsOK
<1>5. ASSUME NEW t \in Threads, apply(t) \/ set_oom(t) PROVE CallsOK'
  <2>1. /\ UNCHANGED log /\ pc[t] = "apply" /\ pc' = [pc EXCEPT ![t] = "idle"]
        /\ acked' \subseteq acked \cup {rec[t].seq}
        /\ \A u \in Threads : u # t => rec'[u] = rec[u]
    BY <1>5, Zenon DEF apply, set_oom, Return, Goto
  <2>2. QED
    BY <2>1, Zenon DEF CallsOK, Settled, log
<1>6. ASSUME NEW k \in Keys, lose(k) PROVE CallsOK'
  BY <1>6, Zenon DEF lose, CallsOK, Settled, log
<1>7. CASE restart
  BY <1>7, Zenon DEF restart, CallsOK
<1>8. CASE UNCHANGED vars
  BY <1>8, Zenon DEF vars, CallsOK, Settled, log
<1>9. QED
  BY <1>1, <1>2, <1>3, <1>4, <1>5, <1>6, <1>7, <1>8, Zenon DEF Next, Finished

\* Of two calls of one key that overlap, each is marked.
LEMMA MetNext ==
    ASSUME TypeOK, LogInv, MetOK, [Next]_vars
    PROVE  MetOK'
<1> USE DEF TypeOK
<1>1. ASSUME NEW t \in Threads, NEW op \in {"SET", "DEL"}, NEW k \in Keys, NEW len \in Lengths,
             vc_call(t, op, k, len)
      PROVE  MetOK'
  <2>1. PICK O : O = {u \in Threads : pc[u] # "idle" /\ rec[u].key = k}
    BY Zenon
  <2>2. /\ pc[t] = "idle" /\ pc' = [pc EXCEPT ![t] = "append"]
        /\ met' = IF O = {} THEN met ELSE met \cup O \cup {t}
        /\ \A u \in Threads : u # t => rec'[u] = rec[u]
    BY <1>1, <2>1, Zenon DEF vc_call, Goto
  <2>3. rec'[t].key = k
    <3>1. rec'[t] = [pos |-> 0, len |-> len, seq |-> 0, op |-> op, key |-> k, id |-> calls + 1, ok |-> FALSE]
      BY <1>1, Zenon DEF vc_call
    <3>2. QED
      BY <3>1
  <2>4. ASSUME NEW u \in Threads, NEW v \in Threads, u # v, pc'[u] # "idle", pc'[v] # "idle",
               rec'[u].key = rec'[v].key
        PROVE  u \in met'
    <3>1. CASE u # t /\ v # t
      BY <2>2, <2>4, <3>1, Zenon DEF MetOK
    <3>2. CASE u = t
      <4>1. v \in O
        BY <2>1, <2>2, <2>3, <2>4, <3>2, Zenon
      <4>2. QED
        BY <2>2, <3>2, <4>1, Zenon
    <3>3. CASE v = t
      <4>1. u \in O
        BY <2>1, <2>2, <2>3, <2>4, <3>3, Zenon
      <4>2. QED
        BY <2>2, <4>1, Zenon
    <3>4. QED
      BY <3>1, <3>2, <3>3, Zenon
  <2>5. QED
    BY <2>4, Zenon DEF MetOK
<1>2. ASSUME NEW t \in Threads, pc[t] # "idle", met' = met, \A u \in Threads : pc'[u] # "idle" => pc[u] # "idle",
             \A u \in Threads : rec'[u].key = rec[u].key
      PROVE  MetOK'
  BY <1>2, Zenon DEF MetOK
<1>3. ASSUME NEW t \in Threads, append_header(t) PROVE MetOK'
  <2>1. pc[t] = "append" /\ met' = met /\ pc' = [pc EXCEPT ![t] = "payload"]
    BY <1>3, Zenon DEF append_header, Goto
  <2>2. rec'[t].key = rec[t].key /\ \A u \in Threads : u # t => rec'[u] = rec[u]
    BY <1>3, NewRecord, Zenon DEF SameCall
  <2>3. QED
    BY <1>2, <2>1, <2>2, Zenon
<1>4. ASSUME NEW t \in Threads, append_payload(t) \/ append_advance(t) PROVE MetOK'
  BY <1>2, <1>4, Zenon DEF append_payload, append_advance, Goto
<1>5. ASSUME NEW t \in Threads, apply(t) \/ set_oom(t) PROVE MetOK'
  <2>1. /\ pc' = [pc EXCEPT ![t] = "idle"] /\ met' = met \ {t}
        /\ \A u \in Threads : u # t => rec'[u] = rec[u]
    BY <1>5, Zenon DEF apply, set_oom, Return, Goto
  <2>2. QED
    BY <2>1, Zenon DEF MetOK
<1>6. ASSUME NEW k \in Keys, lose(k) PROVE MetOK'
  BY <1>6, Zenon DEF lose, MetOK
<1>7. CASE restart
  BY <1>7, Zenon DEF restart, MetOK
<1>8. CASE UNCHANGED vars
  BY <1>8, Zenon DEF vars, MetOK
<1>9. QED
  BY <1>1, <1>3, <1>4, <1>5, <1>6, <1>7, <1>8, Zenon DEF Next, Finished


-----------------------------------------------------------------------------
(* The shard and the records of its keys, while none is lost.              *)

\* The new record is the last of its key; if no record is lost, the others stay.
LEMMA ShardHeader ==
    ASSUME TypeOK, LogInv, CallsOK, MetOK, crashes = 0, Complete => ShardOK,
           NEW t \in Threads, append_header(t), Complete'
    PROVE  ShardOK'
<1> USE DEF TypeOK
<1>1. PICK r \in Records :
         /\ r.seq = wal_seq /\ SameCall(r, rec[t])
         /\ rec'[t] = r /\ \A u \in Threads : u # t => rec'[u] = rec[u]
         /\ ring' = Overwrite(r.pos, r.len) \cup {r}
  BY NewRecord, Zenon
<1>2. /\ pc[t] = "append" /\ ~wal_lock /\ wal_seq' = wal_seq + 1
      /\ pc' = [pc EXCEPT ![t] = "payload"]
      /\ mem' = mem /\ apart' = apart /\ met' = met
  BY Zenon DEF append_header, Goto
<1>3. \A x \in ring : x.seq \in Nat /\ x.seq < wal_seq
  <2>1. \A x \in ring : x.seq \in Nat
    BY Fields, Zenon
  <2>2. QED
    BY <2>1, Zenon DEF LogInv, LogOK, OrderOK
<1>4. \A x, y \in ring : x.seq = y.seq => x = y
  BY Zenon DEF LogInv, LogOK, OrderOK
<1>5. ASSUME NEW q \in Nat, q < wal_seq PROVE \E z \in ring : z \in ring' /\ z.seq = q
  <2>1. q \in 0 .. wal_seq' - 1
    BY <1>2, <1>5
  <2>2. PICK z \in ring' : z.seq = q
    BY <2>1, Zenon DEF Complete
  <2>3. z # r
    BY <1>1, <1>5, <2>2
  <2>4. QED
    BY <1>1, <2>2, <2>3, Zenon DEF Overwrite
<1>6. Complete
  <2>1. \A q \in 0 .. wal_seq - 1 : q \in Nat /\ q < wal_seq
    OBVIOUS
  <2>2. QED
    BY <1>5, <2>1, Zenon DEF Complete
<1>7. ring' = ring \cup {r}
  <2>1. ASSUME NEW x \in ring PROVE x \in ring'
    <3>1. x.seq \in Nat /\ x.seq < wal_seq
      BY <1>3, Zenon
    <3>2. PICK z \in ring : z \in ring' /\ z.seq = x.seq
      BY <1>5, <3>1, Zenon
    <3>3. QED
      BY <1>4, <3>2, Zenon
  <2>2. \A x \in ring' : x \in ring \/ x = r
    BY <1>1, Zenon DEF Overwrite
  <2>3. r \in ring'
    BY <1>1, Zenon
  <2>4. QED
    BY <2>1, <2>2, <2>3, Zenon
<1>8. \A x \in ring : x.seq # r.seq /\ x.seq <= r.seq
  BY <1>1, <1>3
<1>9. ASSUME NEW u \in Threads, u # t, Past(u)'
      PROVE  Past(u) /\ rec'[u] = rec[u] /\ rec[u].seq # r.seq /\ pc[u] # "idle"
  <2>1. Past(u) /\ rec'[u] = rec[u] /\ ~Writing(u)
    BY <1>1, <1>2, <1>9, Zenon DEF Past, LogInv, LogOK, WriterOK
  <2>2. pc[u] = "apply"
    BY <2>1, Zenon DEF Past, Writing
  <2>3. rec[u].seq < wal_seq /\ rec[u].seq \in Nat
    <3>1. rec[u] \in Records
      BY <2>2, Zenon
    <3>2. QED
      BY <2>2, <3>1, Fields, Zenon DEF CallsOK, Settled
  <2>4. rec[u].seq # r.seq
    BY <1>1, <2>3
  <2>5. QED
    BY <2>1, <2>2, <2>4, Zenon
<1>10. ASSUME NEW u \in Threads, Past(u)', NEW x \in ring', x.seq = rec'[u].seq PROVE SameCall(x, rec'[u])
  <2>1. CASE u = t
    BY <1>1, <1>7, <1>8, <1>10, <2>1, Zenon DEF SameCall
  <2>2. CASE u # t
    BY <1>6, <1>7, <1>9, <1>10, <2>2, Zenon DEF ShardOK
  <2>3. QED
    BY <2>1, <2>2, Zenon
<1>11. ASSUME NEW u \in Threads, Past(u)', u \notin met', NEW x \in ring', x.key = rec'[u].key
       PROVE  x.seq <= rec'[u].seq
  <2>1. CASE u = t
    <3>1. r.seq <= r.seq
      BY <1>1
    <3>2. QED
      BY <1>1, <1>7, <1>8, <2>1, <3>1, Zenon
  <2>2. CASE u # t
    <3>1. x # r
      <4>1. u \notin met /\ pc[u] # "idle" /\ pc[t] # "idle" /\ rec'[u] = rec[u]
        BY <1>2, <1>9, <1>11, <2>2, Zenon
      <4>2. rec[u].key # rec[t].key
        BY <2>2, <4>1, Zenon DEF MetOK
      <4>3. QED
        BY <1>1, <1>11, <4>1, <4>2, Zenon DEF SameCall
    <3>2. QED
      BY <1>2, <1>6, <1>7, <1>9, <1>11, <2>2, <3>1, Zenon DEF ShardOK
  <2>3. QED
    BY <2>1, <2>2, Zenon
<1>12. ASSUME NEW k \in Keys \ apart', \A u \in Threads : Past(u)' => rec'[u].key # k PROVE Agrees(k)'
  <2>1. Past(t)' /\ r.key # k
    BY <1>1, <1>2, <1>12, Zenon DEF Past
  <2>2. ASSUME NEW u \in Threads, Past(u) PROVE rec[u].key # k
    <3>1. u # t /\ Past(u)'
      BY <1>2, <2>2, Zenon DEF Past
    <3>2. QED
      BY <1>1, <1>12, <3>1, Zenon
  <2>3. Agrees(k)
    BY <1>2, <1>6, <1>12, <2>2, Zenon DEF ShardOK
  <2>4. QED
    BY <1>2, <1>7, <2>1, <2>3, Zenon DEF Agrees, IsLast, Effect
<1>13. QED
  BY <1>10, <1>11, <1>12, Zenon DEF ShardOK

\* A record that becomes valid is the same record.
LEMMA ShardPayload ==
    ASSUME TypeOK, LogInv, RotationOrder, Complete => ShardOK,
           NEW t \in Threads, append_payload(t), Complete'
    PROVE  ShardOK'
<1> USE DEF TypeOK
<1>1. /\ \A x \in ring' : \E y \in ring : Twin(x, y)
      /\ \A y \in ring : \E x \in ring' : Twin(x, y)
  BY PayloadTwins, Zenon
<1>2. ShardOK
  BY PayloadLog, Zenon
<1>3. /\ pc[t] = "payload" /\ pc' = [pc EXCEPT ![t] = "advance"] /\ rec' = rec
      /\ mem' = mem /\ apart' = apart /\ met' = met
  BY Zenon DEF append_payload, Goto
<1>4. \A u \in Threads : Past(u)' <=> Past(u)
  BY <1>3, Zenon DEF Past
<1>5. ASSUME NEW u \in Threads, Past(u), NEW x \in ring', x.seq = rec[u].seq PROVE SameCall(x, rec[u])
  <2>1. PICK y \in ring : Twin(x, y)
    BY <1>1, Zenon
  <2>2. y.seq = rec[u].seq /\ SameCall(x, y)
    BY <1>5, <2>1, Zenon DEF Twin
  <2>3. SameCall(y, rec[u])
    BY <1>2, <1>5, <2>2, Zenon DEF ShardOK
  <2>4. QED
    BY <2>2, <2>3, Zenon DEF SameCall
<1>6. ASSUME NEW u \in Threads, Past(u), u \notin met, NEW x \in ring', x.key = rec[u].key
      PROVE  x.seq <= rec[u].seq
  <2>1. PICK y \in ring : Twin(x, y)
    BY <1>1, Zenon
  <2>2. y.key = rec[u].key /\ x.seq = y.seq
    BY <1>6, <2>1, Zenon DEF Twin, SameCall
  <2>3. QED
    BY <1>2, <1>6, <2>2, Zenon DEF ShardOK
<1>7. ASSUME NEW k \in Keys, Agrees(k) PROVE Agrees(k)'
  <2>1. CASE \A y \in ring : y.key # k
    <3>1. mem[k] = 0
      <4>1. \A y \in ring : ~IsLast(y, k)
        BY <2>1, Zenon DEF IsLast
      <4>2. QED
        BY <1>7, <4>1, Zenon DEF Agrees
    <3>2. ASSUME NEW x \in ring' PROVE x.key # k
      <4>1. PICK y \in ring : Twin(x, y)
        BY <1>1, Zenon
      <4>2. QED
        BY <2>1, <4>1, Zenon DEF Twin, SameCall
    <3>3. QED
      BY <1>3, <3>1, <3>2, Zenon DEF Agrees
  <2>2. CASE ~ \A y \in ring : y.key # k
    <3>1. PICK y \in ring : IsLast(y, k) /\ mem[k] = Effect(y)
      BY <1>7, <2>2, Zenon DEF Agrees
    <3>2. PICK x \in ring' : Twin(x, y)
      BY <1>1, Zenon
    <3>3. x.key = k /\ mem[k] = Effect(x)
      BY <3>1, <3>2, Zenon DEF Twin, SameCall, IsLast, Effect
    <3>4. ASSUME NEW z \in ring', z.key = k PROVE z.seq <= x.seq
      <4>1. PICK v \in ring : Twin(z, v)
        BY <1>1, Zenon
      <4>2. v.key = k /\ v.seq = z.seq /\ x.seq = y.seq
        BY <3>2, <3>4, <4>1, Zenon DEF Twin, SameCall
      <4>3. QED
        BY <3>1, <4>2, Zenon DEF IsLast
    <3>5. QED
      BY <1>3, <3>3, <3>4, Zenon DEF Agrees, IsLast, Effect
  <2>3. QED
    BY <2>1, <2>2, Zenon
<1>8. QED
  BY <1>2, <1>3, <1>4, <1>5, <1>6, <1>7, Zenon DEF ShardOK


\* vc_set and vc_del change the shard as their record says.
LEMMA ShardApply ==
    ASSUME TypeOK, MetOK, CallsOK, Complete, ShardOK, NEW t \in Threads, apply(t)
    PROVE  ShardOK'
<1> USE DEF TypeOK
<1>1. PICK k \in Keys : k = rec[t].key
  <2>1. rec[t] \in Records
    BY Zenon DEF apply
  <2>2. QED
    BY <2>1, Fields, Zenon
<1>2. /\ pc[t] = "apply" /\ pc' = [pc EXCEPT ![t] = "idle"] /\ ring' = ring
      /\ met' = met \ {t} /\ \A u \in Threads : u # t => rec'[u] = rec[u]
      /\ mem' = [mem EXCEPT ![k] = Effect(rec[t])]
      /\ apart' = IF t \in met THEN apart \cup {k} ELSE apart \ {k}
  BY <1>1, Zenon DEF apply, Return, Goto, Effect, log
<1>3. \A u \in Threads : Past(u)' => u # t /\ Past(u) /\ rec'[u] = rec[u]
  BY <1>2, Zenon DEF Past
<1>4. \A u \in Threads : u # t /\ Past(u) => Past(u)'
  BY <1>2, Zenon DEF Past
<1>5. ASSUME NEW j \in Keys \ apart', \A u \in Threads : Past(u)' => rec'[u].key # j PROVE Agrees(j)'
  <2>1. CASE j = k
    <3>1. t \notin met
      BY <1>2, <1>5, <2>1, Zenon
    <3>2. rec[t].seq \in 0 .. wal_seq - 1
      <4>1. rec[t].seq \in Nat /\ wal_seq \in Nat
        BY <1>2, Fields, Zenon
      <4>2. rec[t].seq < wal_seq
        BY <1>2, Zenon DEF CallsOK, Settled
      <4>3. QED
        BY <4>1, <4>2
    <3>3. PICK x \in ring : x.seq = rec[t].seq
      BY <3>2, Zenon DEF Complete
    <3>4. Past(t)
      BY <1>2, Zenon DEF Past
    <3>5. SameCall(x, rec[t])
      BY <3>3, <3>4, Zenon DEF ShardOK
    <3>6. IsLast(x, k)
      BY <1>1, <3>1, <3>3, <3>4, <3>5, Zenon DEF ShardOK, IsLast, SameCall
    <3>7. mem'[k] = Effect(x)
      BY <1>2, <3>5, Zenon DEF Effect, SameCall
    <3>8. QED
      BY <1>2, <2>1, <3>6, <3>7, Zenon DEF Agrees, IsLast, Effect
  <2>2. CASE j # k
    <3>1. j \in Keys \ apart /\ mem'[j] = mem[j]
      BY <1>2, <1>5, <2>2, Zenon
    <3>2. \A u \in Threads : Past(u) => rec[u].key # j
      BY <1>1, <1>2, <1>4, <1>5, <2>2, Zenon
    <3>3. Agrees(j)
      BY <3>1, <3>2, Zenon DEF ShardOK
    <3>4. QED
      BY <1>2, <3>1, <3>3, Zenon DEF Agrees, IsLast, Effect
  <2>3. QED
    BY <2>1, <2>2, Zenon
<1>6. \A u \in Threads : u # t /\ u \notin met' => u \notin met
  BY <1>2, Zenon
<1>7. QED
  BY <1>2, <1>3, <1>5, <1>6, Zenon DEF ShardOK

\* The ring and the shard agree as before when the step appends nothing and
\* sets apart each key whose value it changes.
LEMMA ShardFrame ==
    ASSUME ShardOK, ring' = ring,
           \A u \in Threads : Past(u)' => Past(u) /\ rec'[u] = rec[u] /\ (u \notin met' => u \notin met),
           \A k \in Keys \ apart' : /\ k \notin apart /\ mem'[k] = mem[k]
                                    /\ \A u \in Threads : Past(u) /\ rec[u].key = k => Past(u)'
    PROVE  ShardOK'
<1>1. ASSUME NEW k \in Keys \ apart', \A u \in Threads : Past(u)' => rec'[u].key # k PROVE Agrees(k)'
  <2>1. Agrees(k)
    BY <1>1, Zenon DEF ShardOK
  <2>2. QED
    BY <2>1, Zenon DEF Agrees, IsLast, Effect
<1>2. QED
  BY <1>1, Zenon DEF ShardOK

\* Every step keeps the shard and the log together.
LEMMA ShardNext ==
    ASSUME TypeOK, LogInv, RotationOrder, CallsOK, MetOK, crashes = 0 /\ Complete => ShardOK, [Next]_vars
    PROVE  crashes' = 0 /\ Complete' => ShardOK'
<1> USE DEF TypeOK
<1> SUFFICES ASSUME crashes' = 0, Complete' PROVE ShardOK'
  OBVIOUS
<1>1. ~restart
  BY DEF restart
<1>2. crashes = 0
  BY <1>1, Zenon DEF Next, vars, vc_call, append_header, append_payload, append_advance, apply, set_oom,
    Return, lose, Finished
<1>3. ASSUME UNCHANGED log PROVE Complete /\ ShardOK /\ ring' = ring
  BY <1>2, <1>3, Zenon DEF Complete, log
<1>4. ASSUME NEW t \in Threads, NEW op \in {"SET", "DEL"}, NEW k \in Keys, NEW len \in Lengths,
             vc_call(t, op, k, len)
      PROVE  ShardOK'
  <2>1. /\ UNCHANGED <<log, mem, apart>> /\ pc[t] = "idle" /\ pc' = [pc EXCEPT ![t] = "append"]
        /\ \A u \in Threads : u # t => rec'[u] = rec[u]
    BY <1>4, Zenon DEF vc_call, Goto
  <2>2. met \subseteq met'
    BY <1>4, Zenon DEF vc_call
  <2>3. \A u \in Threads : (Past(u)' <=> Past(u)) /\ (Past(u) => u # t)
    BY <2>1, Zenon DEF Past
  <2>4. QED
    BY <1>3, <2>1, <2>2, <2>3, ShardFrame, Zenon
<1>5. ASSUME NEW t \in Threads, append_advance(t) PROVE ShardOK'
  <2>1. /\ UNCHANGED <<ring, wal_seq, mem, apart, rec, met>> /\ pc[t] = "advance" /\ pc' = [pc EXCEPT ![t] = "apply"]
    BY <1>5, Zenon DEF append_advance, Goto
  <2>2. Complete
    BY <2>1, Zenon DEF Complete
  <2>3. \A u \in Threads : Past(u)' <=> Past(u)
    BY <2>1, Zenon DEF Past
  <2>4. QED
    BY <1>2, <2>1, <2>2, <2>3, ShardFrame, Zenon
<1>6. ASSUME NEW t \in Threads, set_oom(t) PROVE ShardOK'
  <2>1. /\ UNCHANGED <<log, mem>> /\ apart' = apart \cup {rec[t].key} /\ met' = met \ {t}
        /\ pc' = [pc EXCEPT ![t] = "idle"] /\ \A u \in Threads : u # t => rec'[u] = rec[u]
    BY <1>6, Zenon DEF set_oom, Return, Goto
  <2>2. \A u \in Threads : Past(u)' <=> u # t /\ Past(u)
    BY <2>1, Zenon DEF Past
  <2>3. QED
    BY <1>3, <2>1, <2>2, ShardFrame, Zenon
<1>7. ASSUME NEW k \in Keys, lose(k) PROVE ShardOK'
  <2>1. /\ UNCHANGED <<log, pc, rec, met>> /\ apart' = apart \cup {k} /\ mem' = [mem EXCEPT ![k] = 0]
    BY <1>7, Zenon DEF lose
  <2>2. \A u \in Threads : Past(u)' <=> Past(u)
    BY <2>1, Zenon DEF Past
  <2>3. QED
    BY <1>3, <2>1, <2>2, ShardFrame, Zenon
<1>8. CASE UNCHANGED vars
  <2>1. UNCHANGED <<log, mem, apart, pc, rec, met>>
    BY <1>8, Zenon DEF vars
  <2>2. \A u \in Threads : Past(u)' <=> Past(u)
    BY <2>1, Zenon DEF Past
  <2>3. QED
    BY <1>3, <2>1, <2>2, ShardFrame, Zenon
<1>9. ASSUME NEW t \in Threads, append_header(t) PROVE ShardOK'
  BY <1>2, <1>9, ShardHeader, Zenon
<1>10. ASSUME NEW t \in Threads, append_payload(t) PROVE ShardOK'
  BY <1>2, <1>10, ShardPayload, Zenon
<1>11. ASSUME NEW t \in Threads, apply(t) PROVE ShardOK'
  <2>1. UNCHANGED log
    BY <1>11, Zenon DEF apply, Return
  <2>2. QED
    BY <1>3, <1>11, <2>1, ShardApply, Zenon
<1>12. QED
  BY <1>1, <1>4, <1>5, <1>6, <1>7, <1>8, <1>9, <1>10, <1>11, Zenon DEF Next, Finished


-----------------------------------------------------------------------------
(* The theorems.                                                           *)

\* The empty log of a new file.
LEMMA WalStart == Init => WalInv
<1> SUFFICES ASSUME Init PROVE WalInv
  OBVIOUS
<1>1. 0 \in 0 .. Ring /\ 0 \in Nat /\ 0 <= 0 /\ 0 .. 0 - 1 = {}
  BY RingAssumption
<1>2. \A u \in Threads : pc[u] = "idle"
  BY Zenon DEF Init
<1>3. WriterOK(0) /\ LapOK(0, 0) /\ OrderOK(0, 0)
  BY <1>1, <1>2, Zenon DEF Init, WriterOK, LapOK, OrderOK, Writing
<1>4. LogInv
  BY <1>1, <1>3, Zenon DEF LogInv, LogOK
<1>5. CallsOK /\ MetOK /\ RotationOrder /\ ShardOK
  BY <1>2, Zenon DEF Init, CallsOK, MetOK, RotationOrder, ShardOK, Past, Agrees
<1>6. QED
  BY <1>4, <1>5, TypeStart, Zenon DEF WalInv

\* The invariant holds in every state of the log.
LEMMA WalInvariant == Spec => []WalInv
<1>1. WalInv /\ [Next]_vars => WalInv'
  <2> SUFFICES ASSUME WalInv, [Next]_vars PROVE WalInv'
    OBVIOUS
  <2>1. TypeOK /\ LogInv /\ CallsOK /\ MetOK /\ RotationOrder /\ (crashes = 0 /\ Complete => ShardOK)
    BY Zenon DEF WalInv
  <2>2. TypeOK'
    BY <2>1, TypeNext, Zenon
  <2>3. LogInv' /\ RotationOrder'
    BY <2>1, LogNext, Zenon
  <2>4. CallsOK' /\ MetOK'
    BY <2>1, CallsNext, MetNext, Zenon
  <2>5. crashes' = 0 /\ Complete' => ShardOK'
    BY <2>1, ShardNext, Zenon
  <2>6. QED
    BY <2>2, <2>3, <2>4, <2>5, Zenon DEF WalInv
<1>2. QED
  BY <1>1, WalStart, PTL DEF Spec

\* Whatever the sizes of the records and of the ring, and however often
\* wal_append wraps, the laps lie in the ring one behind the other.
THEOREM RotationCorrect == Spec => []RotationOrder
<1>1. WalInv => RotationOrder
  BY Zenon DEF WalInv
<1>2. QED
  BY <1>1, WalInvariant, PTL

\* Every valid record of the lap is found: the scan stops at none before it.
LEMMA LapIsRead ==
    ASSUME TypeOK, NEW e \in 0 .. Ring, NEW s \in Nat, LogOK(e, s),
           NEW q \in s .. wal_seq - 1, wal_lock => q < wal_seq - 1
    PROVE  \E r \in Scan : r.seq = q
<1> USE DEF TypeOK
<1>1. LapOK(e, s) /\ WriterOK(e)
  BY Zenon DEF LogOK
<1>2. PICK r \in ring : r.pos < e /\ r.seq = q
  BY <1>1, Zenon DEF LapOK
<1>3. \A x \in ring : x.seq \in Nat /\ x.pos \in Nat /\ x.len \in Nat
  BY Fields, Zenon
<1>4. ASSUME NEW x \in ring, x.pos < e, x.seq <= q PROVE x.ok
  <2>1. ASSUME NEW t \in Threads, pc[t] = "payload", rec[t] = x PROVE FALSE
    <3>1. Writing(t) /\ wal_lock /\ x.seq = wal_seq - 1
      BY <1>1, <2>1, Zenon DEF WriterOK, Writing
    <3>2. QED
      BY <1>3, <1>4, <3>1
  <2>2. QED
    BY <1>1, <1>4, <2>1, Zenon DEF WriterOK
<1>5. ASSUME NEW S \in SUBSET ring, ReadOn(S) PROVE r \in S
  <2> DEFINE Missed == {n \in Nat : \E x \in ring : x.pos < e /\ x.seq = n /\ n <= q /\ x \notin S}
  <2>1. SUFFICES ASSUME r \notin S PROVE FALSE
    OBVIOUS
  <2>2. q \in Missed
    <3>1. q <= q /\ q \in Nat
      BY <1>2, <1>3
    <3>2. QED
      BY <1>2, <2>1, <3>1, Zenon
  <2>3. Missed # {} /\ Missed \subseteq Nat
    BY <2>2, Zenon
  <2> HIDE DEF Missed
  <2>4. PICK n \in Missed : \A m \in Missed : n <= m
    BY <2>3, LeastNumber, Zenon
  <2>5. PICK x \in ring : x.pos < e /\ x.seq = n /\ n <= q /\ x \notin S
    BY <2>4, Zenon DEF Missed
  <2>6. x.ok
    BY <1>4, <2>5, Zenon
  <2>7. CASE x.seq = s
    <3>1. x.pos = 0
      BY <1>1, <2>5, <2>7, Zenon DEF LapOK
    <3>2. QED
      BY <1>5, <2>5, <2>6, <3>1, Zenon DEF ReadOn
  <2>8. CASE x.seq # s
    <3>1. PICK y \in ring : y.pos < e /\ y.seq = x.seq - 1 /\ y.pos + y.len = x.pos
      BY <1>1, <2>5, <2>8, Zenon DEF LapOK
    <3>2. y.seq \in Nat /\ y.seq <= q /\ ~(n <= y.seq)
      BY <1>2, <1>3, <2>5, <3>1
    <3>3. y \in S
      BY <2>4, <3>1, <3>2, Zenon DEF Missed
    <3>4. QED
      BY <1>5, <2>5, <2>6, <3>1, <3>3, Zenon DEF ReadOn
  <2>9. QED
    BY <2>7, <2>8, Zenon
<1>6. QED
  BY <1>2, <1>5, Zenon DEF Scan

\* A call that returned is found by the scan after a crash of the process, or
\* the ring has wrapped since: whatever threads append at the same time.
THEOREM AckedCorrect == Spec => []AckedSurvive
<1>1. WalInv => AckedSurvive
  <2> SUFFICES ASSUME WalInv, NEW q \in acked
               PROVE  (\E r \in Scan : r.seq = q) \/ (\E r \in ring : r.pos = 0 /\ r.seq > q)
    BY Zenon DEF AckedSurvive
  <2>1. TypeOK /\ LogInv /\ CallsOK
    BY Zenon DEF WalInv
  <2>2. PICK e \in 0 .. Ring, s \in Nat : LogOK(e, s)
    BY <2>1, Zenon DEF LogInv
  <2>3. q \in Nat /\ wal_seq \in Nat /\ q < wal_seq /\ (wal_lock => q < wal_seq - 1)
    BY <2>1, Zenon DEF TypeOK, CallsOK, Settled
  <2>4. CASE s <= q
    <3>1. q \in s .. wal_seq - 1
      BY <2>3, <2>4
    <3>2. QED
      BY <2>1, <2>2, <2>3, <3>1, LapIsRead, Zenon
  <2>5. CASE ~(s <= q)
    <3>1. LapOK(e, s) /\ s <= wal_seq
      BY <2>2, Zenon DEF LogOK, LapOK
    <3>2. s # wal_seq
      <4>1. s = wal_seq => wal_seq = 0
        BY <3>1, Zenon DEF LapOK
      <4>2. QED
        BY <2>3, <4>1
    <3>3. s \in s .. wal_seq - 1 /\ s > q
      BY <2>3, <2>5, <3>1, <3>2
    <3>4. PICK r \in ring : r.pos < e /\ r.seq = s
      BY <3>1, <3>3, Zenon DEF LapOK
    <3>5. QED
      BY <3>1, <3>3, <3>4, Zenon DEF LapOK
  <2>6. QED
    BY <2>4, <2>5, Zenon
<1>2. QED
  BY <1>1, WalInvariant, PTL


\* While no record is lost, replaying the scan in sequence order rebuilds each
\* key whose last change went through the log: for every interleaving of the
\* calls, whose records enter the log before the shard changes.
THEOREM ReplayCorrect == Spec => []ReplayAgrees
<1>1. WalInv => ReplayAgrees
  <2> SUFFICES ASSUME WalInv, crashes = 0, \A t \in Threads : pc[t] = "idle", NotWrapped, NEW k \in Keys \ apart
               PROVE  Replay(k) = mem[k]
    BY Zenon DEF ReplayAgrees
  <2>1. TypeOK /\ LogInv /\ wal_seq \in Nat
    BY Zenon DEF WalInv, TypeOK
  <2>2. \A r, x \in ring : r.seq = x.seq => r = x
    BY <2>1, Zenon DEF LogInv, LogOK, OrderOK
  <2>3. \A r \in ring : r.seq \in Nat /\ r.seq < wal_seq
    BY <2>1, Fields, Zenon DEF TypeOK, LogInv, LogOK, OrderOK
  <2>4. Scan \subseteq ring
    BY Zenon DEF Scan
  <2>5. ASSUME NEW r \in ring PROVE r \in Scan
    <3>1. r.seq \in 0 .. wal_seq - 1
      BY <2>1, <2>3
    <3>2. PICK x \in Scan : x.seq = r.seq
      BY <3>1, Zenon DEF NotWrapped
    <3>3. QED
      BY <2>2, <2>4, <3>2, Zenon
  <2>6. Scan = ring
    BY <2>4, <2>5, Zenon
  <2>7. Complete
    BY <2>6, Zenon DEF NotWrapped, Complete
  <2>8. Agrees(k)
    <3>1. ShardOK
      BY <2>7, Zenon DEF WalInv
    <3>2. \A t \in Threads : ~Past(t)
      BY Zenon DEF Past
    <3>3. QED
      BY <3>1, <3>2, Zenon DEF ShardOK
  <2> DEFINE mine == {r \in Scan : r.key = k}
  <2>9. Replay(k) = IF mine = {} THEN 0
                    ELSE Effect(CHOOSE r \in mine : \A x \in mine : x.seq <= r.seq)
    BY Zenon DEF Replay, Effect
  <2>10. CASE mine = {}
    <3>1. mem[k] = 0
      BY <2>6, <2>8, <2>10, Zenon DEF Agrees, IsLast
    <3>2. QED
      BY <2>9, <2>10, <3>1, Zenon
  <2>11. CASE mine # {}
    <3>1. PICK r \in mine : (\A x \in mine : x.seq <= r.seq) /\ mem[k] = Effect(r)
      BY <2>6, <2>8, <2>11, Zenon DEF Agrees, IsLast
    <3>2. PICK l : l = CHOOSE y \in mine : \A x \in mine : x.seq <= y.seq
      BY Zenon
    <3>3. l \in mine /\ \A x \in mine : x.seq <= l.seq
      BY <3>1, <3>2, Zenon
    <3>4. l \in ring /\ r \in ring /\ l.seq <= r.seq /\ r.seq <= l.seq
      BY <2>4, <3>1, <3>3, Zenon
    <3>5. l.seq = r.seq
      BY <2>3, <3>4
    <3>6. l = r
      BY <2>2, <3>4, <3>5, Zenon
    <3>7. QED
      BY <2>9, <2>11, <3>1, <3>2, <3>6, Zenon
  <2>12. QED
    BY <2>10, <2>11, Zenon
<1>2. QED
  BY <1>1, WalInvariant, PTL
=============================================================================
