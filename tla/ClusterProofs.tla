--------------------------- MODULE ClusterProofs ---------------------------
(***************************************************************************)
(* The client's connection pools, for every number of callers, nodes and   *)
(* pool entries: an entry serves one thread at a time, the reply a caller   *)
(* is handed answers its own request, and moves of the slot fail no call    *)
(* as long as they are fewer than its attempts.                            *)
(***************************************************************************)
EXTENDS Cluster, SequenceTheorems, TLAPS

USE DEF world, table, locks, vars

-----------------------------------------------------------------------------
(* The inductive invariant.                                                *)

Labels == {"idle", "slot", "pick", "next", "get", "open", "send", "read", "close", "drop", "lock",
           "range", "find", "count", "init", "found"}
Names  == Nodes \cup {Nowhere, Elsewhere, None}
Says   == {"slots", "pong", "moved", "data", "header", "element", "other", "nonode", "net", None}

Messages == [to : Nat, says : Says, name : Names]
Frames   == [pc : Labels, op : {None, "cmd", "ping", "connect"}, r : BOOLEAN, ni : Nat,
             attempt : Nat, at : Nat, nc : Nat, name : Names, idx : Nat, id : Nat, res : Messages]
Entries  == [fd : {-1, 0, 1}, in_use : BOOLEAN, link : {"up", "fin", "rst"}, unread : Seq(Messages)]

RestOK ==
    /\ owner \in Nodes /\ calls \in Nat /\ node_count \in 0 .. VC_CLUSTER_MAX_NODES /\ slot_map \in Nat
    /\ host \in [Index -> Names \cup {Blank}] /\ alive \in [Index -> BOOLEAN]

TypeOK == RestOK /\ conns \in [Index -> [Pool -> Entries]] /\ th \in [Threads -> Frames]

\* The places where a thread holds an entry of a pool.
Holds(f) ==
    \/ f.pc \in {"send", "read", "close", "drop", "lock", "range", "found"}
    \/ f.pc \in {"find", "count", "init"} /\ f.r

\* What a thread's variables say at each place.
FrameOK(f) ==
    /\ IF Holds(f) THEN f.nc \in Pool ELSE f.nc = 0
    /\ Holds(f) \/ f.pc \in {"get", "open"} => f.at \in Index
    /\ f.pc \in {"count", "init"} => f.idx \in Index
    /\ f.pc \in {"next", "lock", "range", "found", "close"} => f.r
    /\ f.pc \in {"idle", "slot", "pick"} => ~f.r
    /\ f.pc # "idle" /\ ~f.r => f.op \in {"cmd", "ping"}
    /\ f.pc \in {"slot", "pick"} => f.op = "cmd"

FramesOK == \A t \in Threads : FrameOK(th[t])

\* An entry that a thread holds is marked, and no other thread holds it; those
\* of a node that is not initialised yet are not in use.
Exclusive ==
    /\ \A t \in Threads : th[t].nc # 0 => conns[th[t].at][th[t].nc].in_use
    /\ \A t, u \in Threads : t # u /\ th[t].nc # 0 => <<th[t].at, th[t].nc>> # <<th[u].at, th[u].nc>>
    /\ \A x \in Index : host[x] = Blank => \A c \in Pool : ~conns[x][c].in_use

\* Message m is the first line of the reply to the call of frame f; a command may
\* also be given a redirection, or a reply of a type the client does not know.
Mine(f, m)  == m.to = f.id /\ m.says \in {"data", "header"} /\ m.name = None
Given(f, m) == m.says \in {"moved", "other"} \/ Mine(f, m)

\* What may be unread in the entry e that a thread holds: nothing before it has
\* sent its request, then the answer to that request, on an open connection.
\* Only the answer to a command has more than one line.
Awaited(f, e) ==
    \/ e.unread = <<>>
    \/ /\ f.pc \notin {"send", "close", "drop"} /\ e.fd >= 0
       /\ IF ~f.r /\ f.op = "cmd" THEN Given(f, e.unread[1]) ELSE Len(e.unread) = 1

\* An entry that nobody uses has nothing unread.
InStep ==
    /\ \A x \in Index, c \in Pool : ~conns[x][c].in_use => conns[x][c].unread = <<>>
    /\ \A t \in Threads : th[t].nc # 0 => Awaited(th[t], conns[th[t].at][th[t].nc])

\* What a call has returned is the reply to it, or none.
Answered(f) == f.res.says \in {None, "nonode", "net"} \/ Mine(f, f.res)
Replied == \A t \in Threads : Answered(th[t])

ClusterInv ==
    /\ TypeOK /\ FramesOK
    /\ "raced" \notin met => Exclusive /\ Replied
    /\ Sound => InStep


-----------------------------------------------------------------------------
(* Where a thread goes on.                                                 *)

\* Where a search ends is one of what it looks for.
LEMMA FirstIsIn == ASSUME NEW S, NEW x \in First(S) PROVE x \in S
  BY Zenon DEF First

\* g is th with another frame for t.
Moves(g, t) == g \in [Threads -> Frames] /\ \A u \in Threads : u # t => g[u] = th[u]

\* A thread goes on to l.
LEMMA GotoMoves ==
    ASSUME TypeOK, NEW t \in Threads, NEW l \in Labels
    PROVE  Moves(Goto(t, l), t) /\ Goto(t, l)[t] = [th[t] EXCEPT !.pc = l]
  BY ZenonT(30) DEF TypeOK, Moves, Goto, Frames

\* A thread gives up its entry and goes on with frame g[t], its call the same.
Leaves(g, t) == Moves(g, t) /\ FrameOK(g[t]) /\ g[t].nc = 0 /\ g[t].id = th[t].id

\* Enter gives up the entry.
LEMMA EnterMoves ==
    ASSUME TypeOK, NEW t \in Threads, NEW l \in Labels, NEW b \in BOOLEAN
    PROVE  /\ Moves(Enter(t, l, b), t)
           /\ Enter(t, l, b)[t] = [th[t] EXCEPT !.pc = l, !.r = b, !.at = 0, !.nc = 0,
                                                !.name = None, !.idx = 0]
<1> DEFINE f == [th[t] EXCEPT !.pc = l, !.r = b, !.at = 0, !.nc = 0, !.name = None, !.idx = 0]
<1>1. th \in [Threads -> Frames] /\ None \in Names
  BY Zenon DEF TypeOK, Names
<1>2. f \in Frames
  BY <1>1, ZenonT(30) DEF Frames
<1>3. Enter(t, l, b) = [th EXCEPT ![t] = f]
  BY <1>1, Zenon DEF Enter, Frames
<1> HIDE DEF f
<1>4. Enter(t, l, b)[t] = f /\ Moves(Enter(t, l, b), t)
  BY <1>1, <1>2, <1>3, Zenon DEF Moves
<1>5. QED
  BY <1>4, Zenon DEF f

\* vc_cluster_cmd makes its next attempt.
LEMMA RetryLeaves ==
    ASSUME TypeOK, NEW t \in Threads, th[t].op = "cmd"
    PROVE  LET f == Retry(t)[t] IN
           /\ Leaves(Retry(t), t) /\ f.res = th[t].res
           /\ f.pc = "pick" /\ ~f.r /\ f.op = "cmd" /\ f.ni = th[t].ni /\ f.attempt = th[t].attempt + 1
<1> DEFINE g == Enter(t, "pick", FALSE)
           f == [g[t] EXCEPT !.attempt = @ + 1]
<1>1. Moves(g, t) /\ g[t] = [th[t] EXCEPT !.pc = "pick", !.r = FALSE, !.at = 0, !.nc = 0,
                                          !.name = None, !.idx = 0]
  BY EnterMoves, Zenon DEF Labels
<1>2. th[t] \in Frames /\ g[t] \in Frames
  BY <1>1, Zenon DEF TypeOK, Moves
<1>3. Retry(t) = [g EXCEPT ![t] = f]
  BY Zenon DEF Retry
<1>4. /\ f \in Frames
      /\ f.pc = "pick" /\ ~f.r /\ f.nc = 0 /\ f.op = "cmd" /\ f.id = th[t].id /\ f.res = th[t].res
      /\ f.ni = th[t].ni /\ f.attempt = th[t].attempt + 1
  <2> HIDE DEF g
  <2>1. /\ g[t].pc = "pick" /\ ~g[t].r /\ g[t].nc = 0 /\ g[t].op = "cmd"
        /\ g[t].id = th[t].id /\ g[t].res = th[t].res /\ g[t].ni = th[t].ni /\ g[t].attempt = th[t].attempt
    BY <1>1, <1>2, Zenon DEF Frames
  <2>2. g[t].attempt \in Nat
    BY <1>2, Zenon DEF Frames
  <2>3. g[t].attempt + 1 \in Nat
    BY <2>2
  <2>4. f \in Frames
    BY <1>2, <2>3, Zenon DEF Frames
  <2>5. f.pc = g[t].pc /\ f.r = g[t].r /\ f.nc = g[t].nc /\ f.op = g[t].op
        /\ f.id = g[t].id /\ f.res = g[t].res /\ f.ni = g[t].ni /\ f.attempt = g[t].attempt + 1
    BY <1>2, Zenon DEF Frames
  <2>6. QED
    BY <2>1, <2>4, <2>5, Zenon
<1> HIDE DEF f, g
<1>5. Moves(Retry(t), t) /\ Retry(t)[t] = f
  BY <1>1, <1>3, <1>4, ZenonT(30) DEF Moves
<1>6. FrameOK(f)
  BY <1>4, Zenon DEF FrameOK, Holds
<1>7. QED
  BY <1>4, <1>5, <1>6, Zenon DEF Leaves

\* health_thread goes to its next node.
LEMMA NextPingLeaves ==
    ASSUME TypeOK, NEW t \in Threads
    PROVE  LET f == NextPing(t)[t] IN
           /\ Leaves(NextPing(t), t) /\ f.res = th[t].res
           /\ f.pc = "idle" /\ ~f.r /\ f.op = th[t].op
<1> DEFINE f == NextPing(t)[t]
<1>1. /\ Moves(NextPing(t), t)
      /\ f = [th[t] EXCEPT !.pc = "idle", !.r = FALSE, !.at = 0, !.nc = 0, !.name = None, !.idx = 0]
  BY EnterMoves, Zenon DEF NextPing, Labels
<1>2. th[t] \in Frames
  BY Zenon DEF TypeOK
<1>3. f.pc = "idle" /\ ~f.r /\ f.nc = 0 /\ f.id = th[t].id /\ f.res = th[t].res /\ f.op = th[t].op
  BY <1>1, <1>2, Zenon DEF Frames
<1> HIDE DEF f
<1>4. FrameOK(f)
  BY <1>3, Zenon DEF FrameOK, Holds
<1>5. QED
  BY <1>1, <1>3, <1>4, Zenon DEF Leaves, f

\* A thread calls vc_cluster_refresh.
LEMMA RefreshLeaves ==
    ASSUME TypeOK, NEW t \in Threads
    PROVE  /\ Leaves(Refresh(t), t) /\ Refresh(t)[t].res = th[t].res
           /\ Refresh(t)[t].pc = "next" /\ Refresh(t)[t].r
<1> DEFINE f == Refresh(t)[t]
<1>1. /\ Moves(Refresh(t), t)
      /\ f = [th[t] EXCEPT !.pc = "next", !.r = TRUE, !.at = 0, !.nc = 0, !.name = None, !.idx = 0]
  BY EnterMoves, Zenon DEF Refresh, Labels
<1>2. th[t] \in Frames
  BY Zenon DEF TypeOK
<1>3. f.pc = "next" /\ f.r /\ f.nc = 0 /\ f.id = th[t].id /\ f.res = th[t].res
  BY <1>1, <1>2, Zenon DEF Frames
<1> HIDE DEF f
<1>4. FrameOK(f)
  BY <1>3, Zenon DEF FrameOK, Holds
<1>5. QED
  BY <1>1, <1>3, <1>4, Zenon DEF Leaves, f

\* The loop of vc_cluster_refresh goes to its next node.
LEMMA NextNodeLeaves ==
    ASSUME TypeOK, NEW t \in Threads, th[t].r
    PROVE  Leaves(NextNode(t), t) /\ NextNode(t)[t].res = th[t].res
<1> DEFINE f == [th[t] EXCEPT !.pc = "next", !.nc = 0]
<1>1. th[t] \in Frames /\ th \in [Threads -> Frames]
  BY Zenon DEF TypeOK
<1>2. NextNode(t) = [th EXCEPT ![t] = f]
  BY <1>1, Zenon DEF NextNode, Frames
<1>3. f \in Frames /\ f.pc = "next" /\ f.r /\ f.nc = 0 /\ f.id = th[t].id /\ f.res = th[t].res
  BY <1>1, Zenon DEF Frames, Labels
<1> HIDE DEF f
<1>4. FrameOK(f)
  BY <1>3, Zenon DEF FrameOK, Holds
<1>5. Moves(NextNode(t), t) /\ NextNode(t)[t] = f
  BY <1>1, <1>2, <1>3, Zenon DEF Moves
<1>6. QED
  BY <1>3, <1>4, <1>5, Zenon DEF Leaves

\* A call returns.
LEMMA ReturnLeaves ==
    ASSUME TypeOK, NEW t \in Threads, NEW m \in Messages
    PROVE  LET f == Return(t, m)[t] IN
           Leaves(Return(t, m), t) /\ f.res = m /\ f.pc = "idle" /\ ~f.r /\ f.op = None
  BY Zenon DEF TypeOK, Leaves, Moves, Return, Idle, Frames, FrameOK, Holds, Labels, Names

\* Results that are not replies.
LEMMA ResultTypes == \A s \in {None, "nonode", "net"} : Result(s) \in Messages /\ Result(s).says = s
  BY Zenon DEF Result, Messages, Says, Names

\* vc_cluster_refresh returns, with no reply.
LEMMA RefreshedLeaves ==
    ASSUME TypeOK, NEW t \in Threads
    PROVE  Leaves(Refreshed(t), t) /\ (Refreshed(t)[t].res = th[t].res \/ Refreshed(t)[t].res.says = None)
<1>1. CASE th[t].op = "cmd"
  BY <1>1, RetryLeaves, Zenon DEF Refreshed
<1>2. CASE th[t].op = "ping"
  BY <1>2, NextPingLeaves, Zenon DEF Refreshed
<1>3. CASE th[t].op \notin {"cmd", "ping"}
  <2>1. Refreshed(t) = Return(t, NoResult)
    BY <1>3, Zenon DEF Refreshed
  <2>2. NoResult \in Messages /\ NoResult.says = None
    BY ResultTypes, Zenon DEF NoResult
  <2>3. QED
    BY <2>1, <2>2, ReturnLeaves, ZenonT(30)
<1>4. QED
  BY <1>1, <1>2, <1>3, Zenon

\* There is no connection, or the send failed.
LEMMA FailedLeaves ==
    ASSUME TypeOK, NEW t \in Threads
    PROVE  Leaves(Failed(t), t) /\ Failed(t)[t].res = th[t].res
<1>1. CASE th[t].r
  BY <1>1, NextNodeLeaves, Zenon DEF Failed
<1>2. CASE ~th[t].r /\ th[t].op = "cmd"
  BY <1>2, RetryLeaves, Zenon DEF Failed
<1>3. CASE ~th[t].r /\ th[t].op # "cmd"
  BY <1>3, RefreshLeaves, Zenon DEF Failed
<1>4. QED
  BY <1>1, <1>2, <1>3, Zenon


-----------------------------------------------------------------------------
(* What a step of one thread leaves to the others.                         *)

\* A frame that holds an entry says which.
LEMMA HeldEntry ==
    ASSUME NEW f, FrameOK(f), f.nc # 0
    PROVE  Holds(f) /\ f.nc \in Pool /\ f.at \in Index
  BY Zenon DEF FrameOK

\* Thread t may change entry c of node x: it holds it, or nobody does.
May(t, x, c) ==
    \/ th[t].nc # 0 /\ th[t].at = x /\ th[t].nc = c
    \/ th[t].nc = 0 /\ ~conns[x][c].in_use

\* The other threads' entries are others.
LEMMA OthersApart ==
    ASSUME FramesOK, Exclusive, NEW t \in Threads, NEW x, NEW c, May(t, x, c),
           NEW u \in Threads, u # t, th[u].nc # 0
    PROVE  ~(th[u].at = x /\ th[u].nc = c)
  BY Zenon DEF Exclusive, May

\* Entry c of node x becomes e.
Sets(x, c, e) == conns' = [conns EXCEPT ![x][c] = e]

Only(x, c) == \A y \in Index, d \in Pool : ~(y = x /\ d = c) => conns'[y][d] = conns[y][d]

\* The others do not change.
LEMMA EntryChanges ==
    ASSUME TypeOK, NEW x \in Index, NEW c \in Pool, NEW e \in Entries, Sets(x, c, e)
    PROVE  conns' \in [Index -> [Pool -> Entries]] /\ conns'[x][c] = e /\ Only(x, c)
<1>1. conns \in [Index -> [Pool -> Entries]]
  BY Zenon DEF TypeOK
<1>2. QED
  BY <1>1, Zenon DEF Sets, Only

\* Thread t changes entry c of node x, which it has before or after.
Takes(t, x, c) ==
    /\ Moves(th', t) /\ FrameOK(th'[t]) /\ May(t, x, c)
    /\ Only(x, c)
    /\ th'[t].nc = 0 \/ (th'[t].at = x /\ th'[t].nc = c)

\* The other threads keep their frames and their entries, which are not this one.
Keeps(t, x, c) ==
    \A u \in Threads : u # t =>
        /\ th'[u] = th[u]
        /\ th[u].nc # 0 => /\ ~(th[u].at = x /\ th[u].nc = c)
                           /\ conns'[th[u].at][th[u].nc] = conns[th[u].at][th[u].nc]

\* A step on an entry that a thread may change does not concern the others.
LEMMA OthersKeep ==
    ASSUME FramesOK, Exclusive, NEW t \in Threads, NEW x \in Index, NEW c \in Pool, Takes(t, x, c)
    PROVE  Keeps(t, x, c)
<1> SUFFICES ASSUME NEW u \in Threads, u # t
             PROVE  /\ th'[u] = th[u]
                    /\ th[u].nc # 0 => /\ ~(th[u].at = x /\ th[u].nc = c)
                                       /\ conns'[th[u].at][th[u].nc] = conns[th[u].at][th[u].nc]
  BY Zenon DEF Keeps
<1>1. th'[u] = th[u]
  BY Zenon DEF Takes, Moves
<1>2. ASSUME th[u].nc # 0
      PROVE  /\ ~(th[u].at = x /\ th[u].nc = c)
             /\ conns'[th[u].at][th[u].nc] = conns[th[u].at][th[u].nc]
  <2>1. May(t, x, c) /\ \A y \in Index, d \in Pool : ~(y = x /\ d = c) => conns'[y][d] = conns[y][d]
    BY Zenon DEF Takes, Only
  <2>2. FrameOK(th[u])
    BY Zenon DEF FramesOK
  <2>3. th[u].nc \in Pool /\ th[u].at \in Index
    BY <1>2, <2>2, HeldEntry, Zenon
  <2>4. ~(th[u].at = x /\ th[u].nc = c)
    BY <1>2, <2>1, OthersApart, ZenonT(30)
  <2>5. QED
    BY <2>1, <2>3, <2>4, Zenon
<1>3. QED
  BY <1>1, <1>2, Zenon

\* Entries stay with one thread each.
LEMMA TakesExclusive ==
    ASSUME FramesOK, Exclusive, UNCHANGED host,
           NEW t \in Threads, NEW x \in Index, NEW c \in Pool, Takes(t, x, c),
           th'[t].nc # 0 => conns'[x][c].in_use,
           host[x] = Blank => ~conns'[x][c].in_use
    PROVE  Exclusive'
<1>0. Keeps(t, x, c)
  BY OthersKeep, Zenon
<1>1. ASSUME NEW u \in Threads, u # t
      PROVE  /\ th'[u] = th[u]
             /\ th[u].nc # 0 => /\ ~(th[u].at = x /\ th[u].nc = c)
                                /\ conns'[th[u].at][th[u].nc] = conns[th[u].at][th[u].nc]
  BY <1>0, <1>1, Zenon DEF Keeps
<1>2. th'[t].nc = 0 \/ (th'[t].at = x /\ th'[t].nc = c)
  BY Zenon DEF Takes
<1>3. ASSUME NEW u \in Threads, th'[u].nc # 0 PROVE conns'[th'[u].at][th'[u].nc].in_use
  <2>1. CASE u = t
    BY <1>2, <1>3, <2>1, Zenon
  <2>2. CASE u # t
    BY <1>1, <1>3, <2>2, Zenon DEF Exclusive
  <2>3. QED
    BY <2>1, <2>2, Zenon
<1>4. ASSUME NEW u \in Threads, NEW v \in Threads, u # v, th'[u].nc # 0,
             th'[u].at = th'[v].at, th'[u].nc = th'[v].nc
      PROVE  FALSE
  <2>1. CASE u = t
    BY <1>1, <1>2, <1>4, <2>1, Zenon
  <2>2. CASE v = t
    BY <1>1, <1>2, <1>4, <2>2, ZenonT(30)
  <2>3. CASE u # t /\ v # t
    <3>1. th[u].nc # 0 /\ th[u].at = th[v].at /\ th[u].nc = th[v].nc
      BY <1>1, <1>4, <2>3, Zenon
    <3>2. QED
      BY <1>4, <3>1, Zenon DEF Exclusive
  <2>4. QED
    BY <2>1, <2>2, <2>3, Zenon
<1>5. ASSUME NEW y \in Index, host'[y] = Blank, NEW d \in Pool PROVE ~conns'[y][d].in_use
  <2>1. host[y] = Blank
    BY <1>5, Zenon
  <2>2. CASE y = x /\ d = c
    BY <2>1, <2>2, Zenon
  <2>3. CASE ~(y = x /\ d = c)
    <3>1. conns'[y][d] = conns[y][d]
      BY <2>3, Zenon DEF Takes, Only
    <3>2. ~conns[y][d].in_use
      BY <2>1, Zenon DEF Exclusive
    <3>3. QED
      BY <3>1, <3>2, Zenon
  <2>4. QED
    BY <2>2, <2>3, Zenon
<1>6. \A u, v \in Threads : u # v /\ th'[u].nc # 0 => <<th'[u].at, th'[u].nc>> # <<th'[v].at, th'[v].nc>>
  BY <1>4, Zenon
<1>7. QED
  BY <1>3, <1>5, <1>6, Zenon DEF Exclusive

\* And what is unread in them is what their threads wait for.
LEMMA TakesInStep ==
    ASSUME FramesOK, Exclusive, InStep,
           NEW t \in Threads, NEW x \in Index, NEW c \in Pool, Takes(t, x, c),
           ~conns'[x][c].in_use => conns'[x][c].unread = <<>>,
           th'[t].nc # 0 => Awaited(th'[t], conns'[x][c])
    PROVE  InStep'
<1>1. ASSUME NEW y \in Index, NEW d \in Pool, ~conns'[y][d].in_use PROVE conns'[y][d].unread = <<>>
  <2>1. CASE y = x /\ d = c
    BY <1>1, <2>1, Zenon
  <2>2. CASE ~(y = x /\ d = c)
    <3>1. conns'[y][d] = conns[y][d]
      BY <2>2, Zenon DEF Takes, Only
    <3>2. QED
      BY <1>1, <3>1, Zenon DEF InStep
  <2>3. QED
    BY <2>1, <2>2, Zenon
<1>2. ASSUME NEW u \in Threads, th'[u].nc # 0
      PROVE  Awaited(th'[u], conns'[th'[u].at][th'[u].nc])
  <2>1. CASE u = t
    BY <1>2, <2>1, Zenon DEF Takes
  <2>2. CASE u # t
    <3>0. Keeps(t, x, c)
      BY OthersKeep, Zenon
    <3>1. th[u].nc # 0 /\ th'[u] = th[u] /\ conns'[th[u].at][th[u].nc] = conns[th[u].at][th[u].nc]
      BY <1>2, <2>2, <3>0, Zenon DEF Keeps
    <3>2. Awaited(th[u], conns[th[u].at][th[u].nc])
      BY <3>1, Zenon DEF InStep
    <3>3. QED
      BY <3>1, <3>2, Zenon
  <2>3. QED
    BY <2>1, <2>2, Zenon
<1>3. QED
  BY <1>1, <1>2, Zenon DEF InStep


\* Entries do not change, and thread t keeps its own or gives it up.
Stays(t) ==
    /\ Moves(th', t) /\ FrameOK(th'[t]) /\ UNCHANGED <<conns, host>>
    /\ th'[t].nc = 0 \/ (th'[t].at = th[t].at /\ th'[t].nc = th[t].nc)

\* Frames stay consistent.
LEMMA MovesFrames ==
    ASSUME FramesOK, NEW t \in Threads, Moves(th', t), FrameOK(th'[t])
    PROVE  FramesOK'
<1> SUFFICES ASSUME NEW u \in Threads PROVE FrameOK(th'[u])
  BY Zenon DEF FramesOK
<1>1. CASE u = t
  BY <1>1, Zenon
<1>2. CASE u # t
  <2>1. th'[u] = th[u] /\ FrameOK(th[u])
    BY <1>2, Zenon DEF Moves, FramesOK
  <2>2. QED
    BY <2>1, Zenon
<1>3. QED
  BY <1>1, <1>2, Zenon

\* Every call keeps its answer.
LEMMA MovesReplied ==
    ASSUME Replied, NEW t \in Threads, Moves(th', t), Answered(th'[t])
    PROVE  Replied'
<1> SUFFICES ASSUME NEW u \in Threads PROVE Answered(th'[u])
  BY Zenon DEF Replied
<1>1. CASE u = t
  BY <1>1, Zenon
<1>2. CASE u # t
  <2>1. th'[u] = th[u] /\ Answered(th[u])
    BY <1>2, Zenon DEF Moves, Replied
  <2>2. QED
    BY <2>1, Zenon
<1>3. QED
  BY <1>1, <1>2, Zenon

\* Entries stay with one thread each.
LEMMA StaysExclusive ==
    ASSUME Exclusive, NEW t \in Threads, Stays(t)
    PROVE  Exclusive'
<1>1. \A u \in Threads : th'[u].nc # 0 => th'[u].nc = th[u].nc /\ th'[u].at = th[u].at
  BY Zenon DEF Stays, Moves
<1>2. \A u \in Threads : th'[u].nc # 0 => conns'[th'[u].at][th'[u].nc].in_use
  BY <1>1, Zenon DEF Stays, Exclusive
<1>3. ASSUME NEW u \in Threads, NEW v \in Threads, u # v, th'[u].nc # 0,
             th'[u].at = th'[v].at, th'[u].nc = th'[v].nc
      PROVE  FALSE
  <2>1. th'[v].nc # 0
    BY <1>3, Zenon
  <2>2. th[u].nc # 0 /\ th[u].at = th[v].at /\ th[u].nc = th[v].nc
    BY <1>1, <1>3, <2>1, Zenon
  <2>3. QED
    BY <1>3, <2>2, Zenon DEF Exclusive
<1>4. \A u, v \in Threads : u # v /\ th'[u].nc # 0 => <<th'[u].at, th'[u].nc>> # <<th'[v].at, th'[v].nc>>
  BY <1>3, Zenon
<1>5. \A y \in Index : host'[y] = Blank => \A d \in Pool : ~conns'[y][d].in_use
  BY Zenon DEF Stays, Exclusive
<1>6. QED
  BY <1>2, <1>4, <1>5, Zenon DEF Exclusive

\* And what is unread in them is what their threads wait for.
LEMMA StaysInStep ==
    ASSUME InStep, NEW t \in Threads, Stays(t),
           th'[t].nc # 0 => Awaited(th'[t], conns[th[t].at][th[t].nc])
    PROVE  InStep'
<1>1. UNCHANGED conns
  BY Zenon DEF Stays
<1>2. \A y \in Index, d \in Pool : ~conns'[y][d].in_use => conns'[y][d].unread = <<>>
  BY <1>1, Zenon DEF InStep
<1>3. ASSUME NEW u \in Threads
      PROVE  th'[u].nc # 0 => Awaited(th'[u], conns'[th'[u].at][th'[u].nc])
  <2>1. CASE u = t
    <3>1. th'[t].nc # 0 => th'[t].at = th[t].at /\ th'[t].nc = th[t].nc
      BY Zenon DEF Stays
    <3>2. QED
      BY <1>1, <2>1, <3>1, Zenon
  <2>2. CASE u # t
    <3>1. th'[u] = th[u]
      BY <2>2, Zenon DEF Stays, Moves
    <3>2. QED
      BY <1>1, <3>1, Zenon DEF InStep
  <2>3. QED
    BY <2>1, <2>2, Zenon
<1>4. QED
  BY <1>2, <1>3, Zenon DEF InStep

\* A frame that has gone on waits for the same reply.
SameCall(f, g) == g.id = f.id /\ g.res = f.res
Same(f, g)     == SameCall(f, g) /\ g.r = f.r /\ g.op = f.op

\* So what it waits for does not change.
LEMMA SameAwaits ==
    ASSUME NEW f, NEW g, Same(f, g), NEW e, g.pc \notin {"send", "close", "drop"}
    PROVE  Awaited(f, e) => Awaited(g, e)
  BY Zenon DEF Awaited, Given, Mine, Same, SameCall

\* Nor does what it was answered.
LEMMA SameAnswer == ASSUME NEW f, NEW g, SameCall(f, g), Answered(f) PROVE Answered(g)
  BY Zenon DEF Answered, Mine, SameCall

\* In a state that is Sound no entry was closed under another thread's eyes.
LEMMA SoundIs == (Sound => "raced" \notin met) /\ (Sound /\ UNCHANGED met => Sound')
  BY Zenon DEF Sound

\* Thread t goes on without touching an entry.
LEMMA StayInv ==
    ASSUME ClusterInv, Sound, TypeOK', NEW t \in Threads, Stays(t),
           "raced" \notin met' => Answered(th'[t]),
           Sound' /\ th'[t].nc # 0 => Awaited(th'[t], conns[th[t].at][th[t].nc])
    PROVE  ClusterInv'
<1>1. TypeOK /\ FramesOK /\ Exclusive /\ Replied /\ InStep
  BY SoundIs, Zenon DEF ClusterInv
<1>2. FramesOK' /\ ("raced" \notin met' => Replied')
  BY <1>1, MovesFrames, MovesReplied, Zenon DEF Stays
<1>3. Exclusive'
  BY <1>1, StaysExclusive, Zenon
<1>4. Sound' => InStep'
  BY <1>1, StaysInStep, Zenon
<1>5. QED
  BY <1>2, <1>3, <1>4, Zenon DEF ClusterInv

\* Thread t changes one entry.
LEMMA TakeInv ==
    ASSUME ClusterInv, Sound, TypeOK', UNCHANGED host,
           NEW t \in Threads, NEW x \in Index, NEW c \in Pool, Takes(t, x, c),
           "raced" \notin met' => (th'[t].nc # 0 => conns'[x][c].in_use),
           "raced" \notin met' => (host[x] = Blank => ~conns'[x][c].in_use),
           Sound' => (~conns'[x][c].in_use => conns'[x][c].unread = <<>>),
           Sound' => (th'[t].nc # 0 => Awaited(th'[t], conns'[x][c])),
           "raced" \notin met' => Answered(th'[t])
    PROVE  ClusterInv'
<1>1. TypeOK /\ FramesOK /\ Exclusive /\ Replied /\ InStep
  BY SoundIs, Zenon DEF ClusterInv
<1>2. FramesOK' /\ ("raced" \notin met' => Replied')
  BY <1>1, MovesFrames, MovesReplied, Zenon DEF Takes
<1>3. "raced" \notin met' => Exclusive'
  BY <1>1, TakesExclusive, Zenon
<1>4. Sound' => InStep'
  BY <1>1, TakesInStep, Zenon
<1>5. QED
  BY <1>2, <1>3, <1>4, Zenon DEF ClusterInv


\* What an invariant state that is Sound offers.
LEMMA InvParts ==
    ASSUME ClusterInv, Sound
    PROVE  RestOK /\ TypeOK /\ FramesOK /\ Exclusive /\ Replied /\ InStep
  BY SoundIs, Zenon DEF ClusterInv, TypeOK

\* A frame that goes on from f, with the entry it has or without one.
Follows(f, g) ==
    /\ FrameOK(g) /\ SameCall(f, g)
    /\ \/ g.nc = 0
       \/ g.at = f.at /\ g.nc = f.nc /\ Same(f, g) /\ g.pc \notin {"send", "close", "drop"}

Goes(t) == Moves(th', t) /\ Follows(th[t], th'[t])

\* Going on keeps the invariant.
LEMMA GoInv ==
    ASSUME ClusterInv, Sound, RestOK', NEW t \in Threads, Goes(t), UNCHANGED <<conns, host>>
    PROVE  ClusterInv'
<1>1. TypeOK /\ Replied /\ InStep
  BY InvParts, Zenon
<1>2. TypeOK'
  <2>1. conns' = conns /\ th' \in [Threads -> Frames]
    BY Zenon DEF Goes, Moves
  <2>2. conns' \in [Index -> [Pool -> Entries]]
    BY <1>1, <2>1, Zenon DEF TypeOK
  <2>3. QED
    BY <2>1, <2>2, Zenon DEF TypeOK
<1>3. Stays(t)
  BY Zenon DEF Goes, Follows, Stays
<1>4. Answered(th[t]) /\ (th[t].nc # 0 => Awaited(th[t], conns[th[t].at][th[t].nc]))
  BY <1>1, Zenon DEF InStep, Replied
<1>5. /\ SameCall(th[t], th'[t])
      /\ th'[t].nc # 0 => /\ th[t].nc # 0 /\ Same(th[t], th'[t])
                          /\ th'[t].pc \notin {"send", "close", "drop"}
  BY Zenon DEF Goes, Follows
<1>6. Answered(th'[t])
  BY <1>4, <1>5, SameAnswer, Zenon
<1>7. th'[t].nc # 0 => Awaited(th'[t], conns[th[t].at][th[t].nc])
  BY <1>4, <1>5, SameAwaits, Zenon
<1>8. QED
  BY <1>2, <1>3, <1>6, <1>7, StayInv, Zenon

\* So does going on without an entry.
LEMMA LeaveInv ==
    ASSUME ClusterInv, Sound, RestOK', NEW t \in Threads, Leaves(th', t), UNCHANGED <<conns, host>>,
           Answered(th'[t])
    PROVE  ClusterInv'
<1>1. TypeOK
  BY InvParts, Zenon
<1>2. TypeOK'
  <2>1. conns' = conns /\ th' \in [Threads -> Frames]
    BY Zenon DEF Leaves, Moves
  <2>2. conns' \in [Index -> [Pool -> Entries]]
    BY <1>1, <2>1, Zenon DEF TypeOK
  <2>3. QED
    BY <2>1, <2>2, Zenon DEF TypeOK
<1>3. Stays(t) /\ th'[t].nc = 0
  BY ZenonT(30) DEF Leaves, Stays
<1>4. QED
  BY <1>2, <1>3, StayInv, Zenon

\* And giving an entry back, with nothing unread.
LEMMA ReleaseInv ==
    ASSUME ClusterInv, Sound, RestOK', NEW t \in Threads, Leaves(th', t), UNCHANGED host,
           Holds(th[t]), NEW e \in Entries, conns' = [conns EXCEPT ![th[t].at][th[t].nc] = e],
           ~e.in_use, Sound' => e.unread = <<>>, "raced" \notin met' => Answered(th'[t])
    PROVE  ClusterInv'
<1> DEFINE x == th[t].at
           c == th[t].nc
<1>1. TypeOK /\ FrameOK(th[t])
  BY InvParts, Zenon DEF FramesOK
<1>2. x \in Index /\ c \in Pool /\ c # 0
  BY <1>1 DEF FrameOK, Pool
<1>3. conns' \in [Index -> [Pool -> Entries]] /\ conns'[x][c] = e /\ Only(x, c)
  <2>1. Sets(x, c, e)
    BY Zenon DEF Sets
  <2> HIDE DEF x, c
  <2>2. QED
    BY <1>1, <1>2, <2>1, EntryChanges, Zenon
<1>4. TypeOK'
  <2>1. th' \in [Threads -> Frames]
    BY Zenon DEF Leaves, Moves
  <2>2. QED
    BY <1>3, <2>1, Zenon DEF TypeOK
<1>5. th'[t].nc = 0 /\ Takes(t, x, c)
  BY <1>2, <1>3, Zenon DEF Leaves, Takes, May
<1> HIDE DEF x, c
<1>6. QED
  BY <1>2, <1>3, <1>4, <1>5, TakeInv, Zenon

\* The result of a call does not change before the call returns.
LEMMA LeavesAnswered ==
    ASSUME ClusterInv, Sound, NEW t \in Threads, NEW g, Leaves(g, t),
           g[t].res = th[t].res \/ g[t].res.says \in {None, "nonode", "net"}
    PROVE  Answered(g[t])
<1>1. Answered(th[t]) /\ g[t].id = th[t].id
  BY InvParts, Zenon DEF Replied, Leaves
<1>2. QED
  BY <1>1, Zenon DEF Answered, Mine


-----------------------------------------------------------------------------
(* Steps that leave the entries alone.                                     *)

\* The frame of t after Goto, with other fields changed.
LEMMA FrameIs ==
    ASSUME ClusterInv, Sound, NEW t \in Threads
    PROVE  th \in [Threads -> Frames] /\ th[t] \in Frames /\ FrameOK(th[t]) /\ RestOK
  BY InvParts, Zenon DEF TypeOK, FramesOK

\* A thread whose frame becomes f.
LEMMA FrameMoves ==
    ASSUME ClusterInv, Sound, NEW t \in Threads, NEW f \in Frames, th' = [th EXCEPT ![t] = f]
    PROVE  Moves(th', t) /\ th'[t] = f
<1>1. th \in [Threads -> Frames]
  BY FrameIs, Zenon
<1>2. QED
  BY <1>1, Zenon DEF Moves

\* The indices of the nodes in the table.
LEMMA KnownIndex == RestOK => Known \subseteq Index /\ Index \subseteq Nat
  BY ClusterAssumption DEF RestOK, Known, Index

\* vc_cluster_refresh goes to a node of the table, or returns.
LEMMA RefreshInv ==
    ASSUME ClusterInv, Sound, NEW t \in Threads, vc_cluster_refresh(t)
    PROVE  ClusterInv'
<1> DEFINE ahead == {y \in Known : y > th[t].at /\ alive[y]}
<1>1. th[t] \in Frames /\ FrameOK(th[t]) /\ RestOK /\ TypeOK
  BY FrameIs, InvParts, Zenon
<1>2. UNCHANGED <<conns, host, owner, calls, node_count, alive>>
  BY Zenon DEF vc_cluster_refresh
<1>3. slot_map' \in Nat
  <2>1. slot_map' \in {1, slot_map}
    BY Zenon DEF vc_cluster_refresh
  <2>2. QED
    BY <1>1, <2>1 DEF RestOK
<1>4. RestOK'
  BY <1>1, <1>2, <1>3, Zenon DEF RestOK
<1>5. ASSUME NEW x \in First(ahead), th' = [Goto(t, "get") EXCEPT ![t].at = x] PROVE ClusterInv'
  <2> DEFINE f == [th[t] EXCEPT !.pc = "get", !.at = x]
  <2>1. x \in Known
    BY <1>5, FirstIsIn, Zenon
  <2>2. x \in Index /\ x \in Nat
    BY <1>1, <2>1, KnownIndex, Zenon
  <2>3. th' = [th EXCEPT ![t] = f]
    BY <1>1, <1>5, Zenon DEF Goto, TypeOK, Frames
  <2>4. f \in Frames
    BY <1>1, <2>2, Zenon DEF Frames, Labels
  <2>5. f.pc = "get" /\ f.at = x /\ f.nc = th[t].nc /\ f.r = th[t].r /\ f.op = th[t].op /\ SameCall(th[t], f)
    BY <1>1, Zenon DEF Frames, SameCall
  <2> HIDE DEF f
  <2>6. th[t].pc = "next"
    BY Zenon DEF vc_cluster_refresh
  <2>7. FrameOK(f) /\ f.nc = 0
    BY <1>1, <2>2, <2>5, <2>6, Zenon DEF FrameOK, Holds
  <2>8. Goes(t)
    BY <2>3, <2>4, <2>5, <2>7, FrameMoves, Zenon DEF Goes, Follows
  <2>9. QED
    BY <1>2, <1>4, <2>8, GoInv, Zenon
<1>6. CASE th' = Refreshed(t)
  <2>1. Leaves(th', t) /\ (th'[t].res = th[t].res \/ th'[t].res.says = None)
    BY <1>1, <1>6, RefreshedLeaves, Zenon
  <2>2. Answered(th'[t])
    BY <2>1, LeavesAnswered, Zenon
  <2>3. QED
    BY <1>2, <1>4, <2>1, <2>2, LeaveInv, Zenon
<1>7. QED
  BY <1>5, <1>6, Zenon DEF vc_cluster_refresh

\* The frame of a thread that goes on to l with its entry.
LEMMA GotoInv ==
    ASSUME ClusterInv, Sound, RestOK', NEW t \in Threads, NEW l \in Labels,
           l \notin {"send", "close", "drop"}, th' = Goto(t, l), UNCHANGED <<conns, host>>,
           NEW f, f = [th[t] EXCEPT !.pc = l], FrameOK(f)
    PROVE  ClusterInv'
<1>1. th[t] \in Frames /\ TypeOK
  BY FrameIs, InvParts, Zenon
<1>2. Moves(th', t) /\ th'[t] = f
  BY <1>1, GotoMoves, Zenon
<1>3. f.pc = l /\ f.nc = th[t].nc /\ f.at = th[t].at /\ Same(th[t], f)
  BY <1>1, Zenon DEF Frames, Same, SameCall
<1>4. Goes(t)
  BY <1>2, <1>3, Zenon DEF Goes, Follows, Same
<1>5. QED
  BY <1>4, GoInv, Zenon

\* The fields that Goto leaves.
LEMMA GotoFields ==
    ASSUME NEW f \in Frames, NEW l
    PROVE  LET g == [f EXCEPT !.pc = l] IN
           /\ g.pc = l /\ g.nc = f.nc /\ g.at = f.at /\ g.r = f.r /\ g.op = f.op /\ g.idx = f.idx
           /\ g.id = f.id /\ g.res = f.res /\ g.name = f.name /\ g.ni = f.ni /\ g.attempt = f.attempt
  BY Zenon DEF Frames

\* vc_cluster_refresh takes topology_lock.
LEMMA LockInv ==
    ASSUME ClusterInv, Sound, NEW t \in Threads, refresh_lock(t)
    PROVE  ClusterInv'
<1> DEFINE f == [th[t] EXCEPT !.pc = "range"]
<1>1. th[t] \in Frames /\ FrameOK(th[t]) /\ RestOK
  BY FrameIs, Zenon
<1>2. /\ th[t].pc = "lock" /\ th' = Goto(t, "range") /\ slot_map' = 0
      /\ UNCHANGED <<conns, host, owner, calls, node_count, alive>>
  BY Zenon DEF refresh_lock
<1>3. RestOK'
  BY <1>1, <1>2, Zenon DEF RestOK
<1>4. f.pc = "range" /\ f.nc = th[t].nc /\ f.at = th[t].at /\ f.r = th[t].r /\ f.op = th[t].op
  BY <1>1, GotoFields, Zenon
<1> HIDE DEF f
<1>5. FrameOK(f)
  BY <1>1, <1>2, <1>4, Zenon DEF FrameOK, Holds
<1>6. QED
  BY <1>2, <1>3, <1>5, GotoInv, Zenon DEF f, Labels


\* A thread whose frame becomes f.
LEMMA FrameInv ==
    ASSUME ClusterInv, Sound, RestOK', NEW t \in Threads, NEW f \in Frames, th' = [th EXCEPT ![t] = f],
           UNCHANGED <<conns, host>>, Follows(th[t], f)
    PROVE  ClusterInv'
<1>1. Moves(th', t) /\ th'[t] = f
  BY FrameMoves, Zenon
<1>2. Goes(t)
  BY <1>1, Zenon DEF Goes
<1>3. QED
  BY <1>2, GoInv, Zenon

\* What is unread are messages.
LEMMA UnreadTypes ==
    ASSUME ClusterInv, Sound, NEW t \in Threads, Holds(th[t])
    PROVE  Conn(t) \in Entries /\ (Conn(t).unread # <<>> => Head(Conn(t).unread) \in Messages)
<1>1. TypeOK /\ FrameOK(th[t])
  BY InvParts, FrameIs, Zenon
<1>2. th[t].at \in Index /\ th[t].nc \in Pool
  BY <1>1, Zenon DEF FrameOK
<1>3. Conn(t) \in Entries
  BY <1>1, <1>2, Zenon DEF TypeOK, Conn
<1>4. Conn(t).unread \in Seq(Messages)
  BY <1>3, Zenon DEF Entries
<1>5. Conn(t).unread # <<>> => Head(Conn(t).unread) \in Messages
  BY <1>4
<1>6. QED
  BY <1>3, <1>5, Zenon

\* node_find_or_add begins for an address that was read.
LEMMA FindInv ==
    ASSUME ClusterInv, Sound, NEW t \in Threads, NEW nm \in Names, th[t].pc \in {"range", "found"},
           th' = [Goto(t, "find") EXCEPT ![t].name = nm], slot_map' \in Nat,
           UNCHANGED <<conns, host, owner, calls, node_count, alive>>
    PROVE  ClusterInv'
<1> DEFINE f == [th[t] EXCEPT !.pc = "find", !.name = nm]
<1>1. th \in [Threads -> Frames] /\ th[t] \in Frames /\ FrameOK(th[t]) /\ RestOK
  BY FrameIs, Zenon
<1>2. th' = [th EXCEPT ![t] = f]
  BY <1>1, Zenon DEF Goto, Frames
<1>3. f \in Frames
  BY <1>1, Zenon DEF Frames, Labels
<1>4. /\ f.pc = "find" /\ f.nc = th[t].nc /\ f.at = th[t].at /\ f.r = th[t].r /\ f.op = th[t].op
      /\ SameCall(th[t], f)
  BY <1>1, Zenon DEF Frames, SameCall
<1> HIDE DEF f
<1>5. Follows(th[t], f)
  <2>1. FrameOK(f)
    BY <1>1, <1>4, Zenon DEF FrameOK, Holds
  <2>2. QED
    BY <1>4, <2>1, Zenon DEF Follows, Same
<1>6. RestOK'
  BY <1>1, Zenon DEF RestOK
<1>7. QED
  BY <1>2, <1>3, <1>4, <1>5, <1>6, FrameInv, Zenon

\* Frame g, after the search for f ended with index x.
Finds(f, g, x) ==
    /\ g.op = f.op /\ g.attempt = f.attempt /\ g.r
    /\ IF f.r THEN g.pc = "found" /\ g.idx = x /\ g.ni = f.ni /\ g.at = f.at /\ g.nc = f.nc
       ELSE g.pc = "next" /\ g.ni = x /\ g.at = 0

\* node_find_or_add has found index x, or 0 for none.
LEMMA FoundFrame ==
    ASSUME ClusterInv, Sound, NEW t \in Threads, NEW x \in Nat, th[t].pc \in {"find", "init"}
    PROVE  \E f \in Frames : Found(t, x) = [th EXCEPT ![t] = f] /\ Follows(th[t], f) /\ Finds(th[t], f, x)
<1>1. th \in [Threads -> Frames] /\ th[t] \in Frames /\ FrameOK(th[t]) /\ TypeOK
  BY FrameIs, InvParts, Zenon
<1>2. CASE th[t].r
  <2> DEFINE f == [th[t] EXCEPT !.pc = "found", !.idx = x]
  <2>1. Found(t, x) = [th EXCEPT ![t] = f]
    BY <1>1, <1>2, Zenon DEF Found, Goto, Frames
  <2>2. f \in Frames
    BY <1>1, Zenon DEF Frames, Labels
  <2>3. /\ f.pc = "found" /\ f.nc = th[t].nc /\ f.at = th[t].at /\ f.r = th[t].r /\ f.op = th[t].op
        /\ f.id = th[t].id /\ f.res = th[t].res /\ f.idx = x /\ f.ni = th[t].ni /\ f.attempt = th[t].attempt
    BY <1>1, Zenon DEF Frames
  <2> HIDE DEF f
  <2>4. FrameOK(f)
    BY <1>1, <1>2, <2>3, Zenon DEF FrameOK, Holds
  <2>5. Follows(th[t], f)
    BY <2>3, <2>4, Zenon DEF Follows, Same, SameCall
  <2>6. Finds(th[t], f, x)
    BY <1>2, <2>3, Zenon DEF Finds
  <2>7. QED
    BY <2>1, <2>2, <2>5, <2>6, Zenon
<1>3. CASE ~th[t].r
  <2> DEFINE g == Refresh(t)
             f == [g[t] EXCEPT !.ni = x]
  <2>1. Leaves(g, t) /\ g[t].res = th[t].res /\ g[t].pc = "next" /\ g[t].r
    BY <1>1, RefreshLeaves, Zenon
  <2>2. g[t].op = th[t].op /\ g[t].at = 0 /\ g[t].attempt = th[t].attempt
    <3>1. g[t] = [th[t] EXCEPT !.pc = "next", !.r = TRUE, !.at = 0, !.nc = 0, !.name = None, !.idx = 0]
      BY <1>1, EnterMoves, Zenon DEF Refresh, Labels
    <3>2. QED
      BY <1>1, <3>1, Zenon DEF Frames
  <2>3. Found(t, x) = [g EXCEPT ![t] = f]
    BY <1>3, Zenon DEF Found
  <2> HIDE DEF g
  <2>4. g \in [Threads -> Frames] /\ g[t] \in Frames /\ g[t].nc = 0 /\ g[t].id = th[t].id
    BY <2>1, Zenon DEF Leaves, Moves
  <2>5. f \in Frames
    BY <2>4, Zenon DEF Frames
  <2>6. /\ f.pc = "next" /\ f.nc = 0 /\ f.r /\ f.op = th[t].op /\ f.id = th[t].id /\ f.res = th[t].res
        /\ f.at = 0 /\ f.ni = x /\ f.attempt = th[t].attempt
    BY <2>1, <2>2, <2>4, Zenon DEF Frames
  <2> HIDE DEF f
  <2>7. FrameOK(f)
    BY <2>6, Zenon DEF FrameOK, Holds
  <2>8. Found(t, x) = [th EXCEPT ![t] = f]
    <3>1. \A u \in Threads : u # t => g[u] = th[u]
      BY <2>1, Zenon DEF Leaves, Moves
    <3>2. QED
      BY <1>1, <2>3, <2>4, <3>1, Zenon
  <2>9. Follows(th[t], f)
    BY <2>6, <2>7, Zenon DEF Follows, SameCall
  <2>10. Finds(th[t], f, x)
    BY <1>3, <2>6, Zenon DEF Finds
  <2>11. QED
    BY <2>5, <2>8, <2>9, <2>10, Zenon
<1>4. QED
  BY <1>2, <1>3, Zenon


\* node_find_or_add searches, and takes the next index for a new node.
LEMMA SearchInv ==
    ASSUME ClusterInv, Sound, NEW t \in Threads, node_find_or_add(t)
    PROVE  ClusterInv'
<1> DEFINE same == {y \in Known : host[y] = th[t].name}
<1>1. th \in [Threads -> Frames] /\ th[t] \in Frames /\ FrameOK(th[t]) /\ RestOK
  BY FrameIs, Zenon
<1>2. /\ th[t].pc = "find" /\ UNCHANGED <<conns, host, owner, calls, node_count, alive, slot_map>>
      /\ \/ \E x \in First(same) : th' = Found(t, x)
         \/ /\ same = {}
            /\ th' = IF node_count >= VC_CLUSTER_MAX_NODES THEN Found(t, 0)
                     ELSE [Goto(t, "count") EXCEPT ![t].idx = node_count + 1]
  BY Zenon DEF node_find_or_add
<1>3. RestOK'
  BY <1>1, <1>2, Zenon DEF RestOK
<1>4. ASSUME NEW x \in Nat, th' = Found(t, x) PROVE ClusterInv'
  <2>1. PICK f \in Frames : Found(t, x) = [th EXCEPT ![t] = f] /\ Follows(th[t], f)
    BY <1>2, FoundFrame, Zenon
  <2>2. th' = [th EXCEPT ![t] = f]
    BY <1>4, <2>1, Zenon
  <2>3. QED
    BY <1>2, <1>3, <2>1, <2>2, FrameInv, Zenon
<1>5. ASSUME NEW x \in First(same), th' = Found(t, x) PROVE ClusterInv'
  <2>1. x \in Known
    BY <1>5, FirstIsIn, Zenon
  <2>2. x \in Nat
    BY <1>1, <2>1, KnownIndex, Zenon
  <2>3. QED
    BY <1>4, <1>5, <2>2, Zenon
<1>6. CASE th' = Found(t, 0)
  BY <1>4, <1>6, Zenon
<1>7. CASE ~(node_count >= VC_CLUSTER_MAX_NODES) /\ th' = [Goto(t, "count") EXCEPT ![t].idx = node_count + 1]
  <2> DEFINE x == node_count + 1
             f == [th[t] EXCEPT !.pc = "count", !.idx = x]
  <2>1. x \in Index /\ x \in Nat
    BY <1>1, <1>7, ClusterAssumption DEF RestOK, Index
  <2>2. th' = [Goto(t, "count") EXCEPT ![t].idx = x]
    BY <1>7, Zenon
  <2> HIDE DEF x
  <2>3. th' = [th EXCEPT ![t] = f]
    BY <1>1, <2>2, Zenon DEF Goto, Frames
  <2>4. f \in Frames
    BY <1>1, <2>1, Zenon DEF Frames, Labels
  <2>5. /\ f.pc = "count" /\ f.idx = x /\ f.nc = th[t].nc /\ f.at = th[t].at /\ f.r = th[t].r
        /\ f.op = th[t].op /\ SameCall(th[t], f)
    BY <1>1, Zenon DEF Frames, SameCall
  <2> HIDE DEF f
  <2>6. FrameOK(f)
    BY <1>1, <1>2, <2>1, <2>5, Zenon DEF FrameOK, Holds
  <2>7. Follows(th[t], f)
    BY <2>5, <2>6, Zenon DEF Follows, Same
  <2>8. QED
    BY <1>2, <1>3, <2>3, <2>4, <2>7, FrameInv, Zenon
<1>8. QED
  BY <1>2, <1>5, <1>6, <1>7, Zenon

\* It stores the new count.
LEMMA CountInv ==
    ASSUME ClusterInv, Sound, NEW t \in Threads, node_count_store(t)
    PROVE  ClusterInv'
<1> DEFINE f == [th[t] EXCEPT !.pc = "init"]
<1>1. th[t] \in Frames /\ FrameOK(th[t]) /\ RestOK
  BY FrameIs, Zenon
<1>2. /\ th[t].pc = "count" /\ th' = Goto(t, "init") /\ node_count' = th[t].idx
      /\ UNCHANGED <<conns, host, owner, calls, alive, slot_map>>
  BY Zenon DEF node_count_store
<1>3. th[t].idx \in Index
  BY <1>1, <1>2, Zenon DEF FrameOK
<1>4. RestOK'
  BY <1>1, <1>2, <1>3, ClusterAssumption, SMTT(30) DEF RestOK, Index
<1>5. f.pc = "init" /\ f.nc = th[t].nc /\ f.at = th[t].at /\ f.r = th[t].r /\ f.op = th[t].op /\ f.idx = th[t].idx
  BY <1>1, GotoFields, ZenonT(30)
<1> HIDE DEF f
<1>6. FrameOK(f)
  BY <1>1, <1>2, <1>5, Zenon DEF FrameOK, Holds
<1>7. QED
  BY <1>2, <1>4, <1>6, GotoInv, Zenon DEF f, Labels

\* A call begins.
LEMMA CallInv ==
    ASSUME ClusterInv, Sound, NEW t \in Threads, vc_cluster_cmd(t)
    PROVE  ClusterInv'
<1> DEFINE i == Idle(calls + 1, NoResult)
           f == [i EXCEPT !.pc = "slot", !.op = "cmd"]
<1>1. th \in [Threads -> Frames] /\ th[t] \in Frames /\ FrameOK(th[t]) /\ RestOK /\ TypeOK
  BY FrameIs, InvParts, Zenon
<1>2. /\ th[t].pc = "idle" /\ calls' = calls + 1 /\ th' = [th EXCEPT ![t] = f]
      /\ UNCHANGED <<conns, host, owner, node_count, alive, slot_map>>
  BY Zenon DEF vc_cluster_cmd
<1>3. RestOK'
  BY <1>1, <1>2 DEF RestOK
<1>4. NoResult \in Messages /\ NoResult.says = None
  BY ResultTypes, Zenon DEF NoResult
<1>5. calls + 1 \in Nat
  BY <1>1, SMTT(30) DEF RestOK
<1>6. i \in Frames /\ i.nc = 0 /\ ~i.r /\ i.res = NoResult
  BY <1>4, <1>5, Zenon DEF Idle, Frames, Labels, Names
<1> HIDE DEF i
<1>7. f \in Frames /\ f.nc = 0 /\ ~f.r /\ f.res = NoResult /\ f.pc = "slot" /\ f.op = "cmd"
  BY <1>6, Zenon DEF Frames, Labels
<1> HIDE DEF f
<1>8. FrameOK(f) /\ Answered(f)
  BY <1>4, <1>7, Zenon DEF FrameOK, Holds, Answered
<1>9. Moves(th', t) /\ th'[t] = f
  BY <1>2, <1>7, FrameMoves, Zenon
<1>10. Stays(t)
  BY <1>2, <1>7, <1>8, <1>9, Zenon DEF Stays
<1>11. TypeOK'
  BY <1>1, <1>2, <1>3, <1>9, Zenon DEF TypeOK, Moves
<1>12. QED
  BY <1>7, <1>8, <1>9, <1>10, <1>11, StayInv, Zenon

\* It reads the map, and fails when the slot is unassigned.
LEMMA SlotInv ==
    ASSUME ClusterInv, Sound, NEW t \in Threads, vc_cluster_node_for_slot(t)
    PROVE  ClusterInv'
<1>1. th \in [Threads -> Frames] /\ th[t] \in Frames /\ FrameOK(th[t]) /\ RestOK /\ TypeOK
  BY FrameIs, InvParts, Zenon
<1>2. th[t].pc = "slot" /\ UNCHANGED <<conns, host, owner, calls, node_count, alive, slot_map>>
  BY Zenon DEF vc_cluster_node_for_slot
<1>3. RestOK'
  BY <1>1, <1>2, Zenon DEF RestOK
<1>4. CASE th' = Return(t, Result("nonode"))
  <2>1. Result("nonode") \in Messages /\ Result("nonode").says = "nonode"
    BY ResultTypes, Zenon
  <2>2. Leaves(th', t) /\ th'[t].res = Result("nonode")
    BY <1>1, <1>4, <2>1, ReturnLeaves, Zenon
  <2>3. Answered(th'[t])
    BY <2>1, <2>2, Zenon DEF Answered
  <2>4. QED
    BY <1>2, <1>3, <2>2, <2>3, LeaveInv, Zenon
<1>5. CASE th' = [Goto(t, "pick") EXCEPT ![t].ni = slot_map]
  <2> DEFINE f == [th[t] EXCEPT !.pc = "pick", !.ni = slot_map]
  <2>1. slot_map \in Nat
    BY <1>1, Zenon DEF RestOK
  <2>2. th' = [th EXCEPT ![t] = f]
    BY <1>1, <1>5, Zenon DEF Goto, Frames
  <2>3. f \in Frames
    BY <1>1, <2>1, Zenon DEF Frames, Labels
  <2>4. f.pc = "pick" /\ f.nc = th[t].nc /\ f.r = th[t].r /\ f.op = th[t].op /\ SameCall(th[t], f)
    BY <1>1, Zenon DEF Frames, SameCall
  <2> HIDE DEF f
  <2>5. FrameOK(f) /\ f.nc = 0
    BY <1>1, <1>2, <2>4, Zenon DEF FrameOK, Holds
  <2>6. Follows(th[t], f)
    BY <2>4, <2>5, Zenon DEF Follows
  <2>7. QED
    BY <1>2, <1>3, <2>2, <2>3, <2>6, FrameInv, Zenon
<1>6. QED
  BY <1>4, <1>5, Zenon DEF vc_cluster_node_for_slot


\* vc_cluster_cmd turns to a node of the table, or gives up.
LEMMA AttemptInv ==
    ASSUME ClusterInv, Sound, NEW t \in Threads, cmd_attempt(t)
    PROVE  ClusterInv'
<1>1. th \in [Threads -> Frames] /\ th[t] \in Frames /\ FrameOK(th[t]) /\ RestOK /\ TypeOK
  BY FrameIs, InvParts, Zenon
<1>2. th[t].pc = "pick" /\ UNCHANGED <<conns, host, owner, calls, node_count, alive, slot_map>>
  BY Zenon DEF cmd_attempt
<1>3. RestOK'
  BY <1>1, <1>2, Zenon DEF RestOK
<1>4. \/ th' = Return(t, Result("net")) \/ th' = Return(t, Result("nonode"))
      \/ \E x \in Known : th' = [Goto(t, "get") EXCEPT ![t].ni = x, ![t].at = x]
  BY Zenon DEF cmd_attempt
<1>5. ASSUME NEW v \in {None, "nonode", "net"}, th' = Return(t, Result(v)) PROVE ClusterInv'
  <2>1. Result(v) \in Messages /\ Result(v).says = v
    BY ResultTypes, Zenon
  <2>2. Leaves(th', t) /\ th'[t].res = Result(v)
    BY <1>1, <1>5, <2>1, ReturnLeaves, Zenon
  <2>3. Answered(th'[t])
    BY <2>1, <2>2, Zenon DEF Answered
  <2>4. QED
    BY <1>2, <1>3, <2>2, <2>3, LeaveInv, Zenon
<1>6. ASSUME NEW x \in Known, th' = [Goto(t, "get") EXCEPT ![t].ni = x, ![t].at = x] PROVE ClusterInv'
  <2> DEFINE f == [th[t] EXCEPT !.pc = "get", !.ni = x, !.at = x]
  <2>1. x \in Index /\ x \in Nat
    BY <1>1, KnownIndex, Zenon
  <2>2. th' = [th EXCEPT ![t] = f]
    BY <1>1, <1>6, Zenon DEF Goto, Frames
  <2>3. f \in Frames
    BY <1>1, <2>1, Zenon DEF Frames, Labels
  <2>4. /\ f.pc = "get" /\ f.at = x /\ f.nc = th[t].nc /\ f.r = th[t].r
        /\ f.op = th[t].op /\ SameCall(th[t], f)
    BY <1>1, Zenon DEF Frames, SameCall
  <2> HIDE DEF f
  <2>5. FrameOK(f) /\ f.nc = 0
    BY <1>1, <1>2, <2>1, <2>4, Zenon DEF FrameOK, Holds
  <2>6. Follows(th[t], f)
    BY <2>4, <2>5, Zenon DEF Follows
  <2>7. QED
    BY <1>2, <1>3, <2>2, <2>3, <2>6, FrameInv, Zenon
<1>7. QED
  BY <1>4, <1>5, <1>6, Zenon

\* The health thread turns to the next node, or begins again.
LEMMA HealthInv ==
    ASSUME ClusterInv, Sound, NEW t \in Threads, health_thread(t)
    PROVE  ClusterInv'
<1> DEFINE x == th[t].ni + 1
<1>1. th \in [Threads -> Frames] /\ th[t] \in Frames /\ FrameOK(th[t]) /\ RestOK
  BY FrameIs, Zenon
<1>2. /\ th[t].pc = "idle" /\ UNCHANGED <<conns, host, owner, calls, node_count, alive, slot_map>>
      /\ th' = IF x \in Known
               THEN [Goto(t, "get") EXCEPT ![t].op = "ping", ![t].ni = x, ![t].at = x]
               ELSE [th EXCEPT ![t].ni = 0]
  BY Zenon DEF health_thread
<1>3. RestOK'
  BY <1>1, <1>2, Zenon DEF RestOK
<1> HIDE DEF x
<1>4. CASE x \in Known
  <2> DEFINE f == [th[t] EXCEPT !.pc = "get", !.op = "ping", !.ni = x, !.at = x]
  <2>1. x \in Index /\ x \in Nat
    BY <1>1, <1>4, KnownIndex, Zenon
  <2>2. th' = [th EXCEPT ![t] = f]
    BY <1>1, <1>2, <1>4, Zenon DEF Goto, Frames
  <2>3. f \in Frames
    BY <1>1, <2>1, Zenon DEF Frames, Labels
  <2>4. /\ f.pc = "get" /\ f.at = x /\ f.nc = th[t].nc /\ f.r = th[t].r /\ f.op = "ping"
        /\ SameCall(th[t], f)
    BY <1>1, Zenon DEF Frames, SameCall
  <2> HIDE DEF f
  <2>5. FrameOK(f) /\ f.nc = 0
    BY <1>1, <1>2, <2>1, <2>4, Zenon DEF FrameOK, Holds
  <2>6. Follows(th[t], f)
    BY <2>4, <2>5, Zenon DEF Follows
  <2>7. QED
    BY <1>2, <1>3, <2>2, <2>3, <2>6, FrameInv, Zenon
<1>5. CASE x \notin Known
  <2> DEFINE f == [th[t] EXCEPT !.ni = 0]
  <2>1. th' = [th EXCEPT ![t] = f]
    BY <1>1, <1>2, <1>5, Zenon DEF Frames
  <2>2. f \in Frames
    BY <1>1, Zenon DEF Frames
  <2>3. f.pc = th[t].pc /\ f.nc = th[t].nc /\ f.r = th[t].r /\ f.op = th[t].op /\ SameCall(th[t], f)
    BY <1>1, Zenon DEF Frames, SameCall
  <2> HIDE DEF f
  <2>4. FrameOK(f) /\ f.nc = 0
    BY <1>1, <1>2, <2>3, Zenon DEF FrameOK, Holds
  <2>5. Follows(th[t], f)
    BY <2>3, <2>4, Zenon DEF Follows
  <2>6. QED
    BY <1>2, <1>3, <2>1, <2>2, <2>5, FrameInv, Zenon
<1>6. QED
  BY <1>4, <1>5, Zenon


-----------------------------------------------------------------------------
(* Steps that take an entry.                                               *)

\* A fault of the client: nothing more is claimed.
LEMMA RacedInv ==
    ASSUME TypeOK', FramesOK', "raced" \in met'
    PROVE  ClusterInv'
<1>1. ~Sound'
  BY Zenon DEF Sound
<1>2. QED
  BY <1>1, Zenon DEF ClusterInv

\* The frame of a thread that takes entry c.
LEMMA TakeFrame ==
    ASSUME ClusterInv, Sound, NEW t \in Threads, NEW c \in Pool, th[t].pc \in {"get", "open"},
           th' = [Goto(t, "send") EXCEPT ![t].nc = c]
    PROVE  /\ Moves(th', t) /\ FrameOK(th'[t]) /\ SameCall(th[t], th'[t]) /\ th[t].nc = 0 /\ th[t].at \in Index
           /\ th'[t].pc = "send" /\ th'[t].nc = c /\ th'[t].at = th[t].at
           /\ th'[t].r = th[t].r /\ th'[t].op = th[t].op /\ th'[t].ni = th[t].ni
           /\ th'[t].attempt = th[t].attempt
<1> DEFINE f == [th[t] EXCEPT !.pc = "send", !.nc = c]
<1>1. th \in [Threads -> Frames] /\ th[t] \in Frames /\ FrameOK(th[t])
  BY FrameIs, Zenon
<1>2. th' = [th EXCEPT ![t] = f]
  BY <1>1, Zenon DEF Goto, Frames
<1>3. c \in Nat
  BY DEF Pool
<1>4. f \in Frames
  BY <1>1, <1>3, Zenon DEF Frames, Labels
<1>5. /\ f.pc = "send" /\ f.at = th[t].at /\ f.nc = c /\ f.r = th[t].r /\ f.op = th[t].op
      /\ SameCall(th[t], f) /\ f.ni = th[t].ni /\ f.attempt = th[t].attempt
  BY <1>1, Zenon DEF Frames, SameCall
<1> HIDE DEF f
<1>6. th[t].nc = 0 /\ th[t].at \in Index
  BY <1>1, Zenon DEF FrameOK, Holds
<1>7. FrameOK(f)
  BY <1>1, <1>5, <1>6, Zenon DEF FrameOK, Holds
<1>8. Moves(th', t) /\ th'[t] = f
  BY <1>2, <1>4, FrameMoves, Zenon
<1>9. QED
  BY <1>5, <1>6, <1>7, <1>8, Zenon

\* A thread takes an entry that has nothing unread.
LEMMA TakeNew ==
    ASSUME ClusterInv, Sound, RestOK', UNCHANGED host, NEW t \in Threads, NEW c \in Pool,
           th[t].pc \in {"get", "open"}, th' = [Goto(t, "send") EXCEPT ![t].nc = c],
           NEW e \in Entries, conns' = [conns EXCEPT ![th[t].at][c] = e], e.in_use, e.unread = <<>>,
           "raced" \notin met' => ~conns[th[t].at][c].in_use /\ host[th[t].at] # Blank
    PROVE  ClusterInv'
<1> DEFINE x == th[t].at
<1>1. TypeOK /\ FramesOK /\ Replied /\ InStep
  BY InvParts, Zenon
<1>2. /\ Moves(th', t) /\ FrameOK(th'[t]) /\ SameCall(th[t], th'[t]) /\ th[t].nc = 0 /\ x \in Index
      /\ th'[t].pc = "send" /\ th'[t].nc = c /\ th'[t].at = x
  BY TakeFrame, Zenon
<1>0. /\ Sets(x, c, e)
      /\ "raced" \notin met' => ~conns[x][c].in_use /\ host[x] # Blank
  BY Zenon DEF Sets
<1> HIDE DEF x
<1>3. conns' \in [Index -> [Pool -> Entries]] /\ conns'[x][c] = e /\ Only(x, c)
  BY <1>0, <1>1, <1>2, EntryChanges
<1>4. TypeOK'
  <2>1. th' \in [Threads -> Frames]
    BY <1>2, Zenon DEF Moves
  <2>2. QED
    BY <1>3, <2>1, Zenon DEF TypeOK
<1>5. CASE "raced" \in met'
  <2>1. FramesOK'
    BY <1>1, <1>2, MovesFrames, ZenonT(30)
  <2>2. QED
    BY <1>4, <1>5, <2>1, RacedInv, Zenon
<1>6. CASE "raced" \notin met'
  <2>1. Takes(t, x, c)
    BY <1>0, <1>2, <1>3, <1>6, Zenon DEF Takes, May
  <2>2. Awaited(th'[t], conns'[x][c])
    BY <1>3, Zenon DEF Awaited
  <2>3. Answered(th'[t])
    <3>1. Answered(th[t])
      BY <1>1, Zenon DEF Replied
    <3>2. QED
      BY <1>2, <3>1, SameAnswer, Zenon
  <2>4. conns'[x][c].in_use /\ host[x] # Blank
    BY <1>0, <1>3, <1>6, Zenon
  <2>5. QED
    BY <1>2, <1>4, <2>1, <2>2, <2>3, <2>4, TakeInv, ZenonT(30)
<1>7. QED
  BY <1>5, <1>6, Zenon

\* node_conn_get takes an idle connection, or goes on to open one.
LEMMA GetInv ==
    ASSUME ClusterInv, Sound, NEW t \in Threads, node_conn_get(t)
    PROVE  ClusterInv'
<1> DEFINE x == th[t].at
           idle == {c \in Pool : ~conns[x][c].in_use /\ conns[x][c].fd >= 0}
<1>1. th[t] \in Frames /\ FrameOK(th[t]) /\ RestOK /\ TypeOK /\ InStep
  BY FrameIs, InvParts, Zenon
<1>2. th[t].pc = "get" /\ UNCHANGED <<host, owner, calls, node_count, alive, slot_map>>
  BY Zenon DEF node_conn_get
<1>3. RestOK' /\ x \in Index
  BY <1>1, <1>2, Zenon DEF RestOK, FrameOK
<1>4. ASSUME NEW c \in First(idle), conns' = [conns EXCEPT ![x][c].in_use = TRUE],
             th' = [Goto(t, "send") EXCEPT ![t].nc = c], Meet("raced", host[x] = Blank)
      PROVE  ClusterInv'
  <2> DEFINE e == [conns[x][c] EXCEPT !.in_use = TRUE]
  <2>2. c \in idle
    BY <1>4, FirstIsIn, Zenon
  <2>3. c \in Pool /\ ~conns[x][c].in_use
    BY <2>2, Zenon
  <2>4. conns[x][c] \in Entries /\ conns[x][c].unread = <<>>
    BY <1>1, <1>3, <2>3, Zenon DEF TypeOK, InStep
  <2>5. conns' = [conns EXCEPT ![x][c].in_use = TRUE] /\ th' = [Goto(t, "send") EXCEPT ![t].nc = c]
    BY <1>4, ZenonT(30)
  <2>6. host[x] = Blank => "raced" \in met'
    BY <1>4, Zenon DEF Meet
  <2>7. conns' = [conns EXCEPT ![x][c] = e]
    BY <1>1, <1>3, <2>3, <2>5, Zenon DEF TypeOK
  <2>8. e \in Entries /\ e.in_use /\ e.unread = <<>>
    BY <2>4, Zenon DEF Entries
  <2> HIDE DEF e
  <2>9. QED
    BY <1>2, <1>3, <2>3, <2>5, <2>6, <2>7, <2>8, TakeNew, ZenonT(30)
<1>5. CASE idle = {} /\ th' = Goto(t, "open") /\ UNCHANGED <<conns, met>>
  <2> DEFINE f == [th[t] EXCEPT !.pc = "open"]
  <2>1. f.pc = "open" /\ f.nc = th[t].nc /\ f.at = th[t].at /\ f.r = th[t].r /\ f.op = th[t].op
    BY <1>1, GotoFields, Zenon
  <2> HIDE DEF f
  <2>2. FrameOK(f)
    BY <1>1, <1>2, <2>1, Zenon DEF FrameOK, Holds
  <2>3. QED
    BY <1>2, <1>3, <1>5, <2>2, GotoInv, Zenon DEF f, Labels
<1>6. QED
  BY <1>4, <1>5, Zenon DEF node_conn_get


\* node_conn_get opens a connection in a vacant entry, or fails.
LEMMA OpenInv ==
    ASSUME ClusterInv, Sound, NEW t \in Threads, node_conn_open(t)
    PROVE  ClusterInv'
<1> DEFINE x == th[t].at
           vacant == {c \in Pool : conns[x][c].fd < 0}
           there == host[x] \in Nodes /\ up[host[x]]
<1>1. th[t] \in Frames /\ FrameOK(th[t]) /\ RestOK /\ TypeOK
  BY FrameIs, InvParts, Zenon
<1>2. th[t].pc = "open" /\ UNCHANGED <<host, owner, calls, node_count, slot_map>>
  BY Zenon DEF node_conn_open
<1>3. x \in Index
  BY <1>1, <1>2, Zenon DEF FrameOK
<1>4. ASSUME NEW c \in First(vacant), there, conns' = [conns EXCEPT ![x][c] = Opened],
             th' = [Goto(t, "send") EXCEPT ![t].nc = c],
             Meet("raced", conns[x][c].in_use), UNCHANGED alive
      PROVE  ClusterInv'
  <2>2. c \in vacant
    BY <1>4, FirstIsIn, Zenon
  <2>3. c \in Pool
    BY <2>2, Zenon
  <2>4. /\ conns' = [conns EXCEPT ![x][c] = Opened] /\ th' = [Goto(t, "send") EXCEPT ![t].nc = c]
        /\ Meet("raced", conns[x][c].in_use) /\ host[x] \in Nodes /\ UNCHANGED alive
    BY <1>4, ZenonT(30)
  <2>5. conns[x][c].in_use => "raced" \in met'
    BY <2>4, Zenon DEF Meet
  <2>6. host[x] # Blank
    BY <2>4, ClusterAssumption, Zenon
  <2>7. Opened \in Entries /\ Opened.in_use /\ Opened.unread = <<>>
    BY DEF Opened, Entries
  <2>8. RestOK'
    BY <1>1, <1>2, <2>4, Zenon DEF RestOK
  <2>9. QED
    BY <1>2, <2>3, <2>4, <2>5, <2>6, <2>7, <2>8, TakeNew, ZenonT(30)
<1>5. CASE /\ alive' = [alive EXCEPT ![x] = th[t].r /\ @] /\ th' = Failed(t) /\ UNCHANGED conns
  <2>1. alive' \in [Index -> BOOLEAN]
    BY <1>1, <1>5, Zenon DEF RestOK
  <2>2. RestOK'
    BY <1>1, <1>2, <2>1, Zenon DEF RestOK
  <2>3. Leaves(th', t) /\ th'[t].res = th[t].res
    BY <1>1, <1>5, FailedLeaves, Zenon
  <2>4. Answered(th'[t])
    BY <2>3, LeavesAnswered, Zenon
  <2>5. QED
    BY <1>2, <1>5, <2>2, <2>3, <2>4, LeaveInv, Zenon
<1>6. QED
  BY <1>4, <1>5, Zenon DEF node_conn_open

-----------------------------------------------------------------------------
(* Steps that use an entry or give it back.                                *)

\* What a thread that holds an entry knows of it.
LEMMA HeldFacts ==
    ASSUME ClusterInv, Sound, NEW t \in Threads, Holds(th[t])
    PROVE  /\ th[t].at \in Index /\ th[t].nc \in Pool /\ th[t].nc # 0
           /\ Conn(t) \in Entries /\ Conn(t).in_use /\ host[th[t].at] # Blank
           /\ Awaited(th[t], Conn(t))
<1>1. FrameOK(th[t]) /\ Exclusive /\ InStep
  BY FrameIs, InvParts, Zenon
<1>2. th[t].at \in Index /\ th[t].nc \in Pool /\ th[t].nc # 0
  BY <1>1 DEF FrameOK, Pool
<1>3. Conn(t).in_use
  BY <1>1, <1>2, Zenon DEF Exclusive, Conn
<1>4. host[th[t].at] # Blank
  BY <1>1, <1>2, <1>3, Zenon DEF Exclusive, Conn
<1>5. Awaited(th[t], Conn(t))
  BY <1>1, <1>2, Zenon DEF InStep, Conn
<1>6. QED
  BY <1>2, <1>3, <1>4, <1>5, UnreadTypes, Zenon

\* A thread changes the entry it holds, and keeps it.
LEMMA UseInv ==
    ASSUME ClusterInv, Sound, RestOK', UNCHANGED host, NEW t \in Threads, Holds(th[t]), NEW l \in Labels,
           th' = Goto(t, l), NEW f, f = [th[t] EXCEPT !.pc = l], FrameOK(f),
           NEW e \in Entries, conns' = [conns EXCEPT ![th[t].at][th[t].nc] = e], e.in_use,
           Awaited(f, e)
    PROVE  ClusterInv'
<1> DEFINE x == th[t].at
           c == th[t].nc
<1>1. th[t] \in Frames /\ TypeOK /\ Replied
  BY FrameIs, InvParts, Zenon
<1>2. x \in Index /\ c \in Pool /\ c # 0 /\ host[x] # Blank
  BY HeldFacts, Zenon
<1>3. Moves(th', t) /\ th'[t] = f
  BY <1>1, GotoMoves, Zenon
<1>4. f.nc = c /\ f.at = x /\ SameCall(th[t], f)
  BY <1>1, Zenon DEF Frames, SameCall
<1>5. Sets(x, c, e) /\ th[t].at = x /\ th[t].nc = c
  BY Zenon DEF Sets
<1> HIDE DEF x, c
<1>6. conns' \in [Index -> [Pool -> Entries]] /\ conns'[x][c] = e /\ Only(x, c)
  BY <1>1, <1>2, <1>5, EntryChanges, ZenonT(30)
<1>7. TypeOK'
  <2>1. th' \in [Threads -> Frames]
    BY <1>3, Zenon DEF Moves
  <2>2. QED
    BY <1>6, <2>1, Zenon DEF TypeOK
<1>8. Takes(t, x, c)
  BY <1>2, <1>3, <1>4, <1>5, <1>6, Zenon DEF Takes, May
<1>9. Answered(th'[t])
  <2>1. Answered(th[t])
    BY <1>1, Zenon DEF Replied
  <2>2. QED
    BY <1>3, <1>4, <2>1, SameAnswer, Zenon
<1>10. QED
  BY <1>2, <1>3, <1>6, <1>7, <1>8, <1>9, TakeInv, ZenonT(30)


\* What node_conn_release leaves of an entry.
LEMMA ReleasedIs ==
    ASSUME ClusterInv, Sound, NEW t \in Threads, Holds(th[t])
    PROVE  \E e \in Entries :
              /\ Released(t) = [conns EXCEPT ![th[t].at][th[t].nc] = e]
              /\ ~e.in_use /\ (Len(Conn(t).unread) <= 1 => e.unread = <<>>)
              /\ e.fd = Conn(t).fd /\ e.link = Conn(t).link
<1> DEFINE q == Conn(t)
           s == IF q.unread = <<>> THEN q.unread ELSE Tail(q.unread)
           e == [q EXCEPT !.in_use = FALSE, !.unread = s]
<1>1. q \in Entries /\ th[t].at \in Index /\ th[t].nc \in Pool
  BY HeldFacts, Zenon
<1>2. q.unread \in Seq(Messages)
  BY <1>1, Zenon DEF Entries
<1>3. TypeOK
  BY InvParts, Zenon
<1>4. Released(t) = [conns EXCEPT ![th[t].at][th[t].nc] = e]
  BY <1>1, <1>3, ZenonT(30) DEF Released, Conn, TypeOK, Entries
<1> HIDE DEF q
<1>5. s \in Seq(Messages) /\ (Len(q.unread) <= 1 => s = <<>>)
  BY <1>2
<1> HIDE DEF s
<1>6. e \in Entries /\ ~e.in_use /\ e.unread = s /\ e.fd = q.fd /\ e.link = q.link
  BY <1>1, <1>5, Zenon DEF Entries
<1> HIDE DEF e
<1>7. QED
  BY <1>4, <1>5, <1>6, Zenon DEF q

\* Only the reply to a command may be longer than one line.
LEMMA OneLine ==
    ASSUME ClusterInv, Sound, NEW t \in Threads, Holds(th[t]),
           th[t].r \/ th[t].op # "cmd" \/ Conn(t).fd < 0 \/ Conn(t).unread = <<>>
    PROVE  Len(Conn(t).unread) <= 1
<1>1. Awaited(th[t], Conn(t)) /\ Conn(t) \in Entries
  BY HeldFacts, Zenon
<1>2. CASE Conn(t).unread = <<>>
  BY <1>2
<1>3. CASE Conn(t).unread # <<>>
  <2>1. Conn(t).fd \in {-1, 0, 1}
    BY <1>1, Zenon DEF Entries
  <2>2. Conn(t).fd >= 0 => ~(Conn(t).fd < 0)
    BY <2>1
  <2>3. Len(Conn(t).unread) = 1
    BY <1>1, <1>3, <2>2, Zenon DEF Awaited
  <2>4. QED
    BY <2>3
<1>4. QED
  BY <1>2, <1>3, Zenon

\* A thread gives its entry back after it has read a line.
LEMMA GiveBack ==
    ASSUME ClusterInv, Sound, RestOK', UNCHANGED host, NEW t \in Threads, Holds(th[t]), Leaves(th', t),
           conns' = Released(t), Sound' => Len(Conn(t).unread) <= 1,
           "raced" \notin met' => Answered(th'[t])
    PROVE  ClusterInv'
<1>1. PICK e \in Entries :
         /\ Released(t) = [conns EXCEPT ![th[t].at][th[t].nc] = e]
         /\ ~e.in_use /\ (Len(Conn(t).unread) <= 1 => e.unread = <<>>)
  BY ReleasedIs, Zenon
<1>2. conns' = [conns EXCEPT ![th[t].at][th[t].nc] = e] /\ (Sound' => e.unread = <<>>)
  BY <1>1, Zenon
<1>3. QED
  BY <1>1, <1>2, ReleaseInv, ZenonT(30)

\* node_conn_close gives up an entry.
LEMMA CloseInv ==
    ASSUME ClusterInv, Sound, NEW t \in Threads, node_conn_close(t)
    PROVE  ClusterInv'
<1> DEFINE e == [Conn(t) EXCEPT !.in_use = FALSE]
<1>1. RestOK /\ TypeOK /\ Holds(th[t])
  BY InvParts, Zenon DEF node_conn_close, Holds
<1>2. /\ th[t].at \in Index /\ th[t].nc \in Pool /\ Conn(t) \in Entries /\ Awaited(th[t], Conn(t))
  BY <1>1, HeldFacts, Zenon
<1>3. Conn(t).unread = <<>>
  BY <1>2, Zenon DEF Awaited, node_conn_close
<1>4. e \in Entries /\ ~e.in_use /\ e.unread = <<>>
  BY <1>2, <1>3, Zenon DEF Entries
<1>5. conns' = [conns EXCEPT ![th[t].at][th[t].nc] = e]
  BY <1>1, <1>2, Zenon DEF node_conn_close, TypeOK, Conn
<1>6. RestOK'
  <2>1. alive' \in [Index -> BOOLEAN]
    BY <1>1, Zenon DEF node_conn_close, RestOK
  <2>2. UNCHANGED <<owner, calls, node_count, slot_map, host>>
    BY Zenon DEF node_conn_close
  <2>3. QED
    BY <1>1, <2>1, <2>2, Zenon DEF RestOK
<1>7. th' = Failed(t) /\ UNCHANGED host
  BY Zenon DEF node_conn_close
<1>8. Leaves(th', t) /\ th'[t].res = th[t].res
  BY <1>1, <1>7, FailedLeaves, Zenon
<1>9. Answered(th'[t])
  BY <1>8, LeavesAnswered, Zenon
<1> HIDE DEF e
<1>10. QED
  BY <1>1, <1>4, <1>5, <1>6, <1>7, <1>8, <1>9, ReleaseInv, ZenonT(30)


\* A sequence of one or two messages.
LEMMA OneOrTwo ==
    ASSUME NEW S, NEW m \in S, NEW d \in S, NEW s, s = <<m>> \/ s = <<m, d>>
    PROVE  s \in Seq(S) /\ s[1] = m
<1>1. CASE s = <<m>>
  BY <1>1
<1>2. CASE s = <<m, d>>
  BY <1>2
<1>3. QED
  BY <1>1, <1>2, Zenon

\* A length of which nothing is left after one.
LEMMA AtMostOne == \A n \in Nat : n - 1 = 0 => n <= 1
  OBVIOUS

\* The first message of a sequence, and whether there is a second.
LEMMA HeadRest ==
    ASSUME NEW S, NEW s \in Seq(S), s # <<>>
    PROVE  Head(s) = s[1] /\ (Tail(s) = <<>> => Len(s) <= 1)
<1>1. Head(s) = s[1]
  OBVIOUS
<1>2. ASSUME Tail(s) = <<>> PROVE Len(s) <= 1
  <2>1. Len(Tail(s)) = Len(s) - 1 /\ Len(s) \in Nat
    BY HeadTailProperties, LenProperties, Zenon
  <2>2. Len(<<>>) = 0
    OBVIOUS
  <2>3. Len(Tail(s)) = 0
    BY <1>2, <2>2, Zenon
  <2>4. QED
    BY <2>1, <2>3, AtMostOne, Zenon
<1>3. QED
  BY <1>1, <1>2, Zenon

\* A node's answer is one line, except for what it sends for a command, which begins
\* with the command's own reply, a redirection or a line of another type.
LEMMA AnswerIs ==
    ASSUME ClusterInv, Sound, NEW t \in Threads, th[t].pc = "send", NEW nd, NEW reply
    PROVE  LET s == Answer(t, nd, reply) IN
           /\ s \in Seq(Messages)
           /\ IF ~th[t].r /\ th[t].op = "cmd" THEN Given(th[t], s[1]) ELSE Len(s) = 1
<1> DEFINE s == Answer(t, nd, reply)
           d == Msg(t, "element", None)
<1>1. th[t] \in Frames /\ FrameOK(th[t]) /\ RestOK
  BY FrameIs, Zenon
<1>2. th[t].id \in Nat /\ owner \in Names /\ None \in Names
  BY <1>1, Zenon DEF Frames, RestOK, Names
<1>3. th[t].r \in BOOLEAN /\ (~th[t].r => th[t].op \in {"cmd", "ping"})
  BY <1>1, Zenon DEF Frames, FrameOK
<1>4. \A v \in Says, nm \in Names :
         LET m == Msg(t, v, nm) IN m \in Messages /\ m.to = th[t].id /\ m.says = v /\ m.name = nm
  BY <1>2, Zenon DEF Msg, Messages
<1>5. CASE th[t].r
  <2>1. s = <<Msg(t, "slots", owner)>>
    BY <1>5, Zenon DEF Answer
  <2>2. Msg(t, "slots", owner) \in Messages
    BY <1>2, <1>4, Zenon DEF Says
  <2> HIDE DEF s
  <2>3. s \in Seq(Messages) /\ Len(s) = 1
    BY <2>1, <2>2, SMTT(30)
  <2>4. QED
    BY <1>5, <2>3, Zenon DEF s
<1>6. CASE ~th[t].r /\ th[t].op = "ping"
  <2>1. s = <<Msg(t, "pong", None)>>
    BY <1>6, Zenon DEF Answer
  <2>2. Msg(t, "pong", None) \in Messages
    BY <1>2, <1>4, Zenon DEF Says
  <2> HIDE DEF s
  <2>3. s \in Seq(Messages) /\ Len(s) = 1
    BY <2>1, <2>2
  <2>4. QED
    BY <1>6, <2>3, Zenon DEF s
<1>7. CASE ~th[t].r /\ th[t].op = "cmd"
  <2>1. \/ s = <<Msg(t, "moved", owner)>>
        \/ \E v \in {"data", "header", "other"} : s = <<Msg(t, v, None)>> \/ s = <<Msg(t, v, None), d>>
    <3>1. s = <<Msg(t, "moved", owner)>> \/ s = Lines(t, reply)
      BY <1>7, Zenon DEF Answer
    <3>2. \E v \in {"data", "header", "other"} :
             Lines(t, reply) = <<Msg(t, v, None)>> \/ Lines(t, reply) = <<Msg(t, v, None), d>>
      BY Zenon DEF Lines
    <3>3. QED
      BY <3>1, <3>2, Zenon
  <2>2. PICK m \in Messages : Given(th[t], m) /\ (s = <<m>> \/ s = <<m, d>>)
    <3>1. CASE s = <<Msg(t, "moved", owner)>>
      <4> DEFINE m == Msg(t, "moved", owner)
      <4>1. "moved" \in Says
        BY Zenon DEF Says
      <4>2. m \in Messages /\ m.says = "moved"
        BY <1>2, <1>4, <4>1, Zenon
      <4> HIDE DEF m, s
      <4>3. QED
        BY <3>1, <4>2, Zenon DEF Given, m
    <3>2. ASSUME NEW v \in {"data", "header", "other"},
                 s = <<Msg(t, v, None)>> \/ s = <<Msg(t, v, None), d>>
          PROVE  \E m \in Messages : Given(th[t], m) /\ (s = <<m>> \/ s = <<m, d>>)
      <4> DEFINE m == Msg(t, v, None)
      <4>1. v \in Says
        BY Zenon DEF Says
      <4>2. m \in Messages /\ m.to = th[t].id /\ m.says = v /\ m.name = None
        BY <1>2, <1>4, <4>1, SMTT(30)
      <4>3. s = <<m>> \/ s = <<m, d>>
        BY <3>2, Zenon
      <4> HIDE DEF m, s, d
      <4>4. Given(th[t], m)
        BY <4>2, Zenon DEF Given, Mine
      <4>5. QED
        BY <4>2, <4>3, <4>4, Zenon
    <3>3. QED
      BY <2>1, <3>1, <3>2, Zenon
  <2>3. d \in Messages
    BY <1>2, <1>4, Zenon DEF Says
  <2> HIDE DEF s, d
  <2>4. s \in Seq(Messages) /\ s[1] = m
    BY <2>2, <2>3, OneOrTwo, Zenon
  <2>5. QED
    BY <1>7, <2>2, <2>4, Zenon DEF s
<1>8. QED
  BY <1>3, <1>5, <1>6, <1>7, Zenon

\* A request is sent, or the connection turns out to be lost.
LEMMA SendInv ==
    ASSUME ClusterInv, Sound, NEW t \in Threads, sock_sendall(t)
    PROVE  ClusterInv'
<1> DEFINE x == th[t].at
           c == th[t].nc
<1>1. th[t] \in Frames /\ FrameOK(th[t]) /\ RestOK /\ TypeOK
  BY FrameIs, InvParts, Zenon
<1>2. th[t].pc = "send" /\ UNCHANGED <<owner, calls, node_count, slot_map, host, alive>>
  BY Zenon DEF sock_sendall
<1>3. RestOK' /\ Holds(th[t])
  BY <1>1, <1>2, Zenon DEF RestOK, Holds
<1>4. x \in Index /\ c \in Pool /\ Conn(t) \in Entries /\ Conn(t).in_use /\ Awaited(th[t], Conn(t))
  BY <1>3, HeldFacts, Zenon
<1>5. Conn(t).unread = <<>>
  BY <1>2, <1>4, Zenon DEF Awaited
<1>6. ASSUME NEW l \in {"read", "drop"}, th' = Goto(t, l), NEW e \in Entries,
             conns' = [conns EXCEPT ![x][c] = e], e.in_use, Awaited([th[t] EXCEPT !.pc = l], e)
      PROVE  ClusterInv'
  <2> DEFINE f == [th[t] EXCEPT !.pc = l]
  <2>1. f.pc = l /\ f.nc = th[t].nc /\ f.at = th[t].at /\ f.r = th[t].r /\ f.op = th[t].op
    BY <1>1, GotoFields, ZenonT(30)
  <2>2. Awaited(f, e) /\ l \in Labels
    BY <1>6, Zenon DEF Labels
  <2> HIDE DEF f
  <2>3. FrameOK(f)
    BY <1>1, <1>2, <1>6, <2>1, Zenon DEF FrameOK, Holds
  <2>4. QED
    BY <1>2, <1>3, <1>6, <2>2, <2>3, UseInv, ZenonT(30) DEF f
<1>7. CASE conns' = [conns EXCEPT ![x][c].fd = -1] /\ th' = Goto(t, "drop")
  <2> DEFINE e == [Conn(t) EXCEPT !.fd = -1]
  <2>1. e \in Entries /\ e.in_use /\ e.unread = <<>>
    BY <1>4, <1>5, Zenon DEF Entries
  <2>2. conns' = [conns EXCEPT ![x][c] = e]
    BY <1>1, <1>4, <1>7, Zenon DEF TypeOK, Conn
  <2> HIDE DEF e
  <2>3. Awaited([th[t] EXCEPT !.pc = "drop"], e)
    BY <2>1, Zenon DEF Awaited
  <2>4. QED
    BY <1>6, <1>7, <2>1, <2>2, <2>3, Zenon
<1>8. CASE /\ conns' = [conns EXCEPT ![x][c].link = "rst", ![x][c].unread = <<>>]
           /\ th' = Goto(t, "read")
  <2> DEFINE e == [Conn(t) EXCEPT !.link = "rst", !.unread = <<>>]
  <2>0. <<>> \in Seq(Messages)
    OBVIOUS
  <2>1. e \in Entries /\ e.in_use /\ e.unread = <<>>
    BY <1>4, <2>0, Zenon DEF Entries
  <2>2. conns' = [conns EXCEPT ![x][c] = e]
    BY <1>1, <1>4, <1>8, ZenonT(30) DEF TypeOK, Conn, Entries
  <2> HIDE DEF e
  <2>3. Awaited([th[t] EXCEPT !.pc = "read"], e)
    BY <2>1, Zenon DEF Awaited
  <2>4. QED
    BY <1>6, <1>8, <2>1, <2>2, <2>3, Zenon
<1>9. ASSUME NEW reply, Conn(t).fd >= 0, th' = Goto(t, "read"),
             conns' = [conns EXCEPT ![x][c].unread = @ \o Answer(t, host[x], reply)]
      PROVE  ClusterInv'
  <2> DEFINE s == Answer(t, host[x], reply)
             e == [Conn(t) EXCEPT !.unread = s]
             f == [th[t] EXCEPT !.pc = "read"]
  <2>1. /\ s \in Seq(Messages)
        /\ IF ~th[t].r /\ th[t].op = "cmd" THEN Given(th[t], s[1]) ELSE Len(s) = 1
    BY <1>2, AnswerIs, Zenon
  <2> HIDE DEF s
  <2>2. Conn(t).unread \o s = s
    BY <1>5, <2>1
  <2>3. conns' = [conns EXCEPT ![x][c] = e]
    BY <1>1, <1>4, <1>9, <2>2, Zenon DEF TypeOK, Conn, s
  <2>4. e \in Entries /\ e.in_use /\ e.unread = s /\ e.fd = Conn(t).fd
    BY <1>4, <2>1, Zenon DEF Entries
  <2>5. f.pc = "read" /\ f.r = th[t].r /\ f.op = th[t].op /\ f.id = th[t].id
    BY <1>1, GotoFields, ZenonT(30)
  <2> HIDE DEF e, f
  <2>6. Given(th[t], s[1]) => Given(f, s[1])
    BY <2>5, Zenon DEF Given, Mine
  <2>7. Awaited(f, e)
    BY <1>9, <2>1, <2>4, <2>5, <2>6, ZenonT(30) DEF Awaited
  <2>8. QED
    BY <1>6, <1>9, <2>3, <2>4, <2>7, Zenon DEF f
<1>10. QED
  BY <1>7, <1>8, <1>9, Zenon DEF sock_sendall



\* Frame g looks up the address nm that a call with frame f was given.
Redirects(f, g, nm) ==
    g.pc = "find" /\ ~g.r /\ g.op = "cmd" /\ g.name = nm /\ g.attempt = f.attempt /\ g.res = f.res

\* After MOVED a call looks the new address up.
LEMMA FindLeaves ==
    ASSUME TypeOK, NEW t \in Threads, NEW nm \in Names, th[t].op = "cmd",
           NEW h, h = [Enter(t, "find", FALSE) EXCEPT ![t].name = nm]
    PROVE  Leaves(h, t) /\ Redirects(th[t], h[t], nm)
<1> DEFINE g == Enter(t, "find", FALSE)
           f == [g[t] EXCEPT !.name = nm]
<1>1. Moves(g, t) /\ g[t] = [th[t] EXCEPT !.pc = "find", !.r = FALSE, !.at = 0, !.nc = 0,
                                          !.name = None, !.idx = 0]
  BY EnterMoves, Zenon DEF Labels
<1>2. th[t] \in Frames /\ g[t] \in Frames
  BY <1>1, Zenon DEF TypeOK, Moves
<1>3. h = [g EXCEPT ![t] = f]
  BY Zenon
<1>4. /\ f \in Frames
      /\ f.pc = "find" /\ ~f.r /\ f.nc = 0 /\ f.op = "cmd" /\ f.id = th[t].id /\ f.res = th[t].res
      /\ f.name = nm /\ f.attempt = th[t].attempt
  <2> HIDE DEF g
  <2>1. /\ g[t].pc = "find" /\ ~g[t].r /\ g[t].nc = 0 /\ g[t].op = "cmd"
        /\ g[t].id = th[t].id /\ g[t].res = th[t].res /\ g[t].attempt = th[t].attempt
    BY <1>1, <1>2, Zenon DEF Frames
  <2>2. f \in Frames
    BY <1>2, Zenon DEF Frames
  <2>3. f.pc = g[t].pc /\ f.r = g[t].r /\ f.nc = g[t].nc /\ f.op = g[t].op
        /\ f.id = g[t].id /\ f.res = g[t].res /\ f.name = nm /\ f.attempt = g[t].attempt
    BY <1>2, Zenon DEF Frames
  <2>4. QED
    BY <2>1, <2>2, <2>3, Zenon
<1> HIDE DEF f, g
<1>5. Moves(h, t) /\ h[t] = f
  BY <1>1, <1>3, <1>4, ZenonT(30) DEF Moves
<1>6. FrameOK(f)
  BY <1>4, Zenon DEF FrameOK, Holds
<1>7. QED
  BY <1>4, <1>5, <1>6, Zenon DEF Leaves, Redirects

\* vc_cluster_cmd reads: the line it takes for its reply is the first of the reply to
\* its own request.
LEMMA ReplyInv ==
    ASSUME ClusterInv, Sound, NEW t \in Threads, read_reply(t)
    PROVE  ClusterInv'
<1> DEFINE msg == Head(Conn(t).unread)
           rest == Tail(Conn(t).unread)
<1>1. /\ th[t].pc = "read" /\ ~th[t].r /\ th[t].op = "cmd" /\ conns' = Released(t) /\ UNCHANGED host
      /\ Holds(th[t])
  BY Zenon DEF read_reply, Holds
<1>2. RestOK /\ TypeOK
  BY InvParts, Zenon
<1>3. Conn(t) \in Entries /\ Awaited(th[t], Conn(t))
  BY <1>1, HeldFacts, Zenon
<1>4. RestOK'
  <2>1. alive' \in [Index -> BOOLEAN]
    BY <1>2, Zenon DEF read_reply, RestOK
  <2>2. UNCHANGED <<owner, calls, node_count, slot_map, host>>
    BY Zenon DEF read_reply
  <2>3. QED
    BY <1>2, <2>1, <2>2, Zenon DEF RestOK
<1>5. ASSUME th' = Retry(t), Sound' => Len(Conn(t).unread) <= 1 PROVE ClusterInv'
  <2>1. Leaves(th', t) /\ th'[t].res = th[t].res
    BY <1>1, <1>2, <1>5, RetryLeaves, Zenon
  <2>2. Answered(th'[t])
    BY <2>1, LeavesAnswered, Zenon
  <2>3. QED
    BY <1>1, <1>4, <1>5, <2>1, <2>2, GiveBack, Zenon
<1>6. ASSUME Failing(t), th' = Retry(t) PROVE ClusterInv'
  <2>1. Len(Conn(t).unread) <= 1
    BY <1>1, <1>6, OneLine, Zenon DEF Failing
  <2>2. QED
    BY <1>5, <1>6, <2>1, Zenon
<1>7. ASSUME Readable(t)
      PROVE  msg \in Messages /\ Given(th[t], msg) /\ (rest = <<>> => Len(Conn(t).unread) <= 1)
  <2>1. Conn(t).unread # <<>> /\ msg \in Messages
    BY <1>1, <1>7, UnreadTypes, Zenon DEF Readable
  <2>2. Conn(t).unread \in Seq(Messages)
    BY <1>3, Zenon DEF Entries
  <2>3. msg = Conn(t).unread[1] /\ (rest = <<>> => Len(Conn(t).unread) <= 1)
    BY <2>1, <2>2, HeadRest, Zenon
  <2>4. QED
    BY <1>1, <1>3, <2>1, <2>3, Zenon DEF Awaited
<1> HIDE DEF msg, rest
<1>8. ASSUME Readable(t), th' = Retry(t), Meet(IF rest = <<>> THEN "hindered" ELSE "skewed", TRUE)
      PROVE  ClusterInv'
  <2>1. rest # <<>> => "skewed" \in met'
    BY <1>8, Zenon DEF Meet
  <2>2. Sound' => rest = <<>>
    BY <2>1, Zenon DEF Sound
  <2>3. QED
    BY <1>5, <1>7, <1>8, <2>2, Zenon
<1>9. ASSUME Readable(t), msg.says # "other", Meet("skewed", rest # <<>>),
             th' = IF msg.says = "moved" THEN [Enter(t, "find", FALSE) EXCEPT ![t].name = msg.name]
                   ELSE Return(t, msg)
      PROVE  ClusterInv'
  <2>1. rest # <<>> => "skewed" \in met'
    BY <1>9, Zenon DEF Meet
  <2>2. Sound' => Len(Conn(t).unread) <= 1
    <3>1. Sound' => rest = <<>>
      BY <2>1, Zenon DEF Sound
    <3>2. QED
      BY <1>7, <1>9, <3>1, Zenon
  <2>3. CASE msg.says = "moved"
    <3>1. msg.name \in Names
      BY <1>7, <1>9, Zenon DEF Messages
    <3>2. th' = [Enter(t, "find", FALSE) EXCEPT ![t].name = msg.name]
      BY <1>9, <2>3, Zenon
    <3>3. Leaves(th', t) /\ th'[t].res = th[t].res
      <4>1. Leaves(th', t) /\ Redirects(th[t], th'[t], msg.name)
        BY <1>1, <1>2, <3>1, <3>2, FindLeaves, Zenon
      <4>2. QED
        BY <4>1, Zenon DEF Redirects
    <3>4. Answered(th'[t])
      BY <3>3, LeavesAnswered, Zenon
    <3>5. QED
      BY <1>1, <1>4, <2>2, <3>3, <3>4, GiveBack, Zenon
  <2>4. CASE msg.says # "moved"
    <3>1. th' = Return(t, msg)
      BY <1>9, <2>4, Zenon
    <3>2. Leaves(th', t) /\ th'[t].res = msg
      BY <1>2, <1>7, <1>9, <3>1, ReturnLeaves, Zenon
    <3>3. Mine(th[t], msg)
      BY <1>7, <1>9, <2>4, Zenon DEF Given
    <3>4. Answered(th'[t])
      BY <3>2, <3>3, Zenon DEF Answered, Mine, Leaves
    <3>5. QED
      BY <1>1, <1>4, <2>2, <3>2, <3>4, GiveBack, Zenon
  <2>5. QED
    BY <2>3, <2>4, Zenon
<1>10. QED
  BY <1>6, <1>8, <1>9, Zenon DEF read_reply, msg, rest


\* health_thread gives its connection back, one line read.
LEMMA PongInv ==
    ASSUME ClusterInv, Sound, NEW t \in Threads, read_pong(t)
    PROVE  ClusterInv'
<1>1. /\ th[t].pc = "read" /\ ~th[t].r /\ th[t].op = "ping" /\ conns' = Released(t) /\ UNCHANGED host
      /\ Holds(th[t]) /\ th' = NextPing(t)
  BY Zenon DEF read_pong, Holds
<1>2. RestOK /\ TypeOK
  BY InvParts, Zenon
<1>3. RestOK'
  <2>1. alive' \in [Index -> BOOLEAN]
    BY <1>2, Zenon DEF read_pong, RestOK
  <2>2. UNCHANGED <<owner, calls, node_count, slot_map, host>>
    BY Zenon DEF read_pong
  <2>3. QED
    BY <1>2, <2>1, <2>2, Zenon DEF RestOK
<1>4. Leaves(th', t) /\ th'[t].res = th[t].res
  BY <1>1, <1>2, NextPingLeaves, Zenon
<1>5. Answered(th'[t])
  BY <1>4, LeavesAnswered, Zenon
<1>6. th[t].op # "cmd"
  BY <1>1, Zenon
<1>7. Len(Conn(t).unread) <= 1
  BY <1>1, <1>6, OneLine, Zenon
<1>8. QED
  BY <1>1, <1>3, <1>4, <1>5, <1>7, GiveBack, Zenon

\* vc_cluster_refresh reads its first line.
LEMMA HeaderInv ==
    ASSUME ClusterInv, Sound, NEW t \in Threads, read_header(t)
    PROVE  ClusterInv'
<1>1. th[t].pc = "read" /\ th[t].r /\ UNCHANGED host /\ Holds(th[t])
  BY Zenon DEF read_header, Holds
<1>2. RestOK /\ TypeOK /\ th[t] \in Frames /\ FrameOK(th[t])
  BY InvParts, FrameIs, Zenon
<1>3. /\ th[t].at \in Index /\ th[t].nc \in Pool /\ Conn(t) \in Entries /\ Conn(t).in_use
      /\ Awaited(th[t], Conn(t))
  BY <1>1, HeldFacts, Zenon
<1>4. RestOK'
  <2>1. UNCHANGED <<owner, calls, node_count, slot_map, host, alive>>
    BY Zenon DEF read_header
  <2>2. QED
    BY <1>2, <2>1, Zenon DEF RestOK
<1>5. ASSUME NEW l \in {"close", "lock"} PROVE FrameOK([th[t] EXCEPT !.pc = l])
  <2> DEFINE f == [th[t] EXCEPT !.pc = l]
  <2>1. f.pc = l /\ f.nc = th[t].nc /\ f.at = th[t].at /\ f.r = th[t].r /\ f.op = th[t].op
    BY <1>2, GotoFields, ZenonT(30)
  <2> HIDE DEF f
  <2>2. FrameOK(f)
    BY <1>1, <1>3, <2>1, Zenon DEF FrameOK, Holds
  <2>3. QED
    BY <2>2, Zenon DEF f
<1>6. ASSUME Failing(t), conns' = [conns EXCEPT ![th[t].at][th[t].nc].fd = -1], th' = Goto(t, "close")
      PROVE  ClusterInv'
  <2> DEFINE e == [Conn(t) EXCEPT !.fd = -1]
  <2>1. Conn(t).unread = <<>>
    <3>1. Conn(t).fd \in {-1, 0, 1}
      BY <1>3, Zenon DEF Entries
    <3>2. Conn(t).fd >= 0 => ~(Conn(t).fd < 0)
      BY <3>1
    <3>3. QED
      BY <1>3, <1>6, <3>2, Zenon DEF Failing, Awaited
  <2>2. e \in Entries /\ e.in_use /\ e.unread = <<>>
    BY <1>3, <2>1, Zenon DEF Entries
  <2>3. conns' = [conns EXCEPT ![th[t].at][th[t].nc] = e]
    BY <1>2, <1>3, <1>6, Zenon DEF TypeOK, Conn
  <2>4. Awaited([th[t] EXCEPT !.pc = "close"], e)
    BY <2>2, Zenon DEF Awaited
  <2>5. FrameOK([th[t] EXCEPT !.pc = "close"]) /\ "close" \in Labels
    BY <1>5, Zenon DEF Labels
  <2> HIDE DEF e
  <2>6. QED
    BY <1>1, <1>4, <1>6, <2>2, <2>3, <2>4, <2>5, UseInv, ZenonT(30)
<1>7. ASSUME conns' = Released(t), th' = NextNode(t) PROVE ClusterInv'
  <2>1. Leaves(th', t) /\ th'[t].res = th[t].res
    BY <1>1, <1>2, <1>7, NextNodeLeaves, Zenon
  <2>2. Answered(th'[t])
    BY <2>1, LeavesAnswered, Zenon
  <2>3. Len(Conn(t).unread) <= 1
    BY <1>1, OneLine, Zenon
  <2>4. QED
    BY <1>1, <1>4, <1>7, <2>1, <2>2, <2>3, GiveBack, Zenon
<1>8. ASSUME th' = Goto(t, "lock"), UNCHANGED conns PROVE ClusterInv'
  <2>1. FrameOK([th[t] EXCEPT !.pc = "lock"]) /\ "lock" \in Labels /\ "lock" \notin {"send", "close", "drop"}
    BY <1>5, Zenon DEF Labels
  <2>2. QED
    BY <1>1, <1>4, <1>8, <2>1, GotoInv, Zenon
<1>9. QED
  BY <1>6, <1>7, <1>8, Zenon DEF read_header


\* vc_cluster_refresh returns its connection and goes back to its caller.
LEMMA RefreshEnds ==
    ASSUME ClusterInv, Sound, RestOK', NEW t \in Threads, Holds(th[t]), th[t].r,
           conns' = Released(t), th' = Refreshed(t), UNCHANGED host
    PROVE  ClusterInv'
<1>1. TypeOK
  BY InvParts, Zenon
<1>2. Leaves(th', t) /\ (th'[t].res = th[t].res \/ th'[t].res.says = None)
  BY <1>1, RefreshedLeaves, Zenon
<1>3. Answered(th'[t])
  BY <1>2, LeavesAnswered, Zenon
<1>4. Len(Conn(t).unread) <= 1
  BY OneLine, Zenon
<1>5. QED
  BY <1>2, <1>3, <1>4, GiveBack, Zenon

\* The range is read, or the connection is lost before it.
LEMMA RangeInv ==
    ASSUME ClusterInv, Sound, NEW t \in Threads, refresh_range(t)
    PROVE  ClusterInv'
<1> DEFINE msg == Head(Conn(t).unread)
           nm == IF format = "flat" THEN Nowhere ELSE msg.name
<1>1. th[t].pc = "range" /\ UNCHANGED <<host, owner, calls, node_count, alive, slot_map>> /\ Holds(th[t])
  BY Zenon DEF refresh_range, Holds
<1>2. RestOK /\ FrameOK(th[t])
  BY FrameIs, Zenon
<1>3. RestOK' /\ slot_map' \in Nat
  BY <1>1, <1>2, Zenon DEF RestOK
<1>4. ASSUME Readable(t), th' = [Goto(t, "find") EXCEPT ![t].name = nm], UNCHANGED conns
      PROVE  ClusterInv'
  <2>1. msg \in Messages
    BY <1>1, <1>4, UnreadTypes, Zenon DEF Readable
  <2> HIDE DEF msg
  <2>2. nm \in Names
    BY <2>1, Zenon DEF Messages, Names
  <2> HIDE DEF nm
  <2>3. QED
    BY <1>1, <1>3, <1>4, <2>2, FindInv, Zenon
<1>5. ASSUME conns' = Released(t), th' = Refreshed(t) PROVE ClusterInv'
  <2>1. th[t].r
    BY <1>1, <1>2, Zenon DEF FrameOK
  <2>2. QED
    BY <1>1, <1>3, <1>5, <2>1, RefreshEnds, Zenon
<1>6. QED
  BY <1>4, <1>5, Zenon DEF refresh_range

\* The second address of a flat reply is looked up.
LEMMA SecondInv ==
    ASSUME ClusterInv, Sound, NEW t \in Threads, refresh_second(t)
    PROVE  ClusterInv'
<1>1. /\ th[t].pc = "found" /\ UNCHANGED <<conns, host, owner, calls, node_count, alive>>
      /\ th' = [Goto(t, "find") EXCEPT ![t].name = Elsewhere] /\ slot_map' \in {th[t].idx, slot_map}
  BY Zenon DEF refresh_second
<1>2. RestOK /\ th[t] \in Frames
  BY FrameIs, ZenonT(30)
<1>3. slot_map' \in Nat /\ Elsewhere \in Names
  BY <1>1, <1>2, Zenon DEF RestOK, Frames, Names
<1>4. QED
  BY <1>1, <1>3, FindInv, Zenon

\* The slot's owner is set.
LEMMA SetInv ==
    ASSUME ClusterInv, Sound, NEW t \in Threads, refresh_set(t)
    PROVE  ClusterInv'
<1>1. /\ th[t].pc = "found" /\ UNCHANGED <<host, owner, calls, node_count, alive>> /\ Holds(th[t])
      /\ conns' = Released(t) /\ th' = Refreshed(t)
      /\ slot_map' \in {th[t].idx, slot_map}
  BY Zenon DEF refresh_set, Holds
<1>2. RestOK /\ FrameOK(th[t]) /\ th[t] \in Frames
  BY FrameIs, ZenonT(30)
<1>3. RestOK'
  <2>1. th[t].idx \in Nat
    BY <1>2, Zenon DEF Frames
  <2>2. QED
    BY <1>1, <1>2, <2>1, Zenon DEF RestOK
<1>4. th[t].r
  BY <1>1, <1>2, Zenon DEF FrameOK
<1>5. QED
  BY <1>1, <1>3, <1>4, RefreshEnds, Zenon



-----------------------------------------------------------------------------
(* A new node, and what happens to the nodes.                              *)

\* What node_init does to the entries.
LEMMA InitEntries ==
    ASSUME TypeOK, NEW x \in Index,
           conns' = [conns EXCEPT ![x] = [c \in Pool |-> [@[c] EXCEPT !.fd = -1]]]
    PROVE  /\ conns' \in [Index -> [Pool -> Entries]]
           /\ \A y \in Index, d \in Pool :
                 /\ conns'[y][d].in_use = conns[y][d].in_use /\ conns'[y][d].unread = conns[y][d].unread
                 /\ y # x => conns'[y][d] = conns[y][d]
<1> DEFINE q == [c \in Pool |-> [conns[x][c] EXCEPT !.fd = -1]]
<1>1. conns \in [Index -> [Pool -> Entries]]
  BY Zenon DEF TypeOK
<1>2. \A c \in Pool : conns[x][c] \in Entries
  BY <1>1, Zenon
<1>3. ASSUME NEW c \in Pool
      PROVE  q[c] \in Entries /\ q[c].in_use = conns[x][c].in_use /\ q[c].unread = conns[x][c].unread
  <2> DEFINE e == conns[x][c]
  <2>1. e \in Entries
    BY <1>2, Zenon
  <2>2. q[c] = [e EXCEPT !.fd = -1]
    BY Zenon
  <2> HIDE DEF e, q
  <2>3. q[c] \in Entries /\ q[c].in_use = e.in_use /\ q[c].unread = e.unread
    BY <2>1, <2>2, Zenon DEF Entries
  <2>4. QED
    BY <2>3, Zenon DEF e
<1>4. q \in [Pool -> Entries]
  <2>1. \A c \in Pool : q[c] \in Entries
    BY <1>3, Zenon
  <2>2. QED
    BY <2>1, Zenon
<1>5. conns' = [conns EXCEPT ![x] = q]
  BY Zenon
<1> HIDE DEF q
<1>6. conns' \in [Index -> [Pool -> Entries]]
  BY <1>1, <1>4, <1>5, Zenon
<1>7. conns'[x] = q /\ \A y \in Index : y # x => conns'[y] = conns[y]
  BY <1>1, <1>5, Zenon
<1>8. QED
  BY <1>3, <1>6, <1>7, ZenonT(30)

\* A thread whose frame follows holds what it held, or nothing.
LEMMA FollowsHolds ==
    ASSUME NEW t \in Threads, NEW f, Moves(th', t), th'[t] = f, Follows(th[t], f), NEW u \in Threads,
           th'[u].nc # 0
    PROVE  th'[u].nc = th[u].nc /\ th'[u].at = th[u].at
<1>1. CASE u = t
  BY <1>1, Zenon DEF Follows
<1>2. CASE u # t
  BY <1>2, Zenon DEF Moves
<1>3. QED
  BY <1>1, <1>2, Zenon

\* Nobody holds an entry of a node that node_init initialises for the first
\* time; one that it initialises again is a fault.
LEMMA NodeInitInv ==
    ASSUME ClusterInv, Sound, NEW t \in Threads, node_init(t)
    PROVE  ClusterInv'
<1> DEFINE x == th[t].idx
<1>1. th[t].pc = "init" /\ th' = Found(t, x) /\ Meet("raced", host[x] # Blank)
  BY Zenon DEF node_init
<1>2. RestOK /\ TypeOK /\ FramesOK /\ Exclusive /\ Replied /\ InStep /\ th[t] \in Frames /\ FrameOK(th[t])
  BY InvParts, FrameIs, Zenon
<1>3. x \in Index /\ x \in Nat /\ th[t].name \in Names
  <2>1. x \in Index
    BY <1>1, <1>2, Zenon DEF FrameOK
  <2>2. x \in Nat /\ th[t].name \in Names
    BY <1>2, Zenon DEF Frames
  <2>3. QED
    BY <2>1, <2>2, Zenon
<1>4. PICK f \in Frames : th' = [th EXCEPT ![t] = f] /\ Follows(th[t], f)
  BY <1>1, <1>3, FoundFrame, Zenon
<1>5. Moves(th', t) /\ th'[t] = f
  BY <1>4, FrameMoves, Zenon
<1> HIDE DEF x
<1>6. conns' = [conns EXCEPT ![x] = [c \in Pool |-> [@[c] EXCEPT !.fd = -1]]]
  BY Zenon DEF node_init, x
<1>7. /\ conns' \in [Index -> [Pool -> Entries]]
      /\ \A y \in Index, d \in Pool :
            /\ conns'[y][d].in_use = conns[y][d].in_use /\ conns'[y][d].unread = conns[y][d].unread
            /\ y # x => conns'[y][d] = conns[y][d]
  BY <1>2, <1>3, <1>6, InitEntries, Zenon
<1>8. TypeOK'
  <2>1. host' \in [Index -> Names \cup {Blank}] /\ alive' \in [Index -> BOOLEAN]
    BY <1>2, <1>3, Zenon DEF node_init, RestOK, x
  <2>2. UNCHANGED <<owner, calls, node_count, slot_map>>
    BY Zenon DEF node_init
  <2>3. RestOK'
    BY <1>2, <2>1, <2>2, Zenon DEF RestOK
  <2>4. QED
    BY <1>5, <1>7, <2>3, Zenon DEF TypeOK, Moves
<1>9. FramesOK'
  BY <1>2, <1>4, <1>5, MovesFrames, Zenon DEF Follows
<1>10. CASE host[x] # Blank
  <2>1. "raced" \in met'
    BY <1>1, <1>10, Zenon DEF Meet
  <2>2. QED
    BY <1>8, <1>9, <2>1, RacedInv, Zenon
<1>11. CASE host[x] = Blank
  <2>1. \A c \in Pool : ~conns[x][c].in_use
    BY <1>2, <1>3, <1>11, Zenon DEF Exclusive
  <2>2. ASSUME NEW u \in Threads, th'[u].nc # 0
        PROVE  /\ th'[u].nc = th[u].nc /\ th'[u].at = th[u].at /\ th[u].nc # 0
               /\ th[u].at \in Index /\ th[u].nc \in Pool
               /\ conns'[th[u].at][th[u].nc] = conns[th[u].at][th[u].nc]
    <3>1. th'[u].nc = th[u].nc /\ th'[u].at = th[u].at /\ th[u].nc # 0
      BY <1>4, <1>5, <2>2, FollowsHolds, Zenon
    <3>2. th[u].at \in Index /\ th[u].nc \in Pool
      BY <1>2, <3>1, HeldEntry, Zenon DEF FramesOK
    <3>3. th[u].at # x
      BY <1>2, <2>1, <3>1, <3>2, Zenon DEF Exclusive
    <3>4. QED
      BY <1>7, <3>1, <3>2, <3>3, Zenon
  <2>3. Exclusive'
    <3>1. ASSUME NEW u \in Threads, th'[u].nc # 0 PROVE conns'[th'[u].at][th'[u].nc].in_use
      BY <1>2, <2>2, <3>1, Zenon DEF Exclusive
    <3>2. ASSUME NEW u \in Threads, NEW v \in Threads, u # v, th'[u].nc # 0
          PROVE  <<th'[u].at, th'[u].nc>> # <<th'[v].at, th'[v].nc>>
      <4>1. CASE th'[v].nc = 0
        BY <3>2, <4>1, Zenon
      <4>2. CASE th'[v].nc # 0
        <5>1. <<th[u].at, th[u].nc>> # <<th[v].at, th[v].nc>>
          BY <1>2, <2>2, <3>2, Zenon DEF Exclusive
        <5>2. QED
          BY <2>2, <3>2, <4>2, <5>1, Zenon
      <4>3. QED
        BY <4>1, <4>2, Zenon
    <3>3. ASSUME NEW y \in Index, host'[y] = Blank, NEW c \in Pool PROVE ~conns'[y][c].in_use
      <4>1. CASE y = x
        BY <1>7, <2>1, <4>1, Zenon
      <4>2. CASE y # x
        <5>1. host[y] = Blank
          BY <1>2, <1>3, <3>3, <4>2, Zenon DEF node_init, RestOK, x
        <5>2. QED
          BY <1>2, <1>7, <5>1, ZenonT(30) DEF Exclusive
      <4>3. QED
        BY <4>1, <4>2, Zenon
    <3>4. QED
      BY <3>1, <3>2, <3>3, Zenon DEF Exclusive
  <2>4. InStep'
    <3>1. ASSUME NEW y \in Index, NEW c \in Pool, ~conns'[y][c].in_use PROVE conns'[y][c].unread = <<>>
      BY <1>2, <1>7, <3>1, ZenonT(30) DEF InStep
    <3>2. ASSUME NEW u \in Threads, th'[u].nc # 0
          PROVE  Awaited(th'[u], conns'[th'[u].at][th'[u].nc])
      <4>1. Awaited(th[u], conns[th[u].at][th[u].nc])
        BY <1>2, <2>2, <3>2, Zenon DEF InStep
      <4>2. CASE u = t
        <5>1. Same(th[t], f) /\ f.pc \notin {"send", "close", "drop"}
          BY <1>4, <1>5, <3>2, <4>2, Zenon DEF Follows
        <5>2. Awaited(f, conns[th[u].at][th[u].nc])
          BY <4>1, <4>2, <5>1, SameAwaits, Zenon
        <5>3. QED
          BY <1>5, <2>2, <3>2, <4>2, <5>2, Zenon
      <4>3. CASE u # t
        BY <1>5, <2>2, <3>2, <4>1, <4>3, Zenon DEF Moves
      <4>4. QED
        BY <4>2, <4>3, Zenon
    <3>3. QED
      BY <3>1, <3>2, Zenon DEF InStep
  <2>5. Replied'
    <3>1. Answered(f)
      BY <1>2, <1>4, SameAnswer, Zenon DEF Follows, Replied
    <3>2. QED
      BY <1>2, <1>5, <3>1, MovesReplied, Zenon
  <2>6. QED
    BY <1>8, <1>9, <2>3, <2>4, <2>5, Zenon DEF ClusterInv
<1>12. QED
  BY <1>10, <1>11, Zenon


\* Entries change only by losing what is unread, on connections that the
\* client does not know to be lost.
Fades ==
    \A y \in Index, d \in Pool :
        /\ conns'[y][d].in_use = conns[y][d].in_use
        /\ \/ conns'[y][d].unread = <<>>
           \/ conns'[y][d].unread = conns[y][d].unread /\ conns'[y][d].fd = conns[y][d].fd

\* That keeps the invariant.
LEMMA FadeInv ==
    ASSUME ClusterInv, Sound, RestOK', conns' \in [Index -> [Pool -> Entries]], Fades,
           UNCHANGED <<host, th, met>>
    PROVE  ClusterInv'
<1>1. TypeOK /\ FramesOK /\ Exclusive /\ Replied /\ InStep
  BY InvParts, Zenon
<1>2. TypeOK' /\ FramesOK'
  BY <1>1, Zenon DEF TypeOK, FramesOK
<1>3. ASSUME NEW u \in Threads, th[u].nc # 0 PROVE th[u].at \in Index /\ th[u].nc \in Pool
  BY <1>1, <1>3, HeldEntry, Zenon DEF FramesOK
<1>4. Exclusive'
  <2>1. ASSUME NEW u \in Threads, th[u].nc # 0 PROVE conns'[th[u].at][th[u].nc].in_use
    <3>1. th[u].at \in Index /\ th[u].nc \in Pool /\ conns[th[u].at][th[u].nc].in_use
      BY <1>1, <1>3, <2>1, Zenon DEF Exclusive
    <3>2. QED
      BY <3>1, Zenon DEF Fades
  <2>2. ASSUME NEW y \in Index, host[y] = Blank, NEW c \in Pool PROVE ~conns'[y][c].in_use
    BY <1>1, <2>2, Zenon DEF Exclusive, Fades
  <2>3. \A u, v \in Threads : u # v /\ th'[u].nc # 0 => <<th'[u].at, th'[u].nc>> # <<th'[v].at, th'[v].nc>>
    BY <1>1, Zenon DEF Exclusive
  <2>4. QED
    BY <2>1, <2>2, <2>3, Zenon DEF Exclusive
<1>5. InStep'
  <2>1. ASSUME NEW y \in Index, NEW c \in Pool, ~conns'[y][c].in_use PROVE conns'[y][c].unread = <<>>
    BY <1>1, <2>1, ZenonT(30) DEF InStep, Fades
  <2>2. ASSUME NEW u \in Threads, th[u].nc # 0
        PROVE  Awaited(th[u], conns'[th[u].at][th[u].nc])
    <3>1. Awaited(th[u], conns[th[u].at][th[u].nc])
      BY <1>1, <2>2, Zenon DEF InStep
    <3>2. CASE conns'[th[u].at][th[u].nc].unread = <<>>
      BY <3>2, Zenon DEF Awaited
    <3>3. CASE conns'[th[u].at][th[u].nc].unread # <<>>
      <4>1. /\ conns'[th[u].at][th[u].nc].unread = conns[th[u].at][th[u].nc].unread
            /\ conns'[th[u].at][th[u].nc].fd = conns[th[u].at][th[u].nc].fd
        BY <1>3, <2>2, <3>3, Zenon DEF Fades
      <4>2. QED
        BY <3>1, <4>1, Zenon DEF Awaited
    <3>4. QED
      BY <3>2, <3>3, Zenon
  <2>3. QED
    BY <2>1, <2>2, Zenon DEF InStep
<1>6. Replied'
  BY <1>1, Zenon DEF Replied
<1>7. QED
  BY <1>2, <1>4, <1>5, <1>6, Zenon DEF ClusterInv

\* A connection that is cut.
LEMMA CutEntry ==
    ASSUME NEW e \in Entries, NEW link \in {"fin", "rst"}
    PROVE  /\ Cut(e, link) \in Entries /\ Cut(e, link).in_use = e.in_use
           /\ \/ Cut(e, link).unread = <<>>
              \/ Cut(e, link).unread = e.unread /\ Cut(e, link).fd = e.fd
<1> DEFINE g == [e EXCEPT !.link = link, !.unread = IF link = "fin" THEN @ ELSE <<>>]
           s == IF link = "fin" THEN e.unread ELSE <<>>
<1>1. e.unread \in Seq(Messages)
  BY Zenon DEF Entries
<1>2. s \in Seq(Messages) /\ s \in {e.unread, <<>>}
  BY <1>1
<1>3. g = [e EXCEPT !.link = link, !.unread = s]
  BY Zenon DEF Entries
<1> HIDE DEF s
<1>4. g \in Entries /\ g.in_use = e.in_use /\ g.unread = s /\ g.fd = e.fd
  BY <1>2, <1>3, Zenon DEF Entries
<1> HIDE DEF g
<1>5. Cut(e, link) = e \/ Cut(e, link) = g
  BY Zenon DEF Cut, g
<1>6. QED
  BY <1>2, <1>4, <1>5, Zenon

\* A node crashes.
LEMMA CrashInv ==
    ASSUME ClusterInv, Sound, NEW n \in Nodes, crash(n)
    PROVE  ClusterInv'
<1>1. TypeOK /\ RestOK
  BY InvParts, Zenon
<1>2. RestOK' /\ UNCHANGED <<host, th, met>>
  <2>1. UNCHANGED <<owner, calls, node_count, host, alive, slot_map, th, met>>
    BY Zenon DEF crash
  <2>2. QED
    BY <1>1, <2>1, Zenon DEF RestOK
<1>3. PICK link \in {"fin", "rst"} :
         conns' = [x \in Index |-> IF host[x] # n THEN conns[x]
                                   ELSE [c \in Pool |-> Cut(conns[x][c], link)]]
  BY Zenon DEF crash
<1>4. conns \in [Index -> [Pool -> Entries]]
  BY <1>1, Zenon DEF TypeOK
<1>5. ASSUME NEW y \in Index
      PROVE  /\ conns'[y] \in [Pool -> Entries]
             /\ \A d \in Pool : conns'[y][d] \in {conns[y][d], Cut(conns[y][d], link)}
  <2>1. \A d \in Pool : conns[y][d] \in Entries /\ Cut(conns[y][d], link) \in Entries
    BY <1>4, CutEntry, Zenon
  <2>2. CASE host[y] # n
    BY <1>3, <1>4, <2>2, Zenon
  <2>3. CASE host[y] = n
    BY <1>3, <2>1, <2>3, Zenon
  <2>4. QED
    BY <2>2, <2>3, Zenon
<1>6. conns' \in [Index -> [Pool -> Entries]]
  BY <1>3, <1>5, Zenon
<1>7. Fades
  <2>1. ASSUME NEW y \in Index, NEW d \in Pool
        PROVE  /\ conns'[y][d].in_use = conns[y][d].in_use
               /\ \/ conns'[y][d].unread = <<>>
                  \/ conns'[y][d].unread = conns[y][d].unread /\ conns'[y][d].fd = conns[y][d].fd
    <3>1. conns[y][d] \in Entries
      BY <1>4, Zenon
    <3>2. conns'[y][d] = conns[y][d] \/ conns'[y][d] = Cut(conns[y][d], link)
      BY <1>5, Zenon
    <3>3. CASE conns'[y][d] = conns[y][d]
      BY <3>3, Zenon
    <3>4. CASE conns'[y][d] = Cut(conns[y][d], link)
      BY <3>1, <3>4, CutEntry
    <3>5. QED
      BY <3>2, <3>3, <3>4, Zenon
  <2>2. QED
    BY <2>1, Zenon DEF Fades
<1>8. QED
  BY <1>2, <1>6, <1>7, FadeInv, Zenon

\* A node restarts, or another one becomes the slot's owner.
LEMMA WorldInv ==
    ASSUME ClusterInv, Sound, NEW n \in Nodes, restart(n) \/ move_slot(n)
    PROVE  ClusterInv'
<1>1. TypeOK /\ RestOK
  BY InvParts, Zenon
<1>2. UNCHANGED <<calls, node_count, host, alive, conns, slot_map, th, met>> /\ owner' \in {owner, n}
  BY Zenon DEF restart, move_slot
<1>3. RestOK'
  BY <1>1, <1>2, Zenon DEF RestOK
<1>4. conns' \in [Index -> [Pool -> Entries]] /\ Fades
  BY <1>1, <1>2, Zenon DEF TypeOK, Fades
<1>5. QED
  BY <1>2, <1>3, <1>4, FadeInv, Zenon



-----------------------------------------------------------------------------
(* The theorems.                                                           *)

\* vc_cluster_connect has parsed the seeds.
LEMMA ClusterInit == Init => ClusterInv
<1> SUFFICES ASSUME Init PROVE ClusterInv
  BY Zenon
<1> DEFINE f == Idle(0, NoResult)
           g == [f EXCEPT !.pc = "next", !.op = "connect", !.r = TRUE]
<1>1. NoResult \in Messages /\ NoResult.says = None
  BY ResultTypes, Zenon DEF NoResult
<1>2. f \in Frames /\ f.nc = 0 /\ f.pc = "idle" /\ ~f.r /\ f.res = NoResult
  BY <1>1, Zenon DEF Idle, Frames, Labels, Names
<1>3. g \in Frames /\ g.nc = 0 /\ g.pc = "next" /\ g.r /\ g.res = NoResult
  BY <1>1, Zenon DEF Idle, Frames, Labels, Names
<1> HIDE DEF f, g
<1>4. th = [t \in Threads |-> IF t = Main THEN g ELSE f]
  BY ZenonT(30) DEF Init, f, g
<1>5. FrameOK(f) /\ FrameOK(g)
  BY <1>2, <1>3, Zenon DEF FrameOK, Holds
<1>6. ASSUME NEW t \in Threads
      PROVE  th[t] \in Frames /\ FrameOK(th[t]) /\ th[t].nc = 0 /\ Answered(th[t])
  <2>1. th[t] = f \/ th[t] = g
    BY <1>4, Zenon
  <2>2. QED
    BY <1>1, <1>2, <1>3, <1>5, <2>1, Zenon DEF Answered
<1>7. Closed \in Entries /\ Zeroed \in Entries
  BY SMTT(30) DEF Closed, Zeroed, Entries
<1>8. ~Closed.in_use /\ ~Zeroed.in_use /\ Closed.unread = <<>> /\ Zeroed.unread = <<>>
  BY Zenon DEF Closed, Zeroed
<1>9. conns \in [Index -> [Pool -> Entries]]
  BY <1>7, Zenon DEF Init
<1>10. ASSUME NEW x \in Index, NEW c \in Pool PROVE ~conns[x][c].in_use /\ conns[x][c].unread = <<>>
  <2>1. conns[x][c] = Closed \/ conns[x][c] = Zeroed
    BY Zenon DEF Init
  <2>2. QED
    BY <1>8, <2>1, Zenon
<1>11. RestOK
  <2>1. ASSUME NEW x \in Index PROVE host[x] \in Names \cup {Blank} /\ alive[x] \in BOOLEAN
    <3>1. x <= Len(Seeds) => Seeds[x] \in Nodes
      BY ClusterAssumption DEF Index
    <3>2. QED
      BY <3>1 DEF Init, Names
  <2>2. host \in [Index -> Names \cup {Blank}] /\ alive \in [Index -> BOOLEAN]
    BY <2>1, Zenon DEF Init
  <2>3. node_count \in 0 .. VC_CLUSTER_MAX_NODES
    BY ClusterAssumption DEF Init
  <2>4. QED
    BY <2>2, <2>3, Zenon DEF RestOK, Init
<1>12. TypeOK
  BY <1>4, <1>6, <1>9, <1>11, Zenon DEF TypeOK
<1>13. FramesOK /\ Exclusive /\ Replied /\ InStep
  BY <1>6, <1>10, Zenon DEF FramesOK, Exclusive, Replied, InStep
<1>14. QED
  BY <1>12, <1>13, Zenon DEF ClusterInv

\* Every step keeps the invariant.
LEMMA ClusterStep == ClusterInv /\ [Next]_vars => ClusterInv'
<1>1. ASSUME ClusterInv, Sound, NEW t \in Threads, step(t) PROVE ClusterInv'
  <2>1. CASE node_conn_get(t) \/ node_conn_open(t) \/ node_conn_close(t)
    BY <1>1, <2>1, GetInv, OpenInv, CloseInv, Zenon
  <2>2. CASE sock_sendall(t) \/ read_reply(t) \/ read_pong(t) \/ read_header(t)
    BY <1>1, <2>2, SendInv, ReplyInv, PongInv, HeaderInv, Zenon
  <2>3. CASE \/ vc_cluster_refresh(t) \/ refresh_lock(t) \/ refresh_range(t)
             \/ refresh_second(t) \/ refresh_set(t)
    BY <1>1, <2>3, RefreshInv, LockInv, RangeInv, SecondInv, SetInv, ZenonT(30)
  <2>4. CASE node_find_or_add(t) \/ node_count_store(t) \/ node_init(t)
    BY <1>1, <2>4, SearchInv, CountInv, NodeInitInv, Zenon
  <2>5. CASE vc_cluster_node_for_slot(t) \/ cmd_attempt(t) \/ health_thread(t)
    BY <1>1, <2>5, SlotInv, AttemptInv, HealthInv, Zenon
  <2>6. QED
    BY <1>1, <2>1, <2>2, <2>3, <2>4, <2>5, Zenon DEF step
<1>2. ASSUME ClusterInv, Sound, NEW t \in Callers, vc_cluster_cmd(t) PROVE ClusterInv'
  <2>1. t \in Threads
    BY Zenon DEF Threads
  <2>2. QED
    BY <1>2, <2>1, CallInv, Zenon
<1>3. ASSUME ClusterInv, Sound, NEW n \in Nodes, crash(n) \/ restart(n) \/ move_slot(n) PROVE ClusterInv'
  BY <1>3, CrashInv, WorldInv, ZenonT(30)
<1>4. ASSUME ClusterInv, UNCHANGED vars PROVE ClusterInv'
  BY <1>4, ZenonT(30) DEF ClusterInv, TypeOK, RestOK, FramesOK, Exclusive, Replied, InStep, Sound
<1>5. QED
  BY <1>1, <1>2, <1>3, <1>4, Zenon DEF Next

\* The client's state keeps the invariant.
LEMMA ClusterCorrect == Spec => []ClusterInv
  BY ClusterInit, ClusterStep, PTL DEF Spec

\* node_conn_get hands a pool entry to one thread at a time and marks it, until
\* one of the races that the code leaves open has happened: an entry opened
\* again before the thread that closed it has given it back, or a node used
\* before node_find_or_add has initialised it or initialised twice.  This is so
\* for every number of callers, nodes, pool entries, crashes and moves.
THEOREM PoolCorrect == Spec => []PoolExclusive
<1>1. ClusterInv => PoolExclusive
  BY Zenon DEF ClusterInv, Exclusive, PoolExclusive, Conn
<1>2. QED
  BY <1>1, ClusterCorrect, PTL

\* The reply that vc_cluster_cmd hands to its caller is the first line that answers
\* that call's own request, until one of those races has happened: across pooled
\* connections that other threads have used, crashes, redirections, replies of types
\* that resp_read_reply does not know, and retries.  The first reply of more than one
\* line (an array, a map, the two replies to INCR) is the last one this is claimed of.
THEOREM ReplyCorrect == Spec => []ReplyMatches
<1>1. ClusterInv => ReplyMatches
  <2>1. ASSUME ClusterInv, "raced" \notin met, NEW t \in Callers,
               th[t].res.says \notin {None, "nonode", "net"}
        PROVE  Mine(th[t], th[t].res)
    <3>1. t \in Threads
      BY Zenon DEF Threads
    <3>2. Answered(th[t])
      BY <2>1, <3>1, Zenon DEF ClusterInv, Replied
    <3>3. QED
      BY <2>1, <3>2, Zenon DEF Answered
  <2>2. QED
    BY <2>1, Zenon DEF ReplyMatches, Mine
<1>2. QED
  BY <1>1, ClusterCorrect, PTL


-----------------------------------------------------------------------------
(* Calls that the slot's moves do not fail.                                *)

\* What a call depends on apart from its thread and its entry.
View == [host |-> host, count |-> node_count, moves |-> moves, owner |-> owner]

\* Index x is that of a node already initialised.
Old(x, w) == x \in Index /\ w.host[x] # Blank

\* There have been m moves of the slot, and if no more then node n owns it.
Latest(n, m, w) == n \in Nodes /\ m <= w.moves /\ (m = w.moves => n = w.owner)

Adding(f) == f.pc \in {"find", "count", "init"}

\* vc_cluster_refresh stays with the first node, and what that one has said was
\* true at some time.
Refreshing(f, e, w) ==
    /\ f.op # "ping"
    /\ f.pc = "next" => f.at = 0
    /\ Holds(f) /\ e.unread # <<>> => e.unread[1].says = "slots" /\ Latest(e.unread[1].name, 0, w)
    /\ Adding(f) => Latest(f.name, 0, w)
    /\ f.pc = "found" => Old(f.idx, w) /\ Latest(w.host[f.idx], 0, w)

\* Each attempt of vc_cluster_cmd is at a node that has owned the slot later than
\* the one before.
Calling(f, e, w) ==
    /\ ~f.r /\ Adding(f) => Latest(f.name, f.attempt + 1, w)
    /\ ~f.r /\ f.pc = "slot" => f.attempt = 0
    /\ ~f.r /\ ~Adding(f) /\ f.pc # "slot" => Old(f.ni, w) /\ Latest(w.host[f.ni], f.attempt, w)
    /\ f.r => Old(f.ni, w) /\ Latest(w.host[f.ni], f.attempt + 1, w)
    /\ ~f.r /\ f.pc \in {"get", "open", "send", "read"} => f.at = f.ni
    /\ ~f.r /\ f.pc = "read" /\ e.unread # <<>> /\ e.unread[1].says = "moved" =>
          Latest(e.unread[1].name, f.attempt + 1, w)

Steady(t, f, e, w) ==
    /\ f.pc \notin {"close", "drop"}
    /\ Holds(f) => e.fd >= 0
    /\ f.pc = "open" => Old(f.at, w)
    /\ f.pc = "init" => f.idx \in 1 .. w.count
    /\ f.op = "ping" => t = Health /\ ~Adding(f)
    /\ f.op = "cmd" => t \in Callers /\ Calling(f, e, w)
    /\ f.r => Refreshing(f, e, w)
    /\ f.res.says # "nonode" /\ (w.moves < VC_CLUSTER_MAX_RETRIES => f.res.says # "net")

\* A node is initialised or blank; the connections to it are up.
NodeOK(x) ==
    IF host[x] = Blank THEN ~alive[x] /\ \A c \in Pool : conns[x][c].fd >= 0
    ELSE /\ x \in Known /\ host[x] \in Nodes /\ alive[x]
         /\ \A c \in Pool : conns[x][c].fd >= 0 => conns[x][c].link = "up"

NodesOK == host[1] # Blank /\ (\A x \in Index : NodeOK(x)) /\ \A n \in Nodes : up[n]

\* vc_cluster_connect has returned, or a call waits for the map.
Started == Connected \/ \E t \in Threads : th[t].pc = "slot"

MapOK == Started /\ topology_lock = None => Old(slot_map, View) /\ Latest(host[slot_map], 0, View)

CalmOK == NodesOK /\ MapOK /\ \A t \in Threads : Steady(t, th[t], Conn(t), View)

CalmInv == crashes \in Nat /\ moves \in Nat /\ (Calm => CalmOK)

\* A later view.
Grows(w, v) ==
    /\ \A x \in Index : w.host[x] # Blank => v.host[x] = w.host[x]
    /\ 1 .. w.count \subseteq 1 .. v.count
    /\ v.moves < VC_CLUSTER_MAX_RETRIES => w.moves < VC_CLUSTER_MAX_RETRIES
    /\ \A n, m : m \in Nat /\ Latest(n, m, w) => Latest(n, m, v)

\* What is known of a thread stays true.
LEMMA SteadyCarries ==
    ASSUME NEW t, NEW f \in Frames, NEW e, NEW d, NEW w, NEW v, Steady(t, f, e, w), Grows(w, v),
           Holds(f) => d = e
    PROVE  Steady(t, f, d, v)
<1>1. f.attempt \in Nat /\ f.attempt + 1 \in Nat /\ 0 \in Nat
  BY DEF Frames
<1>2. \A x : Old(x, w) => Old(x, v) /\ v.host[x] = w.host[x]
  BY Zenon DEF Old, Grows
<1>3. \A n : /\ Latest(n, 0, w) => Latest(n, 0, v)
             /\ Latest(n, f.attempt, w) => Latest(n, f.attempt, v)
             /\ Latest(n, f.attempt + 1, w) => Latest(n, f.attempt + 1, v)
  BY <1>1, Zenon DEF Grows
<1>4. f.pc = "read" => Holds(f)
  BY Zenon DEF Holds
<1>5. Refreshing(f, e, w) => Refreshing(f, d, v)
  BY <1>2, <1>3, Zenon DEF Refreshing
<1>6. Calling(f, e, w) => Calling(f, d, v)
  BY <1>2, <1>3, <1>4, ZenonT(30) DEF Calling
<1>7. QED
  BY <1>2, <1>5, <1>6, ZenonT(30) DEF Steady, Grows

\* The fields of the view.
LEMMA ViewIs ==
    /\ View.host = host /\ View.count = node_count /\ View.moves = moves /\ View.owner = owner
    /\ View'.host = host' /\ View'.count = node_count' /\ View'.moves = moves' /\ View'.owner = owner'
  BY Zenon DEF View

\* A view that does not change.
LEMMA SameView ==
    ASSUME UNCHANGED <<host, node_count, moves, owner>>
    PROVE  View' = View /\ Grows(View, View')
<1>1. View' = View
  BY Zenon DEF View
<1>2. Grows(View, View)
  BY Zenon DEF Grows
<1>3. QED
  BY <1>1, <1>2, Zenon

\* A step of thread t: what is left to show.
LEMMA ThreadCalm ==
    ASSUME ClusterInv, Sound, CalmOK, NEW t \in Threads, Moves(th', t), Grows(View, View'),
           \A u \in Threads : u # t /\ th[u].nc # 0 => conns'[th[u].at][th[u].nc] = conns[th[u].at][th[u].nc],
           NodesOK', MapOK', Steady(t, th'[t], conns'[th'[t].at][th'[t].nc], View')
    PROVE  CalmOK'
<1>1. ASSUME NEW u \in Threads PROVE Steady(u, th'[u], conns'[th'[u].at][th'[u].nc], View')
  <2>1. CASE u = t
    BY <2>1, ZenonT(30)
  <2>2. CASE u # t
    <3> DEFINE d == conns'[th[u].at][th[u].nc]
    <3>1. th'[u] = th[u] /\ th[u] \in Frames /\ FrameOK(th[u])
      BY <2>2, FrameIs, ZenonT(30) DEF Moves
    <3>2. Holds(th[u]) => th[u].nc # 0
      BY <3>1, SMTT(30) DEF FrameOK, Pool
    <3>3. Holds(th[u]) => d = conns[th[u].at][th[u].nc]
      BY <2>2, <3>2, Zenon
    <3>4. Steady(u, th[u], conns[th[u].at][th[u].nc], View)
      BY Zenon DEF CalmOK, Conn
    <3> HIDE DEF d
    <3>5. Steady(u, th[u], d, View')
      BY <3>1, <3>3, <3>4, SteadyCarries, Zenon
    <3>6. QED
      BY <3>1, <3>5, Zenon DEF d
  <2>3. QED
    BY <2>1, <2>2, Zenon
<1>2. QED
  BY <1>1, Zenon DEF CalmOK, Conn

\* The map stays as good as it was.
LEMMA MapKept ==
    ASSUME MapOK, Grows(View, View'), UNCHANGED <<slot_map, topology_lock>>, Started' => Started
    PROVE  MapOK'
<1>1. SUFFICES ASSUME Started, topology_lock = None
               PROVE  Old(slot_map, View') /\ Latest(host'[slot_map], 0, View')
  BY Zenon DEF MapOK
<1>2. Old(slot_map, View) /\ Latest(host[slot_map], 0, View)
  BY <1>1, Zenon DEF MapOK
<1>3. host'[slot_map] = host[slot_map] /\ Old(slot_map, View')
  BY <1>2, ViewIs, Zenon DEF Old, Grows
<1>4. 0 \in Nat
  BY Zenon
<1>5. QED
  BY <1>2, <1>3, <1>4, Zenon DEF Grows

\* So it is when Main is not the one that becomes idle, and calls begin after it.
LEMMA MapStays ==
    ASSUME MapOK, Grows(View, View'), UNCHANGED <<slot_map, topology_lock>>, NEW t \in Threads,
           Moves(th', t), t # Main \/ th'[t].pc # "idle", th'[t].pc = "slot" => Connected
    PROVE  MapOK'
<1>1. Main \in Threads
  BY Zenon DEF Threads
<1>2. \A u \in Threads : u # t => th'[u] = th[u]
  BY Zenon DEF Moves
<1>3. Started' => Started
  <2>1. ASSUME Connected' PROVE Started
    BY <1>1, <1>2, <2>1, Zenon DEF Started, Connected
  <2>2. ASSUME NEW u \in Threads, th'[u].pc = "slot" PROVE Started
    <3>1. CASE u = t
      BY <2>2, <3>1, Zenon DEF Started
    <3>2. CASE u # t
      BY <1>2, <2>2, <3>2, Zenon DEF Started
    <3>3. QED
      BY <3>1, <3>2, Zenon
  <2>3. QED
    BY <2>1, <2>2, Zenon DEF Started
<1>4. QED
  BY <1>3, MapKept, Zenon

\* A step of thread t that leaves nodes and entries alone.
LEMMA GoCalm ==
    ASSUME ClusterInv, Sound, CalmOK, NEW t \in Threads, Moves(th', t), MapOK',
           UNCHANGED <<conns, host, alive, node_count, up, owner, moves>>,
           Steady(t, th'[t], conns[th'[t].at][th'[t].nc], View)
    PROVE  CalmOK'
<1>1. View' = View /\ Grows(View, View')
  BY SameView, Zenon
<1>2. NodesOK'
  BY Zenon DEF CalmOK, NodesOK, NodeOK, Known
<1>3. Steady(t, th'[t], conns'[th'[t].at][th'[t].nc], View')
  BY <1>1, Zenon
<1>4. QED
  BY <1>1, <1>2, <1>3, ThreadCalm, ZenonT(30)

\* A step of thread t that changes one entry, to one with a connection that is up.
LEMMA EntryCalm ==
    ASSUME ClusterInv, Sound, CalmOK, NEW t \in Threads, Moves(th', t), MapOK',
           NEW x \in Index, NEW c \in Pool, May(t, x, c), host[x] # Blank,
           NEW e \in Entries, conns' = [conns EXCEPT ![x][c] = e], e.fd >= 0, e.link = "up",
           UNCHANGED <<host, alive, node_count, up, owner, moves>>,
           Steady(t, th'[t], conns'[th'[t].at][th'[t].nc], View)
    PROVE  CalmOK'
<1>1. TypeOK /\ FramesOK /\ Exclusive
  BY InvParts, Zenon
<1>2. conns'[x][c] = e /\ Only(x, c)
  BY <1>1, EntryChanges, Zenon DEF Sets
<1>3. View' = View /\ Grows(View, View')
  BY SameView, Zenon
<1>4. ASSUME NEW u \in Threads, u # t, th[u].nc # 0
      PROVE  conns'[th[u].at][th[u].nc] = conns[th[u].at][th[u].nc]
  <2>1. th[u].nc \in Pool /\ th[u].at \in Index
    BY <1>1, <1>4, HeldEntry, Zenon DEF FramesOK
  <2>2. ~(th[u].at = x /\ th[u].nc = c)
    BY <1>1, <1>4, OthersApart, Zenon
  <2>3. QED
    BY <1>2, <2>1, <2>2, Zenon DEF Only
<1>5. NodesOK'
  <2>1. ASSUME NEW y \in Index PROVE NodeOK(y)'
    <3>1. NodeOK(y) /\ NodeOK(x)
      BY Zenon DEF CalmOK, NodesOK
    <3>2. \A d \in Pool : conns'[y][d] = conns[y][d] \/ (y = x /\ conns'[y][d] = e)
      BY <1>2, Zenon DEF Only
    <3>3. Known' = Known /\ host' = host /\ alive' = alive
      BY Zenon DEF Known
    <3>4. QED
      BY <3>1, <3>2, <3>3, Zenon DEF NodeOK
  <2>2. host'[1] # Blank /\ \A n \in Nodes : up'[n]
    BY Zenon DEF CalmOK, NodesOK
  <2>3. QED
    BY <2>1, <2>2, ZenonT(30) DEF NodesOK
<1>6. Steady(t, th'[t], conns'[th'[t].at][th'[t].nc], View')
  BY <1>3, Zenon
<1>7. QED
  BY <1>3, <1>4, <1>5, <1>6, ThreadCalm, Zenon

-----------------------------------------------------------------------------
(* The steps of a thread when all is calm.                                 *)

CalmState == ClusterInv /\ CalmInv /\ Calm

\* What such a state offers.
LEMMA CalmFacts ==
    ASSUME CalmState, NEW t \in Threads
    PROVE  /\ ClusterInv /\ Sound /\ CalmOK /\ NodesOK /\ MapOK /\ RestOK /\ TypeOK /\ moves \in Nat
           /\ th \in [Threads -> Frames] /\ th[t] \in Frames /\ FrameOK(th[t])
           /\ Steady(t, th[t], Conn(t), View)
<1>1. ClusterInv /\ Sound /\ CalmOK /\ moves \in Nat
  BY Zenon DEF CalmState, CalmInv, Calm
<1>2. QED
  BY <1>1, FrameIs, InvParts, Zenon DEF CalmOK

\* A thread that holds an entry has a connection that is up.
LEMMA CalmHeld ==
    ASSUME CalmState, NEW t \in Threads, Holds(th[t])
    PROVE  /\ th[t].at \in Index /\ th[t].nc \in Pool /\ host[th[t].at] # Blank /\ May(t, th[t].at, th[t].nc)
           /\ Conn(t) \in Entries /\ Conn(t).fd >= 0 /\ Conn(t).link = "up" /\ ~Failing(t)
           /\ Awaited(th[t], Conn(t))
<1>1. ClusterInv /\ Sound /\ NodesOK /\ Steady(t, th[t], Conn(t), View)
  BY CalmFacts, Zenon
<1>2. /\ th[t].at \in Index /\ th[t].nc \in Pool /\ th[t].nc # 0
      /\ Conn(t) \in Entries /\ host[th[t].at] # Blank /\ Awaited(th[t], Conn(t))
  BY <1>1, HeldFacts, Zenon
<1>3. Conn(t).fd >= 0
  BY <1>1, Zenon DEF Steady
<1>4. Conn(t).link = "up"
  BY <1>1, <1>2, <1>3, ZenonT(30) DEF NodesOK, NodeOK, Conn
<1>5. Conn(t).fd \in Int
  BY <1>2 DEF Entries
<1>6. ~Failing(t)
  BY <1>3, <1>4, <1>5 DEF Failing
<1>7. QED
  BY <1>2, <1>3, <1>4, <1>6, Zenon DEF May

Using == {"get", "open", "send", "read", "lock", "range"}

\* Between the choice of a node and the look at its answer.
LEMMA SteadyUses ==
    ASSUME NEW t, NEW f, NEW g, NEW e, NEW d, NEW w, Steady(t, f, e, w), f.pc \in Using, g.pc \in Using,
           g.op = f.op, g.r = f.r, g.ni = f.ni, g.attempt = f.attempt, g.res = f.res, g.at = f.at,
           f.pc \in {"lock", "range"} => f.r,
           Holds(g) => d.fd >= 0, g.pc = "open" => Old(g.at, w),
           g.r /\ Holds(g) /\ d.unread # <<>> => d.unread[1].says = "slots" /\ Latest(d.unread[1].name, 0, w),
           ~g.r /\ g.op = "cmd" /\ g.pc = "read" /\ d.unread # <<>> /\ d.unread[1].says = "moved" =>
              Latest(d.unread[1].name, g.attempt + 1, w)
    PROVE  Steady(t, g, d, w)
<1>1. /\ ~Adding(f) /\ ~Adding(g) /\ g.pc \notin {"next", "found", "close", "drop", "init"}
      /\ f.pc # "slot" /\ g.pc # "slot"
  BY Zenon DEF Using, Adding
<1>2. ~f.r => f.pc \in {"get", "open", "send", "read"}
  BY Zenon DEF Using
<1>3. f.r => Refreshing(g, d, w)
  BY <1>1, Zenon DEF Steady, Refreshing
<1>4. f.op = "cmd" => Calling(g, d, w)
  <2>1. SUFFICES ASSUME f.op = "cmd" PROVE Calling(g, d, w)
    BY Zenon
  <2>2. Calling(f, e, w)
    BY <2>1, Zenon DEF Steady
  <2>3. QED
    BY <1>1, <1>2, <2>1, <2>2, ZenonT(30) DEF Calling
<1>5. QED
  BY <1>1, <1>3, <1>4, ZenonT(30) DEF Steady

\* A thread at rest.
LEMMA SteadyIdle ==
    ASSUME NEW t, NEW f, NEW e, NEW w, f.pc = "idle", ~f.r, f.op # "cmd", f.op = "ping" => t = Health,
           f.res.says \notin {"nonode", "net"}
    PROVE  Steady(t, f, e, w)
<1>1. ~Holds(f) /\ ~Adding(f)
  BY Zenon DEF Holds, Adding
<1>2. QED
  BY <1>1, Zenon DEF Steady

\* The search for a node has ended with index x.
LEMMA SteadyFound ==
    ASSUME NEW t, NEW f, NEW g, NEW e, NEW w, NEW x, Steady(t, f, e, w), Old(x, w), w.host[x] = f.name,
           f.pc \in {"find", "init"}, FrameOK(f), Finds(f, g, x), g.res = f.res
    PROVE  Steady(t, g, e, w)
<1>1. Adding(f) /\ ~Adding(g) /\ g.pc \in {"found", "next"} /\ f.op # "ping" /\ g.op = f.op /\ g.r
  BY Zenon DEF Adding, Finds, Steady
<1>2. Holds(g) => Holds(f) /\ f.r
  BY <1>1, Zenon DEF Holds, Finds
<1>3. CASE f.r
  <2>1. Refreshing(f, e, w) /\ g.pc = "found" /\ g.idx = x
    BY <1>3, Zenon DEF Steady, Finds
  <2>2. Latest(f.name, 0, w)
    BY <1>1, <2>1, ZenonT(30) DEF Refreshing
  <2>3. g.pc # "next"
    BY <2>1, ZenonT(30)
  <2>4. Refreshing(g, e, w)
    BY <1>1, <1>2, <2>1, <2>2, <2>3, ZenonT(30) DEF Refreshing
  <2>5. QED
    BY <1>1, <1>2, <1>3, <2>1, <2>4, ZenonT(30) DEF Steady, Calling, Finds
<1>4. CASE ~f.r
  <2>1. g.pc = "next" /\ g.ni = x /\ g.at = 0 /\ ~Holds(g)
    BY <1>2, <1>4, ZenonT(30) DEF Finds
  <2>2. Refreshing(g, e, w)
    BY <1>1, <2>1, Zenon DEF Refreshing
  <2>3. f.op = "cmd"
    BY <1>1, <1>4, Zenon DEF FrameOK
  <2>4. Latest(f.name, f.attempt + 1, w)
    BY <1>1, <1>4, <2>3, Zenon DEF Steady, Calling
  <2>5. QED
    BY <1>1, <2>1, <2>2, <2>3, <2>4, ZenonT(30) DEF Steady, Calling, Finds
<1>5. QED
  BY <1>3, <1>4, ZenonT(30)

\* node_conn_get finds an idle connection, or goes on to open one.
LEMMA GetCalm ==
    ASSUME CalmState, Calm', NEW t \in Threads, node_conn_get(t)
    PROVE  CalmOK'
<1> DEFINE x == th[t].at
           idle == {c \in Pool : ~conns[x][c].in_use /\ conns[x][c].fd >= 0}
<1>1. /\ ClusterInv /\ Sound /\ CalmOK /\ NodesOK /\ MapOK /\ TypeOK /\ th[t] \in Frames /\ FrameOK(th[t])
      /\ Steady(t, th[t], Conn(t), View)
  BY CalmFacts, Zenon
<1>2. /\ th[t].pc = "get" /\ UNCHANGED <<host, alive, node_count, up, owner, moves, slot_map, topology_lock>>
  BY ZenonT(30) DEF node_conn_get
<1>3. x \in Index /\ th[t].nc = 0
  BY <1>1, <1>2, Zenon DEF FrameOK, Holds
<1>4. View' = View /\ Grows(View, View')
  BY <1>2, SameView, Zenon
<1>5. ASSUME NEW c \in First(idle), conns' = [conns EXCEPT ![x][c].in_use = TRUE],
             th' = [Goto(t, "send") EXCEPT ![t].nc = c], Meet("raced", host[x] = Blank)
      PROVE  CalmOK'
  <2> DEFINE e == [conns[x][c] EXCEPT !.in_use = TRUE]
  <2>2. c \in idle
    BY <1>5, FirstIsIn, Zenon
  <2>3. c \in Pool /\ ~conns[x][c].in_use /\ conns[x][c].fd >= 0
    BY <2>2, Zenon
  <2>4. conns[x][c] \in Entries /\ conns[x][c].unread = <<>>
    BY <1>1, <1>3, <2>3, InvParts, Zenon DEF TypeOK, InStep
  <2>5. conns' = [conns EXCEPT ![x][c].in_use = TRUE] /\ th' = [Goto(t, "send") EXCEPT ![t].nc = c]
    BY <1>5, ZenonT(30)
  <2>6. host[x] # Blank
    BY <1>5, Zenon DEF Meet, Calm, Sound
  <2>7. conns' = [conns EXCEPT ![x][c] = e]
    BY <1>1, <1>3, <2>3, <2>5, Zenon DEF TypeOK
  <2>8. conns[x][c].link = "up"
    BY <1>1, <1>3, <2>3, <2>6, Zenon DEF NodesOK, NodeOK
  <2>9. e \in Entries /\ e.fd >= 0 /\ e.link = "up" /\ e.unread = <<>>
    BY <2>3, <2>4, <2>8, ZenonT(30) DEF Entries
  <2> HIDE DEF e
  <2>10. /\ Moves(th', t) /\ SameCall(th[t], th'[t])
         /\ th'[t].pc = "send" /\ th'[t].nc = c /\ th'[t].at = x
         /\ th'[t].r = th[t].r /\ th'[t].op = th[t].op /\ th'[t].ni = th[t].ni
         /\ th'[t].attempt = th[t].attempt
    BY <1>1, <1>2, <2>3, <2>5, TakeFrame, Zenon
  <2>11. conns'[x][c] = e
    BY <1>1, <1>3, <2>3, <2>7, ZenonT(30) DEF TypeOK
  <2>12. Steady(t, th'[t], e, View)
    BY <1>1, <1>2, <2>9, <2>10, SteadyUses, ZenonT(30) DEF Using, SameCall
  <2>13. MapOK'
    BY <1>1, <1>2, <1>4, <2>10, MapStays, ZenonT(30)
  <2>14. May(t, x, c)
    BY <1>3, <2>3, ZenonT(30) DEF May
  <2>15. Steady(t, th'[t], conns'[th'[t].at][th'[t].nc], View)
    BY <2>10, <2>11, <2>12, Zenon
  <2> HIDE DEF x
  <2>16. QED
    BY <1>1, <1>2, <1>3, <2>3, <2>6, <2>7, <2>9, <2>10, <2>13, <2>14, <2>15, EntryCalm, ZenonT(30)
<1>6. CASE idle = {} /\ th' = Goto(t, "open") /\ UNCHANGED <<conns, met>>
  <2> DEFINE f == [th[t] EXCEPT !.pc = "open"]
  <2>1. /\ f.pc = "open" /\ f.nc = th[t].nc /\ f.at = th[t].at /\ f.r = th[t].r /\ f.op = th[t].op
        /\ f.ni = th[t].ni /\ f.attempt = th[t].attempt /\ f.res = th[t].res
    BY <1>1, GotoFields, ZenonT(30)
  <2>2. Moves(th', t) /\ th'[t] = f
    BY <1>1, <1>6, GotoMoves, Zenon DEF Labels
  <2> HIDE DEF f
  <2>3. host[x] # Blank
    <3>1. 1 \in Pool
      BY ClusterAssumption DEF Pool
    <3>2. 1 \notin idle
      BY <1>6, Zenon
    <3>3. conns[x][1].in_use \/ ~(conns[x][1].fd >= 0)
      BY <3>1, <3>2, Zenon
    <3>4. host[x] = Blank => ~conns[x][1].in_use /\ conns[x][1].fd >= 0
      BY <1>1, <1>3, <3>1, InvParts, ZenonT(30) DEF Exclusive, NodesOK, NodeOK
    <3>5. QED
      BY <3>3, <3>4, Zenon
  <2>4. Old(x, View) /\ ~Holds(f)
    BY <1>3, <2>1, <2>3, ViewIs, Zenon DEF Old, Holds
  <2>5. Steady(t, f, conns[f.at][f.nc], View)
    BY <1>1, <1>2, <2>1, <2>4, SteadyUses, ZenonT(30) DEF Using
  <2>6. MapOK'
    BY <1>1, <1>2, <1>4, <2>1, <2>2, MapStays, ZenonT(30)
  <2>7. QED
    BY <1>1, <1>2, <1>6, <2>2, <2>5, <2>6, GoCalm, ZenonT(30)
<1>7. QED
  BY <1>5, <1>6, Zenon DEF node_conn_get

\* node_conn_get opens a connection: there is room, and the node is up.
LEMMA OpenCalm ==
    ASSUME CalmState, Calm', NEW t \in Threads, node_conn_open(t)
    PROVE  CalmOK'
<1> DEFINE x == th[t].at
           vacant == {c \in Pool : conns[x][c].fd < 0}
           there == host[x] \in Nodes /\ up[host[x]]
<1>1. /\ ClusterInv /\ Sound /\ CalmOK /\ NodesOK /\ MapOK /\ TypeOK /\ th[t] \in Frames /\ FrameOK(th[t])
      /\ Steady(t, th[t], Conn(t), View)
  BY CalmFacts, Zenon
<1>2. /\ th[t].pc = "open" /\ UNCHANGED <<host, node_count, up, owner, moves, slot_map, topology_lock>>
  BY ZenonT(30) DEF node_conn_open
<1>3. x \in Index /\ th[t].nc = 0
  BY <1>1, <1>2, Zenon DEF FrameOK, Holds
<1>4. host[x] # Blank /\ there
  <2>1. host[x] # Blank
    BY <1>1, <1>2, ViewIs, Zenon DEF Steady, Old
  <2>2. QED
    BY <1>1, <1>3, <2>1, Zenon DEF NodesOK, NodeOK
<1>5. ASSUME NEW c \in First(vacant), conns' = [conns EXCEPT ![x][c] = Opened],
             th' = [Goto(t, "send") EXCEPT ![t].nc = c],
             Meet("raced", conns[x][c].in_use), UNCHANGED alive
      PROVE  CalmOK'
  <2>2. c \in vacant
    BY <1>5, FirstIsIn, Zenon
  <2>3. c \in Pool
    BY <2>2, Zenon
  <2>4. /\ conns' = [conns EXCEPT ![x][c] = Opened] /\ th' = [Goto(t, "send") EXCEPT ![t].nc = c]
        /\ Meet("raced", conns[x][c].in_use) /\ UNCHANGED alive
    BY <1>5, ZenonT(30)
  <2>5. ~conns[x][c].in_use
    BY <2>4, Zenon DEF Meet, Calm, Sound
  <2>6. Opened \in Entries /\ Opened.fd >= 0 /\ Opened.link = "up" /\ Opened.unread = <<>>
    BY SMTT(30) DEF Opened, Entries
  <2>7. /\ Moves(th', t) /\ SameCall(th[t], th'[t])
        /\ th'[t].pc = "send" /\ th'[t].nc = c /\ th'[t].at = x
        /\ th'[t].r = th[t].r /\ th'[t].op = th[t].op /\ th'[t].ni = th[t].ni
        /\ th'[t].attempt = th[t].attempt
    BY <1>1, <1>2, <2>3, <2>4, TakeFrame, Zenon
  <2>8. conns'[x][c] = Opened
    BY <1>1, <1>3, <2>3, <2>4, ZenonT(30) DEF TypeOK
  <2>9. Steady(t, th'[t], Opened, View)
    BY <1>1, <1>2, <2>6, <2>7, SteadyUses, ZenonT(30) DEF Using, SameCall
  <2>10. MapOK'
    <3>1. Grows(View, View')
      BY <1>2, SameView, Zenon
    <3>2. QED
      BY <1>1, <1>2, <2>7, <3>1, MapStays, Zenon
  <2>11. May(t, x, c)
    BY <1>3, <2>5, ZenonT(30) DEF May
  <2>12. Steady(t, th'[t], conns'[th'[t].at][th'[t].nc], View)
    BY <2>7, <2>8, <2>9, ZenonT(30)
  <2> HIDE DEF x
  <2>13. QED
    BY <1>1, <1>2, <1>3, <1>4, <2>3, <2>4, <2>6, <2>7, <2>10, <2>11, <2>12, EntryCalm, ZenonT(30)
<1>6. CASE Meet("hindered", there)
  BY <1>4, <1>6, Zenon DEF Meet, Calm
<1>7. QED
  BY <1>5, <1>6, Zenon DEF node_conn_open

\* What a node answers: the owner of the slot as it is then.
LEMMA AnswerLatest ==
    ASSUME CalmState, NEW t \in Threads, th[t].pc = "send", NEW reply,
           NEW s, s = Answer(t, host[th[t].at], reply)
    PROVE  /\ th[t].r => s[1].says = "slots" /\ Latest(s[1].name, 0, View)
           /\ ~th[t].r /\ th[t].op = "cmd" /\ s[1].says = "moved" =>
                 Latest(s[1].name, th[t].attempt + 1, View)
<1>1. RestOK /\ moves \in Nat /\ Steady(t, th[t], Conn(t), View) /\ th[t] \in Frames
  BY CalmFacts, Zenon
<1>2. CASE th[t].r
  <2>1. s = <<Msg(t, "slots", owner)>>
    BY <1>2, Zenon DEF Answer
  <2>2. s[1].says = "slots" /\ s[1].name = owner
    BY <2>1, SMTT(30) DEF Msg
  <2>3. Latest(owner, 0, View)
    BY <1>1, ViewIs, SMTT(30) DEF Latest, RestOK
  <2>4. QED
    BY <1>2, <2>2, <2>3, ZenonT(30)
<1>3. CASE ~th[t].r /\ th[t].op = "cmd" /\ s[1].says = "moved"
  <2>1. \/ owner # host[th[t].at] /\ s = <<Msg(t, "moved", owner)>>
        \/ s = Lines(t, reply)
    BY <1>3, Zenon DEF Answer
  <2>2. s # Lines(t, reply)
    <3>1. \E v \in {"data", "header", "other"} :
             \/ Lines(t, reply) = <<Msg(t, v, None)>>
             \/ Lines(t, reply) = <<Msg(t, v, None), Msg(t, "element", None)>>
      BY Zenon DEF Lines
    <3>2. Lines(t, reply)[1].says # "moved"
      BY <3>1, SMTT(30) DEF Msg
    <3>3. QED
      BY <1>3, <3>2, Zenon
  <2>3. s[1].name = owner /\ owner # host[th[t].at]
    BY <2>1, <2>2, SMTT(30) DEF Msg
  <2>4. Latest(host[th[t].ni], th[t].attempt, View) /\ th[t].at = th[t].ni
    BY <1>1, <1>3, ViewIs, ZenonT(30) DEF Steady, Calling, Adding
  <2>5. th[t].attempt \in Nat
    BY <1>1, ZenonT(30) DEF Frames
  <2>6. Latest(owner, th[t].attempt + 1, View)
    BY <1>1, <2>3, <2>4, <2>5, ViewIs, SMTT(30) DEF Latest, RestOK
  <2>7. QED
    BY <1>3, <2>3, <2>6, Zenon
<1>4. QED
  BY <1>2, <1>3, Zenon

\* A request is sent.
LEMMA SendCalm ==
    ASSUME CalmState, NEW t \in Threads, sock_sendall(t)
    PROVE  CalmOK'
<1> DEFINE x == th[t].at
           c == th[t].nc
           f == [th[t] EXCEPT !.pc = "read"]
<1>1. /\ ClusterInv /\ Sound /\ CalmOK /\ MapOK /\ TypeOK /\ th[t] \in Frames
      /\ Steady(t, th[t], Conn(t), View)
  BY CalmFacts, Zenon
<1>2. /\ th[t].pc = "send" /\ Holds(th[t])
      /\ UNCHANGED <<host, alive, node_count, up, owner, moves, slot_map, topology_lock>>
  BY Zenon DEF sock_sendall, Holds
<1>3. /\ x \in Index /\ c \in Pool /\ host[x] # Blank /\ May(t, x, c)
      /\ Conn(t) \in Entries /\ Conn(t).fd >= 0 /\ Conn(t).link = "up" /\ Awaited(th[t], Conn(t))
  BY <1>2, CalmHeld, Zenon
<1>4. Conn(t).unread = <<>>
  BY <1>2, <1>3, Zenon DEF Awaited
<1>5. ~(Conn(t).fd < 0)
  BY <1>3 DEF Entries
<1>6. PICK reply : /\ th' = Goto(t, "read")
                   /\ conns' = [conns EXCEPT ![x][c].unread = @ \o Answer(t, host[x], reply)]
  <2>1. Conn(t).link # "rst" /\ Conn(t).link # "fin"
    BY <1>3, Zenon
  <2>2. QED
    BY <1>5, <2>1, Zenon DEF sock_sendall
<1> DEFINE s == Answer(t, host[x], reply)
           e == [Conn(t) EXCEPT !.unread = s]
<1>7. s \in Seq(Messages)
  BY <1>1, <1>2, AnswerIs, Zenon
<1>8. /\ th[t].r => s[1].says = "slots" /\ Latest(s[1].name, 0, View)
      /\ ~th[t].r /\ th[t].op = "cmd" /\ s[1].says = "moved" =>
            Latest(s[1].name, th[t].attempt + 1, View)
  BY <1>2, AnswerLatest, Zenon
<1> HIDE DEF s
<1>9. Conn(t).unread \o s = s
  BY <1>4, <1>7
<1>10. conns' = [conns EXCEPT ![x][c] = e]
  BY <1>1, <1>3, <1>6, <1>9, Zenon DEF TypeOK, Conn, s
<1>11. e \in Entries /\ e.unread = s /\ e.fd = Conn(t).fd /\ e.link = Conn(t).link
  BY <1>3, <1>7, Zenon DEF Entries
<1>12. /\ f.pc = "read" /\ f.nc = c /\ f.at = x /\ f.r = th[t].r /\ f.op = th[t].op
       /\ f.ni = th[t].ni /\ f.attempt = th[t].attempt /\ f.res = th[t].res
  BY <1>1, GotoFields, ZenonT(30)
<1>13. Moves(th', t) /\ th'[t] = f
  BY <1>1, <1>6, GotoMoves, Zenon DEF Labels
<1> HIDE DEF e, f
<1>14. Steady(t, f, e, View)
  BY <1>1, <1>2, <1>3, <1>8, <1>11, <1>12, SteadyUses, ZenonT(30) DEF Using
<1>15. conns'[x][c] = e
  BY <1>1, <1>3, <1>10, Zenon DEF TypeOK
<1>16. MapOK'
  <2>1. Grows(View, View')
    BY <1>2, SameView, Zenon
  <2>2. th'[t].pc # "idle" /\ th'[t].pc # "slot"
    BY <1>12, <1>13, Zenon
  <2>3. QED
    BY <1>1, <1>2, <1>13, <2>1, <2>2, MapStays, ZenonT(30)
<1>17. Steady(t, th'[t], conns'[th'[t].at][th'[t].nc], View) /\ e.fd >= 0 /\ e.link = "up"
  BY <1>3, <1>11, <1>12, <1>13, <1>14, <1>15, Zenon
<1> HIDE DEF x, c
<1>18. QED
  BY <1>1, <1>2, <1>3, <1>10, <1>11, <1>13, <1>16, <1>17, EntryCalm, ZenonT(30)

\* A connection goes back to the pool.
LEMMA GiveBackCalm ==
    ASSUME CalmState, NEW t \in Threads, Holds(th[t]), Moves(th', t), MapOK', conns' = Released(t),
           UNCHANGED <<host, alive, node_count, up, owner, moves>>,
           \A e : Steady(t, th'[t], e, View)
    PROVE  CalmOK'
<1>1. ClusterInv /\ Sound /\ CalmOK
  BY CalmFacts, Zenon
<1>2. /\ th[t].at \in Index /\ th[t].nc \in Pool /\ host[th[t].at] # Blank /\ May(t, th[t].at, th[t].nc)
      /\ Conn(t).fd >= 0 /\ Conn(t).link = "up"
  BY CalmHeld, Zenon
<1>3. PICK e \in Entries :
         /\ Released(t) = [conns EXCEPT ![th[t].at][th[t].nc] = e]
         /\ e.fd = Conn(t).fd /\ e.link = Conn(t).link
  BY <1>1, ReleasedIs, Zenon
<1>4. conns' = [conns EXCEPT ![th[t].at][th[t].nc] = e] /\ e.fd >= 0 /\ e.link = "up"
  BY <1>2, <1>3, Zenon
<1>5. Steady(t, th'[t], conns'[th'[t].at][th'[t].nc], View)
  BY Zenon
<1>6. QED
  BY <1>1, <1>2, <1>4, <1>5, EntryCalm, ZenonT(30)

\* vc_cluster_cmd reads its reply, or that the slot has moved.
LEMMA ReplyCalm ==
    ASSUME CalmState, Calm', NEW t \in Threads, read_reply(t)
    PROVE  CalmOK'
<1> DEFINE msg == Head(Conn(t).unread)
           rest == Tail(Conn(t).unread)
<1>1. /\ ClusterInv /\ Sound /\ MapOK /\ TypeOK /\ th[t] \in Frames /\ Steady(t, th[t], Conn(t), View)
  BY CalmFacts, Zenon
<1>2. /\ th[t].pc = "read" /\ ~th[t].r /\ th[t].op = "cmd" /\ conns' = Released(t) /\ Holds(th[t])
      /\ UNCHANGED <<host, node_count, up, owner, moves, slot_map, topology_lock>>
  BY Zenon DEF read_reply, Holds
<1>3. Conn(t) \in Entries /\ Awaited(th[t], Conn(t)) /\ ~Failing(t)
  BY <1>2, CalmHeld, Zenon
<1>4. /\ Readable(t) /\ msg.says # "other" /\ UNCHANGED alive
      /\ th' = IF msg.says = "moved" THEN [Enter(t, "find", FALSE) EXCEPT ![t].name = msg.name]
               ELSE Return(t, msg)
  <2>1. ~Meet(IF rest = <<>> THEN "hindered" ELSE "skewed", TRUE)
    BY Zenon DEF Meet, Calm, Sound
  <2> HIDE DEF rest, msg
  <2>2. QED
    BY <1>3, <2>1, Zenon DEF read_reply, rest, msg
<1>5. Conn(t).unread # <<>> /\ msg \in Messages
  BY <1>1, <1>2, <1>4, UnreadTypes, ZenonT(30) DEF Readable
<1>6. msg = Conn(t).unread[1]
  <2>1. Conn(t).unread \in Seq(Messages)
    BY <1>3, Zenon DEF Entries
  <2>2. QED
    BY <1>5, <2>1
<1>7. Given(th[t], msg)
  BY <1>2, <1>3, <1>5, <1>6, Zenon DEF Awaited
<1>8. t \in Callers /\ Calling(th[t], Conn(t), View) /\ t # Main
  BY <1>1, <1>2, ClusterAssumption, Zenon DEF Steady
<1> HIDE DEF msg
<1>9. ASSUME Moves(th', t), th'[t].pc # "slot", \A e : Steady(t, th'[t], e, View) PROVE CalmOK'
  <2>1. Grows(View, View')
    BY <1>2, SameView, Zenon
  <2>2. MapOK'
    BY <1>1, <1>2, <1>8, <1>9, <2>1, MapStays, Zenon
  <2>3. QED
    BY <1>2, <1>4, <1>9, <2>2, GiveBackCalm, ZenonT(30)
<1>10. CASE msg.says = "moved"
  <2>1. msg.name \in Names
    BY <1>5, Zenon DEF Messages
  <2>2. th' = [Enter(t, "find", FALSE) EXCEPT ![t].name = msg.name]
    BY <1>4, <1>10, Zenon
  <2>3. Leaves(th', t) /\ Redirects(th[t], th'[t], msg.name)
    BY <1>1, <1>2, <2>1, <2>2, FindLeaves, Zenon
  <2>4. Latest(msg.name, th[t].attempt + 1, View)
    BY <1>2, <1>5, <1>6, <1>8, <1>10, ZenonT(30) DEF Calling
  <2>5. ASSUME NEW e PROVE Steady(t, th'[t], e, View)
    <3>1. ~Holds(th'[t]) /\ Adding(th'[t])
      BY <2>3, Zenon DEF Holds, Adding, Redirects
    <3>2. Calling(th'[t], e, View)
      BY <2>3, <2>4, <3>1, Zenon DEF Calling, Redirects
    <3>3. th[t].res.says # "nonode" /\ (View.moves < VC_CLUSTER_MAX_RETRIES => th[t].res.says # "net")
      BY <1>1, Zenon DEF Steady
    <3>4. QED
      BY <1>8, <2>3, <3>1, <3>2, <3>3, ZenonT(30) DEF Steady, Redirects
  <2>6. QED
    BY <1>9, <2>3, <2>5, Zenon DEF Leaves, Redirects
<1>11. CASE msg.says # "moved"
  <2>1. th' = Return(t, msg)
    BY <1>4, <1>11, ZenonT(30)
  <2>2. Leaves(th', t) /\ th'[t].res = msg /\ th'[t].pc = "idle" /\ ~th'[t].r /\ th'[t].op = None
    BY <1>1, <1>5, <2>1, ReturnLeaves, Zenon
  <2>3. Mine(th[t], msg)
    BY <1>4, <1>7, <1>11, Zenon DEF Given
  <2>4. msg.says \notin {"nonode", "net"}
    BY <2>3, Zenon DEF Mine
  <2>5. None # "cmd" /\ None # "ping"
    BY Zenon DEF None
  <2>6. ASSUME NEW e PROVE Steady(t, th'[t], e, View)
    BY <2>2, <2>4, <2>5, SteadyIdle, Zenon
  <2>7. QED
    BY <1>9, <2>2, <2>6, Zenon DEF Leaves
<1>12. QED
  BY <1>10, <1>11, Zenon

\* health_thread gives its connection back; the node was alive already.
LEMMA PongCalm ==
    ASSUME CalmState, NEW t \in Threads, read_pong(t)
    PROVE  CalmOK'
<1>1. /\ ClusterInv /\ Sound /\ MapOK /\ NodesOK /\ RestOK /\ TypeOK /\ Steady(t, th[t], Conn(t), View)
  BY CalmFacts, Zenon
<1>2. /\ th[t].pc = "read" /\ ~th[t].r /\ th[t].op = "ping" /\ conns' = Released(t) /\ Holds(th[t])
      /\ th' = NextPing(t) /\ alive' = [alive EXCEPT ![th[t].at] = TRUE]
      /\ UNCHANGED <<host, node_count, up, owner, moves, slot_map, topology_lock>>
  BY ZenonT(30) DEF read_pong, Holds
<1>3. t = Health /\ t # Main
  BY <1>1, <1>2, Zenon DEF Steady, Health, Main
<1>4. th[t].at \in Index /\ host[th[t].at] # Blank
  BY <1>2, CalmHeld, Zenon
<1>5. UNCHANGED alive
  <2>1. alive[th[t].at] = TRUE
    BY <1>1, <1>4, Zenon DEF NodesOK, NodeOK, RestOK
  <2>2. QED
    BY <1>1, <1>2, <2>1, Zenon DEF RestOK
<1>6. /\ Leaves(th', t) /\ th'[t].res = th[t].res /\ th'[t].pc = "idle" /\ ~th'[t].r /\ th'[t].op = th[t].op
  BY <1>1, <1>2, NextPingLeaves, ZenonT(30)
<1>7. ASSUME NEW e PROVE Steady(t, th'[t], e, View)
  <2>1. ~Holds(th'[t]) /\ ~Adding(th'[t]) /\ th'[t].op # "cmd"
    BY <1>2, <1>6, Zenon DEF Holds, Adding
  <2>2. th[t].res.says # "nonode" /\ (View.moves < VC_CLUSTER_MAX_RETRIES => th[t].res.says # "net")
    BY <1>1, Zenon DEF Steady
  <2>3. QED
    BY <1>3, <1>6, <2>1, <2>2, ZenonT(30) DEF Steady
<1>8. MapOK'
  <2>1. Grows(View, View')
    BY <1>2, SameView, Zenon
  <2>2. QED
    BY <1>1, <1>2, <1>3, <1>6, <2>1, MapStays, ZenonT(30) DEF Leaves
<1>9. QED
  BY <1>2, <1>5, <1>6, <1>7, <1>8, GiveBackCalm, Zenon DEF Leaves

\* vc_cluster_refresh reads the header of the map.
LEMMA HeaderCalm ==
    ASSUME CalmState, NEW t \in Threads, read_header(t)
    PROVE  CalmOK'
<1> DEFINE f == [th[t] EXCEPT !.pc = "lock"]
<1>1. /\ ClusterInv /\ Sound /\ CalmOK /\ MapOK /\ TypeOK /\ th[t] \in Frames /\ FrameOK(th[t])
      /\ Steady(t, th[t], Conn(t), View)
  BY CalmFacts, Zenon
<1>2. /\ th[t].pc = "read" /\ th[t].r /\ Holds(th[t])
      /\ UNCHANGED <<host, alive, node_count, up, owner, moves, slot_map, topology_lock>>
  BY Zenon DEF read_header, Holds
<1>3. ~Failing(t) /\ Conn(t) \in Entries
  BY <1>2, CalmHeld, Zenon
<1>4. Refreshing(th[t], Conn(t), View)
  BY <1>1, <1>2, Zenon DEF Steady
<1>5. Readable(t) => Head(Conn(t).unread).says = "slots"
  <2>1. Readable(t) => Conn(t).unread # <<>> /\ Conn(t).unread[1].says = "slots"
    BY <1>2, <1>4, Zenon DEF Refreshing, Readable
  <2>2. Conn(t).unread \in Seq(Messages)
    BY <1>3, Zenon DEF Entries
  <2>3. Conn(t).unread # <<>> => Head(Conn(t).unread) = Conn(t).unread[1]
    BY <2>2
  <2>4. QED
    BY <2>1, <2>3, Zenon
<1>6. th' = Goto(t, "lock") /\ UNCHANGED conns
  BY <1>3, <1>5, Zenon DEF read_header
<1>7. Moves(th', t) /\ th'[t] = f
  BY <1>1, <1>6, GotoMoves, Zenon DEF Labels
<1>8. /\ f.pc = "lock" /\ f.nc = th[t].nc /\ f.at = th[t].at /\ f.r = th[t].r /\ f.op = th[t].op
      /\ f.ni = th[t].ni /\ f.attempt = th[t].attempt /\ f.res = th[t].res
  BY <1>1, GotoFields, ZenonT(30)
<1> HIDE DEF f
<1>9. Steady(t, f, Conn(t), View)
  <2>1. Conn(t).fd >= 0
    BY <1>1, <1>2, Zenon DEF Steady
  <2>2. QED
    BY <1>1, <1>2, <1>4, <1>8, <2>1, SteadyUses, ZenonT(30) DEF Using, Refreshing
<1>10. MapOK'
  <2>1. Grows(View, View')
    BY <1>2, SameView, Zenon
  <2>2. th'[t].pc # "idle" /\ th'[t].pc # "slot"
    BY <1>7, <1>8, Zenon
  <2>3. QED
    BY <1>1, <1>2, <1>7, <2>1, <2>2, MapStays, Zenon
<1>11. Steady(t, th'[t], conns[th'[t].at][th'[t].nc], View)
  BY <1>7, <1>8, <1>9, Zenon DEF Conn
<1>12. QED
  BY <1>1, <1>2, <1>6, <1>7, <1>10, <1>11, GoCalm, Zenon

\* The loop of vc_cluster_refresh begins with a node that is alive.
LEMMA RefreshCalm ==
    ASSUME CalmState, NEW t \in Threads, vc_cluster_refresh(t)
    PROVE  CalmOK'
<1> DEFINE ahead == {y \in Known : y > th[t].at /\ alive[y]}
<1>1. /\ ClusterInv /\ Sound /\ CalmOK /\ NodesOK /\ MapOK /\ RestOK /\ TypeOK
      /\ th \in [Threads -> Frames] /\ th[t] \in Frames /\ FrameOK(th[t])
      /\ Steady(t, th[t], Conn(t), View)
  BY CalmFacts, Zenon
<1>2. /\ th[t].pc = "next"
      /\ UNCHANGED <<host, alive, node_count, up, owner, moves, conns, topology_lock>>
  BY Zenon DEF vc_cluster_refresh
<1>3. th[t].r
  BY <1>1, <1>2, Zenon DEF FrameOK
<1>4. Refreshing(th[t], Conn(t), View) /\ th[t].at = 0
  BY <1>1, <1>2, <1>3, Zenon DEF Steady, Refreshing
<1>5. 1 \in ahead
  <2>1. 1 \in Index
    BY ClusterAssumption DEF Index
  <2>2. 1 \in Known /\ alive[1]
    BY <1>1, <2>1, Zenon DEF NodesOK, NodeOK
  <2>3. QED
    BY <1>4, <2>2
<1>6. PICK x \in First(ahead) : th' = [Goto(t, "get") EXCEPT ![t].at = x] /\ UNCHANGED slot_map
  BY <1>5, Zenon DEF vc_cluster_refresh
<1>7. x \in Nat
  <2>1. x \in Known
    BY FirstIsIn, Zenon
  <2>2. QED
    BY <1>1, <2>1, KnownIndex, Zenon
<1>8. th' = [Goto(t, "get") EXCEPT ![t].at = x] /\ UNCHANGED slot_map
  BY <1>6, Zenon
<1> DEFINE f == [th[t] EXCEPT !.pc = "get", !.at = x]
<1>9. th' = [th EXCEPT ![t] = f]
  BY <1>1, <1>8, Zenon DEF Goto, Frames
<1>10. f \in Frames
  BY <1>1, <1>7, Zenon DEF Frames, Labels
<1>11. /\ f.pc = "get" /\ f.r = th[t].r /\ f.op = th[t].op /\ f.ni = th[t].ni
       /\ f.attempt = th[t].attempt /\ f.res = th[t].res
  BY <1>1, Zenon DEF Frames
<1> HIDE DEF f
<1>12. Moves(th', t) /\ th'[t] = f
  BY <1>1, <1>9, <1>10, FrameMoves, Zenon
<1>13. ASSUME NEW e PROVE Steady(t, f, e, View)
  <2>1. ~Holds(f) /\ ~Adding(f) /\ ~Adding(th[t]) /\ f.pc \notin {"open", "init", "next", "found", "close", "drop"}
    BY <1>2, <1>11, Zenon DEF Holds, Adding
  <2>2. Refreshing(f, e, View)
    BY <1>4, <1>11, <2>1, Zenon DEF Refreshing
  <2>3. th[t].op = "cmd" => Calling(f, e, View)
    BY <1>1, <1>3, <1>11, Zenon DEF Steady, Calling
  <2>4. QED
    BY <1>1, <1>3, <1>11, <2>1, <2>2, <2>3, ZenonT(30) DEF Steady
<1>14. MapOK'
  <2>1. Grows(View, View')
    BY <1>2, SameView, Zenon
  <2>2. th'[t].pc # "idle" /\ th'[t].pc # "slot"
    BY <1>11, <1>12, Zenon
  <2>3. QED
    BY <1>1, <1>2, <1>8, <1>12, <2>1, <2>2, MapStays, ZenonT(30)
<1>15. Steady(t, th'[t], conns[th'[t].at][th'[t].nc], View)
  BY <1>12, <1>13, Zenon
<1>16. QED
  BY <1>1, <1>2, <1>12, <1>14, <1>15, GoCalm, Zenon

\* It clears the map under the lock.
LEMMA LockCalm ==
    ASSUME CalmState, NEW t \in Threads, refresh_lock(t)
    PROVE  CalmOK'
<1> DEFINE f == [th[t] EXCEPT !.pc = "range"]
<1>1. /\ ClusterInv /\ Sound /\ CalmOK /\ TypeOK /\ th[t] \in Frames /\ FrameOK(th[t])
      /\ Steady(t, th[t], Conn(t), View)
  BY CalmFacts, Zenon
<1>2. /\ th[t].pc = "lock" /\ Holds(th[t]) /\ th' = Goto(t, "range") /\ topology_lock' = t
      /\ UNCHANGED <<host, alive, node_count, up, owner, moves, conns>>
  BY Zenon DEF refresh_lock, Holds
<1>3. th[t].r
  BY <1>1, <1>2, Zenon DEF FrameOK
<1>4. Moves(th', t) /\ th'[t] = f
  BY <1>1, <1>2, GotoMoves, Zenon DEF Labels
<1>5. /\ f.pc = "range" /\ f.nc = th[t].nc /\ f.at = th[t].at /\ f.r = th[t].r /\ f.op = th[t].op
      /\ f.ni = th[t].ni /\ f.attempt = th[t].attempt /\ f.res = th[t].res
  BY <1>1, GotoFields, ZenonT(30)
<1> HIDE DEF f
<1>6. Steady(t, f, Conn(t), View)
  <2>1. Conn(t).fd >= 0 /\ Refreshing(th[t], Conn(t), View)
    BY <1>1, <1>2, <1>3, Zenon DEF Steady
  <2>2. QED
    BY <1>1, <1>2, <1>3, <1>5, <2>1, SteadyUses, ZenonT(30) DEF Using, Refreshing
<1>7. MapOK'
  <2>1. t # None
    BY ClusterAssumption, Zenon DEF Threads, Main, Health, None
  <2>2. QED
    BY <1>2, <2>1, Zenon DEF MapOK
<1>8. Steady(t, th'[t], conns[th'[t].at][th'[t].nc], View)
  BY <1>4, <1>5, <1>6, Zenon DEF Conn
<1>9. QED
  BY <1>1, <1>2, <1>4, <1>7, <1>8, GoCalm, Zenon

\* vc_cluster_refresh reads the range: the connection is up.
LEMMA RangeCalm ==
    ASSUME CalmState, NEW t \in Threads, refresh_range(t)
    PROVE  CalmOK'
<1> DEFINE msg == Head(Conn(t).unread)
           f == [th[t] EXCEPT !.pc = "find", !.name = msg.name]
<1>1. /\ ClusterInv /\ Sound /\ CalmOK /\ MapOK /\ TypeOK
      /\ th \in [Threads -> Frames] /\ th[t] \in Frames /\ FrameOK(th[t])
      /\ Steady(t, th[t], Conn(t), View) /\ format = "nested"
  BY CalmFacts, Zenon DEF CalmState, Calm
<1>2. /\ th[t].pc = "range" /\ Holds(th[t])
      /\ UNCHANGED <<host, alive, node_count, up, owner, moves, slot_map>>
  BY Zenon DEF refresh_range, Holds
<1>3. ~Failing(t) /\ Conn(t) \in Entries /\ th[t].r
  BY <1>1, <1>2, CalmHeld, Zenon DEF FrameOK
<1>4. /\ Readable(t) /\ th' = [Goto(t, "find") EXCEPT ![t].name = msg.name]
      /\ UNCHANGED <<conns, topology_lock>>
  <2>1. format # "flat"
    BY <1>1, Zenon
  <2>2. QED
    BY <1>3, <2>1, Zenon DEF refresh_range
<1>5. msg \in Messages /\ Conn(t).unread # <<>>
  BY <1>1, <1>2, <1>4, UnreadTypes, ZenonT(30) DEF Readable
<1>6. msg = Conn(t).unread[1]
  <2>1. Conn(t).unread \in Seq(Messages)
    BY <1>3, Zenon DEF Entries
  <2>2. QED
    BY <1>5, <2>1
<1> HIDE DEF msg
<1>7. msg.name \in Names
  BY <1>5, Zenon DEF Messages
<1>8. Refreshing(th[t], Conn(t), View) /\ Latest(msg.name, 0, View)
  BY <1>1, <1>2, <1>3, <1>5, <1>6, Zenon DEF Steady, Refreshing
<1>9. th' = [th EXCEPT ![t] = f]
  BY <1>1, <1>4, Zenon DEF Goto, Frames
<1>10. f \in Frames
  BY <1>1, <1>7, Zenon DEF Frames, Labels
<1>11. /\ f.pc = "find" /\ f.name = msg.name /\ f.r = th[t].r /\ f.op = th[t].op /\ f.ni = th[t].ni
       /\ f.attempt = th[t].attempt /\ f.res = th[t].res /\ f.at = th[t].at /\ f.nc = th[t].nc
  BY <1>1, ZenonT(30) DEF Frames
<1> HIDE DEF f
<1>12. Moves(th', t) /\ th'[t] = f
  BY <1>1, <1>9, <1>10, FrameMoves, Zenon
<1>13. Steady(t, f, Conn(t), View)
  <2>1. Adding(f) /\ f.pc \notin {"open", "init", "next", "found", "close", "drop"} /\ f.op # "ping"
    BY <1>8, <1>11, Zenon DEF Adding, Refreshing
  <2>2. Refreshing(f, Conn(t), View)
    BY <1>2, <1>8, <1>11, <2>1, Zenon DEF Refreshing
  <2>3. th[t].op = "cmd" => Calling(f, Conn(t), View)
    BY <1>1, <1>3, <1>11, Zenon DEF Steady, Calling
  <2>4. QED
    BY <1>1, <1>2, <1>3, <1>11, <2>1, <2>2, <2>3, ZenonT(30) DEF Steady
<1>14. MapOK'
  <2>1. Grows(View, View')
    BY <1>2, SameView, Zenon
  <2>2. th'[t].pc # "idle" /\ th'[t].pc # "slot"
    BY <1>11, <1>12, Zenon
  <2>3. QED
    BY <1>1, <1>2, <1>4, <1>12, <2>1, <2>2, MapStays, ZenonT(30)
<1>15. Steady(t, th'[t], conns[th'[t].at][th'[t].nc], View)
  BY <1>11, <1>12, <1>13, Zenon DEF Conn
<1>16. QED
  BY <1>1, <1>2, <1>4, <1>12, <1>14, <1>15, GoCalm, ZenonT(30)

\* The slot is mapped to a node that owned it, and the refresh returns.
LEMMA SetCalm ==
    ASSUME CalmState, NEW t \in Threads, refresh_set(t)
    PROVE  CalmOK'
<1>1. /\ ClusterInv /\ Sound /\ TypeOK /\ th[t] \in Frames /\ FrameOK(th[t])
      /\ Steady(t, th[t], Conn(t), View) /\ ~Misread(t, Elsewhere)
  BY CalmFacts, Zenon DEF CalmState, Calm, Misread
<1>2. /\ th[t].pc = "found" /\ Holds(th[t]) /\ conns' = Released(t) /\ th' = Refreshed(t)
      /\ slot_map' = IF th[t].idx > 0 THEN th[t].idx ELSE slot_map
      /\ UNCHANGED <<host, alive, node_count, up, owner, moves>>
  BY <1>1, Zenon DEF refresh_set, Holds
<1>3. th[t].r
  BY <1>1, <1>2, Zenon DEF FrameOK
<1>4. Refreshing(th[t], Conn(t), View) /\ Old(th[t].idx, View) /\ Latest(host[th[t].idx], 0, View)
  BY <1>1, <1>2, <1>3, ViewIs, Zenon DEF Steady, Refreshing
<1>5. slot_map' = th[t].idx
  <2>1. th[t].idx > 0
    BY <1>4, SMTT(30) DEF Old, Index
  <2>2. QED
    BY <1>2, <2>1, ZenonT(30)
<1>6. View' = View
  BY <1>2, SameView, Zenon
<1>7. MapOK'
  BY <1>2, <1>4, <1>5, <1>6, Zenon DEF MapOK
<1>8. th[t].op # "ping"
  BY <1>4, Zenon DEF Refreshing
<1>9. th[t].res.says # "nonode" /\ (View.moves < VC_CLUSTER_MAX_RETRIES => th[t].res.says # "net")
  BY <1>1, Zenon DEF Steady
<1>10. CASE th[t].op = "cmd"
  <2>1. th' = Retry(t)
    BY <1>2, <1>10, ZenonT(30) DEF Refreshed
  <2>2. /\ Leaves(th', t) /\ th'[t].res = th[t].res /\ th'[t].pc = "pick" /\ ~th'[t].r /\ th'[t].op = "cmd"
        /\ th'[t].ni = th[t].ni /\ th'[t].attempt = th[t].attempt + 1
    BY <1>1, <1>10, <2>1, RetryLeaves, ZenonT(30)
  <2>3. t \in Callers /\ Old(th[t].ni, View) /\ Latest(View.host[th[t].ni], th[t].attempt + 1, View)
    BY <1>1, <1>3, <1>10, ZenonT(30) DEF Steady, Calling
  <2>4. ASSUME NEW e PROVE Steady(t, th'[t], e, View)
    <3>1. ~Holds(th'[t]) /\ ~Adding(th'[t])
      BY <2>2, Zenon DEF Holds, Adding
    <3>2. Calling(th'[t], e, View)
      BY <2>2, <2>3, <3>1, Zenon DEF Calling
    <3>3. QED
      BY <1>9, <2>2, <2>3, <3>1, <3>2, ZenonT(30) DEF Steady
  <2>5. QED
    BY <1>2, <1>7, <2>2, <2>4, GiveBackCalm, Zenon DEF Leaves
<1>11. CASE th[t].op # "cmd"
  <2>1. th' = Return(t, NoResult)
    BY <1>2, <1>8, <1>11, Zenon DEF Refreshed
  <2>2. NoResult \in Messages /\ NoResult.says = None
    BY ResultTypes, ZenonT(30) DEF NoResult
  <2>3. Leaves(th', t) /\ th'[t].res = NoResult /\ th'[t].pc = "idle" /\ ~th'[t].r /\ th'[t].op = None
    BY <1>1, <2>1, <2>2, ReturnLeaves, Zenon
  <2>4. None # "cmd" /\ None # "ping" /\ None \notin {"nonode", "net"}
    BY Zenon DEF None
  <2>5. ASSUME NEW e PROVE Steady(t, th'[t], e, View)
    BY <2>2, <2>3, <2>4, SteadyIdle, Zenon
  <2>6. QED
    BY <1>2, <1>7, <2>3, <2>5, GiveBackCalm, Zenon DEF Leaves
<1>12. QED
  BY <1>10, <1>11, Zenon

\* No reply is flat.
LEMMA SecondCalm ==
    ASSUME CalmState, NEW t \in Threads, refresh_second(t)
    PROVE  FALSE
  BY Zenon DEF CalmState, Calm, refresh_second, Misread

\* node_find_or_add is called for the name of a node.
LEMMA AddingName ==
    ASSUME CalmState, NEW t \in Threads, Adding(th[t])
    PROVE  th[t].name \in Nodes /\ th[t].name # Blank
<1>1. FrameOK(th[t]) /\ Steady(t, th[t], Conn(t), View)
  BY CalmFacts, Zenon
<1>2. th[t].name \in Nodes
  <2>1. CASE th[t].r
    BY <1>1, <2>1, Zenon DEF Steady, Refreshing, Latest
  <2>2. CASE ~th[t].r
    <3>1. th[t].op = "cmd"
      BY <1>1, <2>2, ZenonT(30) DEF Steady, FrameOK, Adding
    <3>2. QED
      BY <1>1, <2>2, <3>1, ZenonT(30) DEF Steady, Calling, Latest
  <2>3. QED
    BY <2>1, <2>2, Zenon
<1>3. QED
  BY <1>2, ClusterAssumption, Zenon

\* node_find_or_add finds a node, or place for a new one.
LEMMA SearchCalm ==
    ASSUME CalmState, Calm', NEW t \in Threads, node_find_or_add(t)
    PROVE  CalmOK'
<1> DEFINE same == {y \in Known : host[y] = th[t].name}
<1>1. /\ ClusterInv /\ Sound /\ CalmOK /\ MapOK /\ RestOK
      /\ th \in [Threads -> Frames] /\ th[t] \in Frames /\ FrameOK(th[t])
      /\ Steady(t, th[t], Conn(t), View)
  BY CalmFacts, Zenon
<1>2. /\ th[t].pc = "find"
      /\ UNCHANGED <<conns, host, owner, node_count, alive, slot_map, topology_lock, up, moves>>
      /\ \/ \E x \in First(same) : th' = Found(t, x)
         \/ /\ same = {}
            /\ th' = IF node_count >= VC_CLUSTER_MAX_NODES THEN Found(t, 0)
                     ELSE [Goto(t, "count") EXCEPT ![t].idx = node_count + 1]
      /\ Meet("hindered", same = {} /\ node_count >= VC_CLUSTER_MAX_NODES)
  BY Zenon DEF node_find_or_add, world, table, locks
<1>3. Grows(View, View') /\ Adding(th[t])
  BY <1>2, SameView, Zenon DEF Adding
<1>4. ASSUME Moves(th', t), th'[t].pc \notin {"idle", "slot"}, Steady(t, th'[t], conns[th'[t].at][th'[t].nc], View)
      PROVE  CalmOK'
  <2>1. MapOK'
    BY <1>1, <1>2, <1>3, <1>4, MapStays, ZenonT(30)
  <2>2. QED
    BY <1>1, <1>2, <1>4, <2>1, GoCalm, Zenon
<1>5. ASSUME NEW x \in First(same), th' = Found(t, x) PROVE CalmOK'
  <2>1. Known \subseteq Index /\ Index \subseteq Nat
    BY <1>1, KnownIndex, Zenon
  <2>2. x \in same
    BY <1>5, FirstIsIn, Zenon
  <2>3. th' = Found(t, x)
    BY <1>5, Zenon
  <2>4. x \in Nat /\ x \in Index /\ host[x] = th[t].name
    BY <2>1, <2>2, Zenon
  <2>5. PICK f \in Frames : Found(t, x) = [th EXCEPT ![t] = f] /\ Follows(th[t], f) /\ Finds(th[t], f, x)
    BY <1>1, <1>2, <2>4, FoundFrame, Zenon
  <2>6. Moves(th', t) /\ th'[t] = f
    BY <1>1, <2>3, <2>5, FrameMoves, Zenon
  <2>7. Old(x, View) /\ View.host[x] = th[t].name
    BY <1>3, <2>4, AddingName, ViewIs, Zenon DEF Old
  <2>8. f.res = th[t].res
    BY <2>5, Zenon DEF Follows, SameCall
  <2>9. Steady(t, f, Conn(t), View)
    BY <1>1, <1>2, <2>5, <2>7, <2>8, SteadyFound, ZenonT(30)
  <2>10. f.pc \in {"found", "next"} /\ (f.r /\ Holds(f) => th[t].r /\ f.at = th[t].at /\ f.nc = th[t].nc)
    BY <2>5, Zenon DEF Finds, Holds
  <2>11. Steady(t, f, conns[f.at][f.nc], View)
    <3>1. Holds(f) => f.r
      BY <2>5, Zenon DEF Finds
    <3>2. Holds(f) => conns[f.at][f.nc] = Conn(t)
      BY <2>10, <3>1, Zenon DEF Conn
    <3>3. Grows(View, View)
      BY Zenon DEF Grows
    <3>4. QED
      BY <2>9, <3>2, <3>3, SteadyCarries, Zenon
  <2>12. QED
    BY <1>4, <2>6, <2>10, <2>11, ZenonT(30)
<1>6. CASE same = {} /\ node_count >= VC_CLUSTER_MAX_NODES
  <2>1. "hindered" \in met'
    BY <1>2, <1>6, Zenon DEF Meet
  <2>2. QED
    BY <2>1, Zenon DEF Calm
<1>7. CASE th' = [Goto(t, "count") EXCEPT ![t].idx = node_count + 1]
  <2> DEFINE x == node_count + 1
             f == [th[t] EXCEPT !.pc = "count", !.idx = x]
  <2>1. x \in Nat
    BY <1>1 DEF RestOK
  <2>2. th' = [Goto(t, "count") EXCEPT ![t].idx = x]
    BY <1>7, Zenon
  <2> HIDE DEF x
  <2>3. th' = [th EXCEPT ![t] = f]
    BY <1>1, <2>2, Zenon DEF Goto, Frames
  <2>4. f \in Frames
    BY <1>1, <2>1, Zenon DEF Frames, Labels
  <2>5. /\ f.pc = "count" /\ f.name = th[t].name /\ f.r = th[t].r /\ f.op = th[t].op /\ f.ni = th[t].ni
        /\ f.attempt = th[t].attempt /\ f.res = th[t].res /\ f.at = th[t].at /\ f.nc = th[t].nc
    BY <1>1, ZenonT(30) DEF Frames
  <2> HIDE DEF f
  <2>6. Moves(th', t) /\ th'[t] = f
    BY <1>1, <2>3, <2>4, FrameMoves, Zenon
  <2>7. Steady(t, f, Conn(t), View)
    <3>1. Adding(f) /\ f.pc \notin {"open", "init", "next", "found", "close", "drop", "read"}
      BY <2>5, Zenon DEF Adding
    <3>2. Holds(f) => Holds(th[t])
      BY <1>2, <2>5, Zenon DEF Holds
    <3>3. Refreshing(th[t], Conn(t), View) => Refreshing(f, Conn(t), View)
      BY <1>3, <2>5, <3>1, <3>2, Zenon DEF Refreshing
    <3>4. Calling(th[t], Conn(t), View) => Calling(f, Conn(t), View)
      BY <1>3, <2>5, <3>1, Zenon DEF Calling
    <3>5. QED
      BY <1>1, <1>3, <2>5, <3>1, <3>2, <3>3, <3>4, ZenonT(30) DEF Steady
  <2>8. Steady(t, f, conns[f.at][f.nc], View)
    BY <2>5, <2>7, Zenon DEF Conn
  <2>9. f.pc \notin {"idle", "slot"}
    BY <2>5, Zenon
  <2>10. QED
    BY <1>4, <2>6, <2>8, <2>9, Zenon
<1>8. QED
  BY <1>2, <1>5, <1>6, <1>7, Zenon

\* It stores the new count, which no other thread has changed.
LEMMA CountCalm ==
    ASSUME CalmState, Calm', NEW t \in Threads, node_count_store(t)
    PROVE  CalmOK'
<1> DEFINE f == [th[t] EXCEPT !.pc = "init"]
<1>1. /\ ClusterInv /\ Sound /\ CalmOK /\ MapOK /\ RestOK /\ NodesOK /\ TypeOK /\ moves \in Nat
      /\ th[t] \in Frames /\ FrameOK(th[t]) /\ Steady(t, th[t], Conn(t), View)
  BY CalmFacts, Zenon
<1>2. /\ th[t].pc = "count" /\ th' = Goto(t, "init") /\ node_count' = th[t].idx
      /\ UNCHANGED <<conns, host, owner, alive, slot_map, topology_lock, up, moves>>
      /\ Meet("hindered", th[t].idx # node_count + 1)
  BY Zenon DEF node_count_store, world, locks
<1>3. th[t].idx = node_count + 1
  BY <1>2, Zenon DEF Meet, Calm
<1>4. Known \subseteq Known' /\ f.idx = th[t].idx /\ th[t].idx \in 1 .. node_count'
  BY <1>1, <1>2, <1>3, GotoFields, SMTT(30) DEF Known, RestOK
<1>5. Grows(View, View')
  <2>1. View'.host = View.host /\ View'.moves = View.moves /\ View'.owner = View.owner
    BY <1>2, ViewIs, Zenon
  <2>2. 1 .. View.count \subseteq 1 .. View'.count
    BY <1>4, ViewIs, Zenon DEF Known
  <2>3. QED
    BY <2>1, <2>2, Zenon DEF Grows, Latest
<1>6. NodesOK'
  <2>1. ASSUME NEW x \in Index PROVE NodeOK(x)'
    <3>1. NodeOK(x)
      BY <1>1, Zenon DEF NodesOK
    <3>2. QED
      BY <1>2, <1>4, <3>1, Zenon DEF NodeOK
  <2>2. QED
    BY <1>1, <1>2, <2>1, Zenon DEF NodesOK
<1>7. Moves(th', t) /\ th'[t] = f
  BY <1>1, <1>2, GotoMoves, Zenon DEF Labels
<1>8. /\ f.pc = "init" /\ f.name = th[t].name /\ f.r = th[t].r /\ f.op = th[t].op /\ f.ni = th[t].ni
      /\ f.attempt = th[t].attempt /\ f.res = th[t].res /\ f.at = th[t].at /\ f.nc = th[t].nc
  BY <1>1, GotoFields, ZenonT(30)
<1> HIDE DEF f
<1>9. MapOK'
  <2>1. th'[t].pc # "idle" /\ th'[t].pc # "slot"
    BY <1>7, <1>8, Zenon
  <2>2. QED
    BY <1>1, <1>2, <1>5, <1>7, <2>1, MapStays, ZenonT(30)
<1>10. Steady(t, th[t], Conn(t), View')
  BY <1>1, <1>5, SteadyCarries, Zenon
<1>11. Steady(t, f, Conn(t), View')
  <2>1. Adding(f) /\ Adding(th[t]) /\ f.pc \notin {"open", "next", "found", "close", "drop", "read"}
    BY <1>2, <1>8, Zenon DEF Adding
  <2>2. Holds(f) => Holds(th[t])
    BY <1>2, <1>8, Zenon DEF Holds
  <2>3. Refreshing(th[t], Conn(t), View') => Refreshing(f, Conn(t), View')
    BY <1>8, <2>1, <2>2, Zenon DEF Refreshing
  <2>4. Calling(th[t], Conn(t), View') => Calling(f, Conn(t), View')
    BY <1>8, <2>1, Zenon DEF Calling
  <2>5. f.idx \in 1 .. View'.count
    BY <1>4, ViewIs, Zenon
  <2>6. QED
    BY <1>8, <1>10, <2>1, <2>2, <2>3, <2>4, <2>5, ZenonT(30) DEF Steady
<1>12. Steady(t, th'[t], conns'[th'[t].at][th'[t].nc], View')
  BY <1>2, <1>7, <1>8, <1>11, Zenon DEF Conn
<1>13. QED
  BY <1>1, <1>2, <1>5, <1>6, <1>7, <1>9, <1>12, ThreadCalm, ZenonT(30)

\* The entries of a node that is initialised are closed.
LEMMA InitCloses ==
    ASSUME TypeOK, NEW x \in Index, NEW c \in Pool,
           conns' = [conns EXCEPT ![x] = [d \in Pool |-> [@[d] EXCEPT !.fd = -1]]]
    PROVE  conns'[x][c].fd = -1
<1> DEFINE e == conns[x][c]
<1>1. conns \in [Index -> [Pool -> Entries]] /\ e \in Entries
  BY Zenon DEF TypeOK
<1>2. conns'[x][c] = [e EXCEPT !.fd = -1]
  BY <1>1, Zenon
<1> HIDE DEF e
<1>3. QED
  BY <1>1, <1>2, Zenon DEF Entries

\* It initialises the new node, which no thread uses yet.
LEMMA NodeInitCalm ==
    ASSUME CalmState, Calm', NEW t \in Threads, node_init(t)
    PROVE  CalmOK'
<1> DEFINE x == th[t].idx
<1>1. /\ ClusterInv /\ Sound /\ CalmOK /\ MapOK /\ RestOK /\ NodesOK /\ TypeOK
      /\ th[t] \in Frames /\ FrameOK(th[t]) /\ Steady(t, th[t], Conn(t), View)
  BY CalmFacts, Zenon
<1>2. /\ th[t].pc = "init" /\ th' = Found(t, x) /\ Meet("raced", host[x] # Blank)
      /\ host' = [host EXCEPT ![x] = th[t].name] /\ alive' = [alive EXCEPT ![x] = TRUE]
      /\ conns' = [conns EXCEPT ![x] = [c \in Pool |-> [@[c] EXCEPT !.fd = -1]]]
      /\ UNCHANGED <<owner, node_count, slot_map, topology_lock, up, moves>>
  BY Zenon DEF node_init, world, locks
<1>3. x \in Index /\ x \in Nat /\ x \in Known
  BY <1>1, <1>2, ViewIs, KnownIndex, Zenon DEF FrameOK, Steady, Known
<1> HIDE DEF x
<1>4. host[x] = Blank
  BY <1>2, Zenon DEF Meet, Calm, Sound
<1>5. Adding(th[t])
  BY <1>2, Zenon DEF Adding
<1>6. th[t].name \in Nodes /\ th[t].name # Blank
  BY <1>5, AddingName, Zenon
<1>7. /\ host'[x] = th[t].name /\ alive'[x]
      /\ \A y \in Index : y # x => host'[y] = host[y] /\ alive'[y] = alive[y]
  BY <1>1, <1>2, <1>3, Zenon DEF RestOK
<1>8. \A y \in Index, d \in Pool : y # x => conns'[y][d] = conns[y][d]
  BY <1>1, <1>2, <1>3, InitEntries, ZenonT(30)
<1>9. ASSUME NEW c \in Pool PROVE ~(conns'[x][c].fd >= 0)
  <2>1. conns'[x][c].fd = -1
    BY <1>1, <1>2, <1>3, InitCloses, Zenon
  <2>2. QED
    BY <2>1
<1>10. Grows(View, View')
  <2>1. \A y \in Index : View.host[y] # Blank => View'.host[y] = View.host[y]
    BY <1>4, <1>7, ViewIs, Zenon
  <2>2. View'.moves = View.moves /\ View'.owner = View.owner /\ View'.count = View.count
    BY <1>2, ViewIs, Zenon
  <2>3. QED
    BY <2>1, <2>2, Zenon DEF Grows, Latest
<1>11. NodesOK'
  <2>1. ASSUME NEW y \in Index PROVE NodeOK(y)'
    <3>1. CASE y = x
      BY <1>2, <1>3, <1>6, <1>7, <1>9, <3>1, ZenonT(30) DEF NodeOK, Known
    <3>2. CASE y # x
      <4>1. NodeOK(y) /\ host'[y] = host[y] /\ alive'[y] = alive[y] /\ Known' = Known
        BY <1>1, <1>2, <1>7, <3>2, Zenon DEF NodesOK, Known
      <4>2. \A c \in Pool : conns'[y][c] = conns[y][c]
        BY <1>8, <3>2, Zenon
      <4>3. QED
        BY <4>1, <4>2, Zenon DEF NodeOK
    <3>3. QED
      BY <3>1, <3>2, Zenon
  <2>2. 1 \in Index
    BY ClusterAssumption DEF Index
  <2>3. host'[1] # Blank
    BY <1>1, <1>6, <1>7, <2>2, Zenon DEF NodesOK
  <2>4. QED
    BY <1>1, <1>2, <2>1, <2>3, Zenon DEF NodesOK
<1>12. ASSUME NEW u \in Threads, th[u].nc # 0
       PROVE  conns'[th[u].at][th[u].nc] = conns[th[u].at][th[u].nc]
  <2>1. Exclusive /\ th[u].at \in Index /\ th[u].nc \in Pool
    BY <1>1, <1>12, InvParts, HeldEntry, Zenon DEF FramesOK
  <2>2. th[u].at # x
    BY <1>3, <1>4, <1>12, <2>1, Zenon DEF Exclusive
  <2>3. QED
    BY <1>8, <2>1, <2>2, Zenon
<1>13. PICK f \in Frames : th' = [th EXCEPT ![t] = f] /\ Follows(th[t], f) /\ Finds(th[t], f, x)
  BY <1>1, <1>2, <1>3, FoundFrame, Zenon
<1>14. Moves(th', t) /\ th'[t] = f
  BY <1>1, <1>13, FrameMoves, ZenonT(30)
<1>15. f.pc \in {"found", "next"} /\ f.res = th[t].res
  BY <1>13, Zenon DEF Finds, Follows, SameCall
<1>16. MapOK'
  <2>1. th'[t].pc # "idle" /\ th'[t].pc # "slot"
    BY <1>14, <1>15, Zenon
  <2>2. QED
    BY <1>1, <1>2, <1>10, <1>14, <2>1, MapStays, ZenonT(30)
<1>17. Steady(t, f, Conn(t), View')
  <2>1. Steady(t, th[t], Conn(t), View')
    BY <1>1, <1>10, SteadyCarries, Zenon
  <2>2. Old(x, View') /\ View'.host[x] = th[t].name
    BY <1>3, <1>6, <1>7, ViewIs, Zenon DEF Old
  <2>3. QED
    BY <1>1, <1>2, <1>13, <1>15, <2>1, <2>2, SteadyFound, ZenonT(30)
<1>18. Holds(f) => conns'[f.at][f.nc] = Conn(t)
  <2>1. SUFFICES ASSUME Holds(f) PROVE conns'[f.at][f.nc] = Conn(t)
    BY Zenon
  <2>2. th[t].r /\ f.at = th[t].at /\ f.nc = th[t].nc
    BY <1>13, <2>1, Zenon DEF Finds, Holds
  <2>3. th[t].nc # 0
    <3>1. Holds(th[t])
      BY <1>2, <2>2, Zenon DEF Holds
    <3>2. QED
      BY <1>1, <3>1, HeldFacts, Zenon
  <2>4. QED
    BY <1>12, <2>2, <2>3, Zenon DEF Conn
<1>19. Steady(t, f, conns'[f.at][f.nc], View')
  <2>1. Grows(View', View')
    BY Zenon DEF Grows
  <2>2. QED
    BY <1>17, <1>18, <2>1, SteadyCarries, Zenon
<1>20. QED
  BY <1>1, <1>10, <1>11, <1>12, <1>14, <1>16, <1>19, ThreadCalm, ZenonT(30)

\* An attempt of vc_cluster_cmd: the node is alive, and the last attempt is not
\* reached before that many moves.
LEMMA AttemptCalm ==
    ASSUME CalmState, NEW t \in Threads, cmd_attempt(t)
    PROVE  CalmOK'
<1> DEFINE x == th[t].ni
           f == [th[t] EXCEPT !.pc = "get", !.ni = x, !.at = x]
<1>1. /\ ClusterInv /\ Sound /\ CalmOK /\ MapOK /\ RestOK /\ NodesOK /\ TypeOK /\ moves \in Nat
      /\ th \in [Threads -> Frames] /\ th[t] \in Frames /\ FrameOK(th[t])
      /\ Steady(t, th[t], Conn(t), View)
  BY CalmFacts, Zenon
<1>2. th[t].pc = "pick" /\ UNCHANGED <<conns, host, owner, node_count, alive, slot_map, topology_lock, up, moves>>
  BY ZenonT(30) DEF cmd_attempt, world, table, locks
<1>3. th[t].op = "cmd" /\ ~th[t].r /\ ~Adding(th[t])
  BY <1>1, <1>2, Zenon DEF FrameOK, Adding, Holds
<1>4. t \in Callers /\ Old(x, View) /\ Latest(View.host[x], th[t].attempt, View) /\ th[t].attempt <= moves
  BY <1>1, <1>2, <1>3, ViewIs, Zenon DEF Steady, Calling, Latest
<1>5. x \in Index /\ x \in Known /\ alive[x]
  BY <1>1, <1>4, ViewIs, Zenon DEF Old, NodesOK, NodeOK
<1>6. t # Main /\ t # Health
  BY <1>4, ClusterAssumption, Zenon
<1>7. ASSUME Moves(th', t), th'[t].pc # "slot", Steady(t, th'[t], conns[th'[t].at][th'[t].nc], View) PROVE CalmOK'
  <2>1. Grows(View, View')
    BY <1>2, SameView, Zenon
  <2>2. MapOK'
    BY <1>1, <1>2, <1>6, <1>7, <2>1, MapStays, Zenon
  <2>3. QED
    BY <1>1, <1>2, <1>7, <2>2, GoCalm, ZenonT(30)
<1>8. CASE th[t].attempt >= VC_CLUSTER_MAX_RETRIES
  <2>1. th' = Return(t, Result("net"))
    BY <1>8, Zenon DEF cmd_attempt
  <2>2. Result("net") \in Messages /\ Result("net").says = "net"
    BY ResultTypes, ZenonT(30)
  <2>3. Leaves(th', t) /\ th'[t].res = Result("net") /\ th'[t].pc = "idle" /\ ~th'[t].r /\ th'[t].op = None
    BY <1>1, <2>1, <2>2, ReturnLeaves, ZenonT(30)
  <2>4. ~(View.moves < VC_CLUSTER_MAX_RETRIES)
    <3>1. th[t].attempt \in Nat
      BY <1>1, Zenon DEF Frames
    <3>2. QED
      BY <1>1, <1>4, <1>8, <3>1, ViewIs, ClusterAssumption, SMTT(30)
  <2>5. ASSUME NEW e PROVE Steady(t, th'[t], e, View)
    <3>1. ~Holds(th'[t]) /\ ~Adding(th'[t])
      BY <2>3, Zenon DEF Holds, Adding
    <3>2. QED
      BY <2>2, <2>3, <2>4, <3>1, ZenonT(30) DEF Steady, None
  <2>6. QED
    BY <1>7, <2>3, <2>5, Zenon DEF Leaves
<1>9. CASE ~(th[t].attempt >= VC_CLUSTER_MAX_RETRIES)
  <2>1. th' = [Goto(t, "get") EXCEPT ![t].ni = x, ![t].at = x]
    BY <1>5, <1>9, Zenon DEF cmd_attempt
  <2>2. x \in Nat
    BY <1>1, Zenon DEF Frames
  <2> HIDE DEF x
  <2>3. th' = [th EXCEPT ![t] = f]
    BY <1>1, <2>1, Zenon DEF Goto, Frames
  <2>4. f \in Frames
    BY <1>1, <2>2, Zenon DEF Frames, Labels
  <2>5. /\ f.pc = "get" /\ f.ni = x /\ f.at = x /\ f.r = th[t].r /\ f.op = th[t].op
        /\ f.attempt = th[t].attempt /\ f.res = th[t].res
    BY <1>1, ZenonT(30) DEF Frames
  <2> HIDE DEF f
  <2>6. Moves(th', t) /\ th'[t] = f
    BY <1>1, <2>3, <2>4, FrameMoves, Zenon
  <2>7. ASSUME NEW e PROVE Steady(t, f, e, View)
    <3>1. ~Holds(f) /\ ~Adding(f) /\ f.pc \notin {"open", "init", "close", "drop", "read"} /\ ~f.r
      BY <1>3, <2>5, Zenon DEF Holds, Adding
    <3>2. Calling(f, e, View)
      BY <1>4, <2>5, <3>1, ZenonT(30) DEF Calling
    <3>3. f.op # "ping"
      BY <1>3, <2>5, Zenon
    <3>4. QED
      BY <1>1, <1>4, <2>5, <3>1, <3>2, <3>3, ZenonT(30) DEF Steady
  <2>8. QED
    BY <1>7, <2>5, <2>6, <2>7, Zenon
<1>10. QED
  BY <1>8, <1>9, Zenon

\* The health thread turns to the next node.
LEMMA HealthCalm ==
    ASSUME CalmState, NEW t \in Threads, health_thread(t)
    PROVE  CalmOK'
<1> DEFINE x == th[t].ni + 1
           g == [th[t] EXCEPT !.pc = "get", !.op = "ping", !.ni = x, !.at = x]
           h == [th[t] EXCEPT !.ni = 0]
           f == IF x \in Known THEN g ELSE h
<1>1. /\ ClusterInv /\ Sound /\ CalmOK /\ MapOK /\ RestOK
      /\ th \in [Threads -> Frames] /\ th[t] \in Frames /\ FrameOK(th[t])
      /\ Steady(t, th[t], Conn(t), View)
  BY CalmFacts, Zenon
<1>2. /\ t = Health /\ th[t].pc = "idle"
      /\ UNCHANGED <<conns, host, owner, node_count, alive, slot_map, topology_lock, up, moves>>
      /\ th' = IF x \in Known
               THEN [Goto(t, "get") EXCEPT ![t].op = "ping", ![t].ni = x, ![t].at = x]
               ELSE [th EXCEPT ![t].ni = 0]
  BY Zenon DEF health_thread, world, table, locks
<1>3. t # Main /\ t \notin Callers
  BY <1>2, ClusterAssumption, Zenon DEF Main, Health
<1>4. x \in Nat
  BY <1>1 DEF Frames
<1> HIDE DEF x
<1>5. th' = [th EXCEPT ![t] = f]
  BY <1>1, <1>2, ZenonT(30) DEF Goto, Frames
<1>6. g \in Frames /\ h \in Frames
  <2>1. 0 \in Nat
    BY Zenon
  <2>2. QED
    BY <1>1, <1>4, <2>1, ZenonT(30) DEF Frames, Labels
<1>7. /\ g.pc = "get" /\ g.op = "ping" /\ g.r = th[t].r /\ g.res = th[t].res
      /\ h.pc = "idle" /\ h.op = th[t].op /\ h.r = th[t].r /\ h.res = th[t].res
  BY <1>1, <1>2, ZenonT(30) DEF Frames
<1>8. f \in Frames
  BY <1>6, Zenon
<1>9. f = g \/ f = h
  BY Zenon
<1> HIDE DEF f, g, h
<1>10. Moves(th', t) /\ th'[t] = f
  BY <1>1, <1>5, <1>8, FrameMoves, Zenon
<1>11. ~th[t].r /\ th[t].op # "cmd"
  BY <1>1, <1>2, <1>3, ZenonT(30) DEF FrameOK, Steady
<1>12. /\ f.pc \in {"get", "idle"} /\ f.op # "cmd" /\ ~f.r /\ f.res = th[t].res
  BY <1>7, <1>9, <1>11, Zenon
<1>13. ASSUME NEW e PROVE Steady(t, f, e, View)
  <2>1. ~Holds(f) /\ ~Adding(f) /\ f.pc \notin {"open", "init", "close", "drop"}
    BY <1>12, Zenon DEF Holds, Adding
  <2>2. QED
    BY <1>1, <1>2, <1>12, <2>1, ZenonT(30) DEF Steady
<1>14. MapOK'
  <2>1. Grows(View, View')
    BY <1>2, SameView, Zenon
  <2>2. QED
    BY <1>1, <1>2, <1>3, <1>10, <1>12, <2>1, MapStays, ZenonT(30)
<1>15. Steady(t, th'[t], conns[th'[t].at][th'[t].nc], View)
  BY <1>10, <1>13, Zenon
<1>16. QED
  BY <1>1, <1>2, <1>10, <1>14, <1>15, GoCalm, Zenon

\* A call begins.
LEMMA CallCalm ==
    ASSUME CalmState, NEW t \in Callers, vc_cluster_cmd(t)
    PROVE  CalmOK'
<1> DEFINE i == Idle(calls + 1, NoResult)
           f == [i EXCEPT !.pc = "slot", !.op = "cmd"]
<1>1. t \in Threads /\ t # Main
  BY ClusterAssumption, Zenon DEF Threads
<1>2. ClusterInv /\ Sound /\ CalmOK /\ MapOK /\ RestOK
  BY <1>1, CalmFacts, Zenon
<1>3. /\ Connected /\ th' = [th EXCEPT ![t] = f]
      /\ UNCHANGED <<conns, host, owner, node_count, alive, slot_map, topology_lock, up, moves>>
  BY Zenon DEF vc_cluster_cmd, world, table, locks
<1>4. NoResult \in Messages /\ NoResult.says = None
  BY ResultTypes, ZenonT(30) DEF NoResult
<1>5. calls + 1 \in Nat
  BY <1>2, SMTT(30) DEF RestOK
<1>6. i \in Frames /\ ~i.r /\ i.attempt = 0 /\ i.res = NoResult
  BY <1>4, <1>5, Zenon DEF Idle, Frames, Labels, Names
<1> HIDE DEF i
<1>7. /\ f \in Frames /\ f.pc = "slot" /\ f.op = "cmd" /\ ~f.r /\ f.attempt = 0 /\ f.res = NoResult
  BY <1>6, Zenon DEF Frames, Labels
<1> HIDE DEF f
<1>8. Moves(th', t) /\ th'[t] = f
  BY <1>1, <1>2, <1>3, <1>7, FrameMoves, Zenon
<1>9. ASSUME NEW e PROVE Steady(t, f, e, View)
  <2>1. ~Holds(f) /\ ~Adding(f) /\ f.pc \notin {"open", "init", "close", "drop", "get", "send", "read"}
    BY <1>7, Zenon DEF Holds, Adding
  <2>2. Calling(f, e, View)
    BY <1>7, <2>1, ZenonT(30) DEF Calling
  <2>3. f.op # "ping" /\ f.res.says \notin {"nonode", "net"}
    BY <1>4, <1>7, Zenon DEF None
  <2>4. QED
    BY <1>7, <2>1, <2>2, <2>3, ZenonT(30) DEF Steady
<1>10. MapOK'
  <2>1. Grows(View, View')
    BY <1>3, SameView, Zenon
  <2>2. QED
    BY <1>1, <1>2, <1>3, <1>8, <2>1, MapStays, ZenonT(30)
<1>11. Steady(t, th'[t], conns[th'[t].at][th'[t].nc], View)
  BY <1>8, <1>9, Zenon
<1>12. QED
  BY <1>1, <1>2, <1>3, <1>8, <1>10, <1>11, GoCalm, ZenonT(30)

\* It reads the map: the slot is assigned.
LEMMA SlotCalm ==
    ASSUME CalmState, NEW t \in Threads, vc_cluster_node_for_slot(t)
    PROVE  CalmOK'
<1> DEFINE x == slot_map
           f == [th[t] EXCEPT !.pc = "pick", !.ni = x]
<1>1. /\ ClusterInv /\ Sound /\ CalmOK /\ MapOK
      /\ th \in [Threads -> Frames] /\ th[t] \in Frames /\ FrameOK(th[t])
      /\ Steady(t, th[t], Conn(t), View)
  BY CalmFacts, Zenon
<1>2. /\ th[t].pc = "slot" /\ topology_lock = None
      /\ th' = IF x = 0 THEN Return(t, Result("nonode")) ELSE [Goto(t, "pick") EXCEPT ![t].ni = x]
      /\ UNCHANGED <<conns, host, owner, node_count, alive, slot_map, topology_lock, up, moves>>
  BY Zenon DEF vc_cluster_node_for_slot, world, table, locks
<1>3. th[t].op = "cmd" /\ ~th[t].r
  BY <1>1, <1>2, Zenon DEF FrameOK
<1>4. t \in Callers /\ th[t].attempt = 0 /\ t # Main
  BY <1>1, <1>2, <1>3, ClusterAssumption, Zenon DEF Steady, Calling
<1>5. Old(x, View) /\ Latest(View.host[x], 0, View)
  BY <1>1, <1>2, ViewIs, Zenon DEF MapOK, Started
<1>6. x # 0 /\ x \in Nat
  BY <1>5, SMTT(30) DEF Old, Index
<1> HIDE DEF x
<1>7. th' = [th EXCEPT ![t] = f]
  BY <1>1, <1>2, <1>6, Zenon DEF Goto, Frames
<1>8. f \in Frames
  BY <1>1, <1>6, Zenon DEF Frames, Labels
<1>9. /\ f.pc = "pick" /\ f.ni = x /\ f.r = th[t].r /\ f.op = th[t].op
      /\ f.attempt = th[t].attempt /\ f.res = th[t].res
  BY <1>1, ZenonT(30) DEF Frames
<1> HIDE DEF f
<1>10. Moves(th', t) /\ th'[t] = f
  BY <1>1, <1>7, <1>8, FrameMoves, Zenon
<1>11. ASSUME NEW e PROVE Steady(t, f, e, View)
  <2>1. ~Holds(f) /\ ~Adding(f) /\ f.pc \notin {"open", "init", "close", "drop", "get", "send", "read", "slot"}
    BY <1>9, Zenon DEF Holds, Adding
  <2>2. Calling(f, e, View)
    BY <1>3, <1>4, <1>5, <1>9, <2>1, ZenonT(30) DEF Calling
  <2>3. f.op # "ping"
    BY <1>3, <1>9, Zenon
  <2>4. QED
    BY <1>1, <1>3, <1>4, <1>9, <2>1, <2>2, <2>3, ZenonT(30) DEF Steady
<1>12. MapOK'
  <2>1. Grows(View, View')
    BY <1>2, SameView, Zenon
  <2>2. QED
    BY <1>1, <1>2, <1>4, <1>9, <1>10, <2>1, MapStays, ZenonT(30)
<1>13. Steady(t, th'[t], conns[th'[t].at][th'[t].nc], View)
  BY <1>10, <1>11, Zenon
<1>14. QED
  BY <1>1, <1>2, <1>10, <1>12, <1>13, GoCalm, ZenonT(30)

\* No connection is closed.
LEMMA CloseCalm ==
    ASSUME CalmState, NEW t \in Threads, node_conn_close(t)
    PROVE  FALSE
<1>1. Steady(t, th[t], Conn(t), View)
  BY CalmFacts, Zenon
<1>2. th[t].pc \in {"close", "drop"}
  BY Zenon DEF node_conn_close
<1>3. QED
  BY <1>1, <1>2, Zenon DEF Steady

\* The nodes: none has crashed, and a move of the slot makes its new owner the
\* latest.
LEMMA WorldCalm ==
    ASSUME CalmState, Calm', NEW n \in Nodes, crash(n) \/ restart(n) \/ move_slot(n)
    PROVE  CalmOK'
<1>1. Main \in Threads
  BY Zenon DEF Threads
<1>2. ClusterInv /\ Sound /\ CalmOK /\ MapOK /\ NodesOK /\ moves \in Nat
  BY <1>1, CalmFacts, ZenonT(30)
<1>3. ~crash(n)
  <2>1. crashes \in Nat
    BY Zenon DEF CalmState, CalmInv
  <2>2. QED
    BY <2>1 DEF crash, Calm
<1>4. ~restart(n)
  BY <1>2, Zenon DEF restart, NodesOK
<1>5. /\ owner' = n /\ moves' = moves + 1
      /\ UNCHANGED <<up, node_count, host, alive, conns, topology_lock, slot_map, th>>
  BY <1>3, <1>4, Zenon DEF move_slot, table, locks
<1>6. Grows(View, View')
  <2>1. /\ View.moves \in Nat /\ View'.moves = View.moves + 1 /\ View'.owner = n
        /\ View'.host = View.host /\ View'.count = View.count
    BY <1>2, <1>5, ViewIs, Zenon
  <2>2. ASSUME NEW a, NEW m \in Nat, Latest(a, m, View) PROVE Latest(a, m, View')
    BY <2>1, <2>2, SMTT(30) DEF Latest
  <2>3. View'.moves < VC_CLUSTER_MAX_RETRIES => View.moves < VC_CLUSTER_MAX_RETRIES
    BY <2>1, ClusterAssumption, SMTT(30)
  <2>4. QED
    BY <2>1, <2>2, <2>3, ZenonT(30) DEF Grows
<1>7. NodesOK'
  BY <1>2, <1>5, ZenonT(30) DEF NodesOK, NodeOK, Known
<1>8. MapOK'
  <2>1. Started' => Started
    BY <1>5, Zenon DEF Started, Connected
  <2>2. QED
    BY <1>2, <1>5, <1>6, <2>1, MapKept, Zenon
<1>9. ASSUME NEW t \in Threads PROVE Steady(t, th'[t], Conn(t)', View')
  <2>1. th[t] \in Frames /\ Steady(t, th[t], Conn(t), View)
    BY CalmFacts, Zenon
  <2>2. Steady(t, th[t], Conn(t), View')
    BY <1>6, <2>1, SteadyCarries, Zenon
  <2>3. QED
    BY <1>5, <2>2, Zenon DEF Conn
<1>10. QED
  BY <1>7, <1>8, <1>9, Zenon DEF CalmOK

\* vc_cluster_connect has parsed the seeds.
LEMMA CalmInit == Init => CalmInv
<1> SUFFICES ASSUME Init PROVE CalmInv
  BY Zenon
<1> DEFINE f == Idle(0, NoResult)
           g == [f EXCEPT !.pc = "next", !.op = "connect", !.r = TRUE]
<1>1. NoResult.says = None
  BY ResultTypes, ZenonT(30) DEF NoResult
<1>2. f.pc = "idle" /\ ~f.r /\ f.op = None /\ f.res = NoResult
  BY Zenon DEF Idle
<1>3. g.pc = "next" /\ g.r /\ g.op = "connect" /\ g.at = 0 /\ g.res = NoResult
  BY Zenon DEF Idle
<1> HIDE DEF f, g
<1>4. th = [t \in Threads |-> IF t = Main THEN g ELSE f]
  BY Zenon DEF Init, f, g
<1>5. None \notin {"cmd", "ping", "nonode", "net"}
  BY Zenon DEF None
<1>6. ASSUME NEW t \in Threads, NEW e PROVE Steady(t, th[t], e, View)
  <2>1. CASE th[t] = f
    BY <1>1, <1>2, <1>5, <2>1, SteadyIdle, Zenon
  <2>2. CASE th[t] = g
    <3>1. ~Holds(g) /\ ~Adding(g) /\ g.pc \notin {"open", "init", "found", "close", "drop"}
      BY <1>3, Zenon DEF Holds, Adding
    <3>2. g.op # "cmd" /\ g.op # "ping"
      BY <1>3, Zenon
    <3>3. Refreshing(g, e, View)
      BY <1>3, <3>1, <3>2, Zenon DEF Refreshing
    <3>4. QED
      BY <1>1, <1>3, <1>5, <2>2, <3>1, <3>2, <3>3, ZenonT(30) DEF Steady
  <2>3. QED
    BY <1>4, <2>1, <2>2, Zenon
<1>7. MapOK
  <2>1. Main \in Threads
    BY Zenon DEF Threads
  <2>2. th[Main].pc = "next"
    BY <1>3, <1>4, <2>1, Zenon
  <2>3. \A t \in Threads : th[t].pc # "slot"
    BY <1>2, <1>3, <1>4, Zenon
  <2>4. QED
    BY <2>2, <2>3, Zenon DEF MapOK, Started, Connected
<1>8. NodesOK
  <2>1. ASSUME NEW x \in Index PROVE NodeOK(x) /\ (x = 1 => host[x] # Blank)
    <3>1. CASE x <= Len(Seeds)
      <4>1. Seeds[x] \in Nodes /\ x \in Known
        BY <3>1, ClusterAssumption DEF Index, Init, Known
      <4>2. host[x] = Seeds[x] /\ alive[x] /\ \A c \in Pool : conns[x][c] = Closed
        BY <3>1, Zenon DEF Init
      <4>3. Closed.link = "up"
        BY Zenon DEF Closed
      <4>4. host[x] # Blank
        BY <4>1, <4>2, ClusterAssumption, Zenon
      <4>5. QED
        BY <4>1, <4>2, <4>3, <4>4, Zenon DEF NodeOK
    <3>2. CASE ~(x <= Len(Seeds))
      <4>1. host[x] = Blank /\ ~alive[x] /\ \A c \in Pool : conns[x][c] = Zeroed
        BY <3>2, Zenon DEF Init
      <4>2. Zeroed.fd >= 0
        BY DEF Zeroed
      <4>3. x # 1
        BY <3>2, ClusterAssumption, SMTT(30)
      <4>4. QED
        BY <4>1, <4>2, <4>3, Zenon DEF NodeOK
    <3>3. QED
      BY <3>1, <3>2, Zenon
  <2>2. 1 \in Index
    BY ClusterAssumption DEF Index
  <2>3. \A n \in Nodes : up[n]
    BY Zenon DEF Init
  <2>4. QED
    BY <2>1, <2>2, <2>3, Zenon DEF NodesOK
<1>9. crashes \in Nat /\ moves \in Nat
  BY Zenon DEF Init
<1>10. CalmOK
  BY <1>6, <1>7, <1>8, Zenon DEF CalmOK
<1>11. QED
  BY <1>9, <1>10, Zenon DEF CalmInv

\* A step of a thread.
LEMMA StepCalm ==
    ASSUME CalmState, Calm', NEW t \in Threads, step(t)
    PROVE  CalmOK'
<1>1. CASE node_conn_get(t) \/ node_conn_open(t) \/ node_conn_close(t)
  BY <1>1, GetCalm, OpenCalm, CloseCalm, Zenon
<1>2. CASE sock_sendall(t) \/ read_reply(t) \/ read_pong(t) \/ read_header(t)
  BY <1>2, SendCalm, ReplyCalm, PongCalm, HeaderCalm, Zenon
<1>3. CASE \/ vc_cluster_refresh(t) \/ refresh_lock(t) \/ refresh_range(t)
          \/ refresh_second(t) \/ refresh_set(t)
  BY <1>3, RefreshCalm, LockCalm, RangeCalm, SecondCalm, SetCalm, Zenon
<1>4. CASE node_find_or_add(t) \/ node_count_store(t) \/ node_init(t)
  BY <1>4, SearchCalm, CountCalm, NodeInitCalm, Zenon
<1>5. CASE vc_cluster_node_for_slot(t) \/ cmd_attempt(t) \/ health_thread(t)
  BY <1>5, SlotCalm, AttemptCalm, HealthCalm, Zenon
<1>6. QED
  BY <1>1, <1>2, <1>3, <1>4, <1>5, Zenon DEF step

\* Threads and the beginning of a call leave the nodes alone, and a fault met
\* stays met.
LEMMA StepWorld ==
    ASSUME NEW t \in Threads, step(t) \/ vc_cluster_cmd(t)
    PROVE  UNCHANGED <<crashes, moves, format>> /\ met \subseteq met'
<1>1. CASE node_conn_get(t)
  BY <1>1, Zenon DEF node_conn_get, world, Meet
<1>2. CASE node_conn_open(t) \/ node_conn_close(t)
  BY <1>2, Zenon DEF node_conn_open, node_conn_close, world, Meet
<1>3. CASE sock_sendall(t) \/ read_reply(t) \/ read_header(t)
  BY <1>3, ZenonT(30) DEF sock_sendall, read_reply, read_header, world, Meet
<1>4. CASE read_pong(t)
  BY <1>4, Zenon DEF read_pong, world, Meet
<1>5. CASE \/ vc_cluster_refresh(t) \/ refresh_lock(t) \/ refresh_range(t)
          \/ refresh_second(t) \/ refresh_set(t)
  BY <1>5, Zenon DEF vc_cluster_refresh, refresh_lock, refresh_range, refresh_second, refresh_set, world
<1>6. CASE node_find_or_add(t) \/ node_count_store(t) \/ node_init(t)
  BY <1>6, Zenon DEF node_find_or_add, node_count_store, node_init, world, Meet
<1>7. CASE vc_cluster_node_for_slot(t) \/ cmd_attempt(t) \/ health_thread(t) \/ vc_cluster_cmd(t)
  BY <1>7, Zenon DEF vc_cluster_node_for_slot, cmd_attempt, health_thread, vc_cluster_cmd, world
<1>8. QED
  BY <1>1, <1>2, <1>3, <1>4, <1>5, <1>6, <1>7, ZenonT(30) DEF step

\* Every step keeps the invariant.
LEMMA CalmStep == ClusterInv /\ CalmInv /\ [Next]_vars => CalmInv'
<1>1. ASSUME ClusterInv, CalmInv, Next PROVE CalmInv'
  <2>1. \/ \E t \in Threads : step(t) \/ vc_cluster_cmd(t)
        \/ \E n \in Nodes : crash(n) \/ restart(n) \/ move_slot(n)
    BY <1>1, Zenon DEF Next, Threads
  <2>2. /\ crashes' \in {crashes, crashes + 1} /\ moves' \in {moves, moves + 1}
        /\ format' = format /\ met \subseteq met'
    <3>1. ASSUME NEW n \in Nodes, crash(n) \/ restart(n) \/ move_slot(n)
          PROVE  /\ crashes' \in {crashes, crashes + 1} /\ moves' \in {moves, moves + 1}
                 /\ format' = format /\ met' = met
      BY <3>1, Zenon DEF crash, restart, move_slot
    <3>2. QED
      BY <2>1, <3>1, StepWorld, Zenon
  <2>3. crashes \in Nat /\ moves \in Nat
    BY <1>1, Zenon DEF CalmInv
  <2>4. crashes' \in Nat /\ moves' \in Nat /\ (crashes' = 0 => crashes = 0)
    BY <2>2, <2>3
  <2>5. ASSUME Calm' PROVE CalmOK'
    <3>1. CalmState
      <4>1. Calm
        BY <2>2, <2>4, <2>5, Zenon DEF Calm, Sound
      <4>2. QED
        BY <1>1, <4>1, Zenon DEF CalmState
    <3>2. QED
      BY <1>1, <2>5, <3>1, StepCalm, CallCalm, WorldCalm, ZenonT(30) DEF Next
  <2>6. QED
    BY <2>4, <2>5, Zenon DEF CalmInv
<1>2. ASSUME CalmInv, UNCHANGED vars PROVE CalmInv'
  <2>1. UNCHANGED <<up, owner, format, crashes, moves, node_count, host, alive, conns, slot_map, topology_lock, th, met>>
    BY <1>2, ZenonT(30) DEF vars, world, table, locks
  <2>2. View' = View /\ (Calm' <=> Calm)
    BY <2>1, Zenon DEF View, Calm, Sound
  <2>3. NodesOK' = NodesOK /\ MapOK' = MapOK /\ \A t \in Threads : Conn(t)' = Conn(t)
    BY <2>1, <2>2, Zenon DEF NodesOK, NodeOK, MapOK, Started, Known, Connected, Conn
  <2>4. QED
    BY <1>2, <2>1, <2>2, <2>3, Zenon DEF CalmInv, CalmOK
<1>3. QED
  BY <1>1, <1>2, Zenon

\* While no node crashes and the client has met none of its faults, vc_cluster_cmd
\* fails no call before the slot has moved as often as it makes attempts: every
\* attempt is at a node that owned the slot after one more move.
THEOREM FailureCorrect == Spec => []NoSpuriousFailure
<1>1. Spec => []CalmInv
  BY CalmInit, CalmStep, ClusterCorrect, PTL DEF Spec
<1>2. CalmInv => NoSpuriousFailure
  <2>1. ASSUME CalmInv, Calm, moves < VC_CLUSTER_MAX_RETRIES, NEW t \in Callers
        PROVE  th[t].res.says \notin {"nonode", "net"}
    <3>1. t \in Threads
      BY Zenon DEF Threads
    <3>2. Steady(t, th[t], Conn(t), View) /\ View.moves = moves
      BY <2>1, <3>1, ViewIs, Zenon DEF CalmInv, CalmOK
    <3>3. QED
      BY <2>1, <3>2, Zenon DEF Steady
  <2>2. QED
    BY <2>1, Zenon DEF NoSpuriousFailure
<1>3. QED
  BY <1>1, <1>2, PTL
=============================================================================
