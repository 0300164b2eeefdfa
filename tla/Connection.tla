----------------------------- MODULE Connection -----------------------------
(***************************************************************************)
(* One connection of net/server.c: the client, the two socket buffers, its *)
(* entry in an edge-triggered epoll, and the worker that runs process_conn,*)
(* conn_flush and tls_do_handshake for it.                                 *)
(*                                                                         *)
(* Requests are numbered and script says what each one is.  A request      *)
(* travels as two fragments, so that a read may end inside it; a reply is  *)
(* one unit, of which OutCap fit into the socket.  The epoll entry is on   *)
(* the ready list (queued) after an arrival, after space appeared in a     *)
(* full socket while EPOLLOUT is of interest, and after EPOLL_CTL_MOD of a *)
(* ready socket; epoll_wait takes it off and reports what is ready then.   *)
(* The sweep is the one of the connection's own worker; Server has those of *)
(* the others.  The buffers can always grow.                               *)
(***************************************************************************)
EXTENDS Naturals, Sequences, SequencesExt, FiniteSetsExt

CONSTANTS
    Scripts,    \* what clients send: sequences of "cmd", "quit" and "bad"
    OutCap      \* replies the socket holds until the client reads them

ASSUME ConnectionAssumption ==
    Scripts \subseteq Seq({"cmd", "quit", "bad"}) /\ OutCap \in Nat \ {0}

VARIABLES
    script,     \* what this client sends
    tls,        \* whether the server has a certificate
    sent,       \* fragments the client has sent
    peer,       \* the client's side: "hello", "wait" and "flight" of the handshake, "open", "half" or "gone"
    got,        \* replies the client has read
    in, out,    \* the socket buffers
    interest,   \* whether EPOLLOUT is registered
    queued,     \* the entry is on the epoll's ready list
    state,      \* conn->state
    idle,       \* last_active is more than VC_CONN_TIMEOUT_S ago
    rbuf,       \* unparsed fragments in conn->rbuf
    wbuf,       \* replies of conn->wbuf not yet written
    done,       \* requests dispatched
    pc, mask    \* the worker, and the event it handles

vars == <<script, tls, sent, peer, got, in, out, interest, queued, state, idle, rbuf, wbuf, done, pc,
          mask>>
clientside == <<sent, peer, got>>
socket == <<in, out, interest, queued>>
conn == <<state, idle, rbuf, wbuf, done>>

Fragments == 2 * Len(script)

Init ==
    /\ script \in Scripts /\ tls \in BOOLEAN
    /\ sent = 0 /\ got = <<>>
    /\ peer = IF tls THEN "hello" ELSE "open"
    /\ in = <<>> /\ out = <<>>
    /\ interest = FALSE /\ queued = FALSE
    /\ state = IF tls THEN "TLS_HAND" ELSE "CONNECTED"
    /\ idle = FALSE
    /\ rbuf = 0 /\ wbuf = <<>> /\ done = 0
    /\ pc = "wait" /\ mask = {}

-----------------------------------------------------------------------------
(* The client.                                                             *)

Arrive(items) == in' = in \o items /\ queued' = TRUE /\ UNCHANGED <<out, interest>>

\* The first flight of the TLS handshake, or something that is none.
client_hello ==
    /\ peer = "hello" /\ state # "FREE"
    /\ \E item \in {"hello", "junk"} : Arrive(<<item>>)
    /\ peer' = "wait"
    /\ UNCHANGED <<sent, got, conn, pc, mask>>

\* The client's last flight; in TLS 1.3 its requests may follow at once.
client_finish ==
    /\ peer = "flight" /\ state # "FREE"
    /\ Arrive(<<"fin">>)
    /\ peer' = "open"
    /\ UNCHANGED <<sent, got, conn, pc, mask>>

\* Any number of fragments at once.
client_send ==
    /\ peer = "open" /\ state # "FREE"
    /\ \E n \in 1 .. Fragments - sent : Arrive([k \in 1 .. n |-> "frag"]) /\ sent' = sent + n
    /\ UNCHANGED <<peer, got, conn, pc, mask>>

client_read ==
    /\ peer \in {"open", "half"} /\ out # <<>>
    /\ got' = Append(got, Head(out)) /\ out' = Tail(out)
    /\ queued' = (queued \/ (interest /\ Len(out) = OutCap))
    /\ UNCHANGED <<sent, peer, in, interest, conn, pc, mask>>

\* The client leaves, or shuts down its sending side and waits for replies.
client_close ==
    /\ peer # "gone" /\ state # "FREE"
    /\ peer' = "gone" \/ (peer = "open" /\ peer' = "half")
    /\ queued' = TRUE
    /\ UNCHANGED <<sent, got, in, out, interest, conn, pc, mask>>

-----------------------------------------------------------------------------
(* worker_thread                                                           *)

ReadyMask(out_interest) ==
    {e \in {"IN", "OUT", "HUP"} :
        CASE e = "IN"  -> in # <<>>
          [] e = "OUT" -> out_interest /\ Len(out) < OutCap
          [] e = "HUP" -> peer \in {"half", "gone"}}

\* EPOLL_CTL_MOD looks at the socket again.
Modify(out_interest) == interest' = out_interest /\ queued' = (queued \/ ReadyMask(out_interest) # {})

epoll_wait ==
    /\ pc = "wait" /\ state # "FREE" /\ queued
    /\ queued' = FALSE
    /\ mask' = ReadyMask(interest)
    /\ pc' = CASE "HUP" \in mask' -> "close"
               [] mask' = {} -> "wait"
               [] OTHER -> IF state = "TLS_HAND" THEN "handshake"
                           ELSE IF "OUT" \in mask' THEN "resume" ELSE "read"
    /\ UNCHANGED <<clientside, in, out, interest, conn>>

\* SSL_accept reads the handshake messages that have arrived and answers the first.
tls_do_handshake ==
    /\ pc = "handshake"
    /\ \/ /\ in # <<>> /\ Head(in) = "hello"
          /\ in' = Tail(in)
          /\ peer' = IF peer = "wait" THEN "flight" ELSE peer
          /\ UNCHANGED <<state, pc>>
       \/ /\ in # <<>> /\ Head(in) = "fin"
          /\ in' = Tail(in)
          /\ state' = "CONNECTED" /\ pc' = "wait"
          /\ UNCHANGED peer
       \/ in = <<>> /\ pc' = "wait" /\ UNCHANGED <<in, peer, state>>
       \/ in # <<>> /\ Head(in) = "junk" /\ pc' = "close" /\ UNCHANGED <<in, peer, state>>
    /\ UNCHANGED <<sent, got, out, interest, queued, idle, rbuf, wbuf, done, mask>>

-----------------------------------------------------------------------------
(* conn_flush, called for EPOLLOUT ("resume") and by process_conn.         *)

\* Fault: what was written stays in wbuf.
flush_write_kept ==
    /\ pc \in {"resume", "flush", "last"} /\ wbuf # <<>> /\ Len(out) < OutCap
    /\ out' = Append(out, Head(wbuf))
    /\ wbuf' = IF Len(out') = OutCap THEN wbuf ELSE Tail(wbuf)
    /\ UNCHANGED <<clientside, in, interest, queued, state, idle, rbuf, done, pc, mask>>

flush_write ==
    /\ pc \in {"resume", "flush", "last"} /\ wbuf # <<>> /\ Len(out) < OutCap
    /\ out' = Append(out, Head(wbuf)) /\ wbuf' = Tail(wbuf)
    /\ UNCHANGED <<clientside, in, interest, queued, state, idle, rbuf, done, pc, mask>>

\* Everything is written.
flush_done ==
    /\ pc \in {"resume", "flush", "last"} /\ wbuf = <<>>
    /\ IF pc = "resume" THEN Modify(FALSE) ELSE UNCHANGED <<interest, queued>>
    /\ pc' = CASE pc = "last" -> "close"
               [] pc = "resume" /\ "IN" \in mask -> "read"
               [] OTHER -> "wait"
    /\ UNCHANGED <<clientside, in, out, conn, mask>>

\* Fault: EAGAIN is taken for an error.
flush_block_error ==
    /\ pc \in {"resume", "flush", "last"} /\ wbuf # <<>> /\ Len(out) = OutCap
    /\ pc' = "close"
    /\ UNCHANGED <<clientside, socket, conn, mask>>

\* The socket is full: process_conn asks for EPOLLOUT.
flush_block ==
    /\ pc \in {"resume", "flush", "last"} /\ wbuf # <<>> /\ Len(out) = OutCap
    /\ IF pc = "flush" THEN Modify(TRUE) ELSE UNCHANGED <<interest, queued>>
    /\ pc' = CASE pc = "last" -> "close"
               [] pc = "resume" /\ "IN" \in mask -> "read"
               [] OTHER -> "wait"
    /\ UNCHANGED <<clientside, in, out, conn, mask>>

\* Writing to a client that is gone fails.
flush_error ==
    /\ pc \in {"resume", "flush", "last"} /\ wbuf # <<>> /\ peer = "gone"
    /\ pc' = "close"
    /\ UNCHANGED <<clientside, socket, conn, mask>>

-----------------------------------------------------------------------------
(* process_conn                                                            *)

read_some ==
    /\ pc = "read" /\ in # <<>>
    /\ \E n \in 1 .. Len(in) : rbuf' = rbuf + n /\ in' = SubSeq(in, n + 1, Len(in))
    /\ idle' = FALSE
    /\ UNCHANGED <<clientside, out, interest, queued, state, wbuf, done, pc, mask>>

\* Fault: one read per event, although the epoll is edge-triggered.
read_end_once ==
    /\ pc = "read"
    /\ pc' = IF peer \in {"half", "gone"} THEN "close" ELSE "parse"
    /\ UNCHANGED <<clientside, socket, conn, mask>>

\* EAGAIN, or end of file.
read_end ==
    /\ pc = "read" /\ in = <<>>
    /\ pc' = IF peer \in {"half", "gone"} THEN "close" ELSE "parse"
    /\ UNCHANGED <<clientside, socket, conn, mask>>

\* resp_parse_command and vc_dispatch for a complete command.
dispatch ==
    /\ pc = "parse" /\ rbuf >= 2
    /\ rbuf' = rbuf - 2 /\ done' = done + 1
    /\ wbuf' = Append(wbuf, done')
    /\ state' = IF script[done'] = "quit" THEN "CLOSING" ELSE state
    /\ pc' = IF script[done'] = "cmd" THEN "parse" ELSE "last"
    /\ UNCHANGED <<clientside, socket, idle, mask>>

\* RESP_PARSE_MORE: flush what there is.
parse_more ==
    /\ pc = "parse" /\ rbuf < 2
    /\ pc' = IF wbuf = <<>> THEN "wait" ELSE "flush"
    /\ UNCHANGED <<clientside, socket, conn, mask>>

conn_close ==
    /\ pc = "close"
    /\ state' = "FREE" /\ rbuf' = 0 /\ wbuf' = <<>>
    /\ interest' = FALSE /\ queued' = FALSE
    /\ pc' = "wait"
    /\ UNCHANGED <<clientside, in, out, idle, done, mask>>

-----------------------------------------------------------------------------
(* The idle sweep, between two calls of epoll_wait.                        *)

\* VC_CONN_TIMEOUT_S go by without a read.
elapse ==
    /\ pc = "wait" /\ state # "FREE" /\ ~idle
    /\ idle' = TRUE
    /\ UNCHANGED <<clientside, socket, state, rbuf, wbuf, done, pc, mask>>

\* It does not look for requests that have arrived since epoll_wait returned.
sweep ==
    /\ pc = "wait" /\ state # "FREE" /\ idle
    /\ pc' = "close"
    /\ UNCHANGED <<clientside, socket, conn, mask>>

-----------------------------------------------------------------------------
worker ==
    /\ \/ epoll_wait \/ tls_do_handshake
       \/ flush_write \/ flush_done \/ flush_block \/ flush_error
       \/ read_some \/ read_end \/ dispatch \/ parse_more \/ conn_close \/ sweep
    /\ UNCHANGED <<script, tls>>

reader == client_read /\ UNCHANGED <<script, tls>>

client ==
    /\ client_hello \/ client_finish \/ client_send \/ client_close
    /\ UNCHANGED <<script, tls>>

clock == elapse /\ UNCHANGED <<script, tls>>

Finished == (state = "FREE" \/ (pc = "wait" /\ ~queued)) /\ UNCHANGED vars

Next == worker \/ reader \/ client \/ clock \/ Finished

Spec == Init /\ [][Next]_vars

\* The worker runs, and the client reads what is sent to it.
FairSpec == Spec /\ WF_vars(worker) /\ WF_vars(reader)

-----------------------------------------------------------------------------
\* While the connection is open, the replies read, in the socket and in wbuf are
\* those of the dispatched requests, each once and in the order of the requests.
InOrder == state # "FREE" => got \o out \o wbuf = [k \in 1 .. done |-> k]

\* No wakeup is lost without TLS: a worker that waits with nothing on the ready
\* list has read every byte, parsed every complete request, and written every
\* reply, unless the socket is full and EPOLLOUT will report when it is not.
\* (With TLS a request that arrives together with the last handshake message
\* stays unread: tls_do_handshake is followed by continue.)
NoLostWakeup ==
    ~tls /\ pc = "wait" /\ state = "CONNECTED" /\ ~queued =>
        /\ in = <<>> /\ rbuf < 2
        /\ wbuf # <<>> => interest /\ Len(out) = OutCap

\* A client without TLS that stays and reads gets the reply to every request it has
\* sent.  The server closes no other connection than those of clients that have left
\* or shut down their side, those that have sent QUIT or broken the protocol, and those
\* it has read nothing from for VC_CONN_TIMEOUT_S: a request that arrives just before
\* that sweep is lost, and so is a reply that such a client was slow to read.
Answered ==
    \A k \in 1 .. Max({Len(s) : s \in Scripts}) :
        ~tls /\ sent >= 2 * k ~>
            \/ k \in ToSet(got)
            \/ peer # "open" \/ \E j \in 1 .. done : script[j] # "cmd"
            \/ state = "FREE" /\ idle
=============================================================================
