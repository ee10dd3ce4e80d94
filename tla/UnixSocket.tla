----------------------------- MODULE UnixSocket -----------------------------
(***************************************************************************)
(* The Unix-domain socket provider of src/kernel/unixsocket.c and the few  *)
(* duties of the generic socket layer it depends on (socket.c is not in    *)
(* src/, so those are taken from spec section 4.6 and marked so).          *)
(*                                                                         *)
(* Atomicity.  Socket system calls run with interrupts off; the only       *)
(* points where another thread can run are the enable_interrupts(); halt() *)
(* pairs inside the accept/send/recv loops and the connect spin.  Each     *)
(* action below is therefore one stretch of code between two such points.  *)
(* A thread blocked in WAIT_IO (tstate) is not scheduled until some other  *)
(* thread calls thread_resume on it.                                       *)
(***************************************************************************)
EXTENDS Naturals, Sequences, FiniteSets, Functions

CONSTANTS
    Threads,      \* kernel threads issuing socket calls
    Sockets,      \* every socket object that may ever exist
    InitHolder,   \* initial sockets -> the threads that hold an fd on them
    Names,        \* non-empty socket path names
    NoName,       \* the empty name ""
    Formatted,    \* name -> what sprintf(name, SOCKET_NAME_SIZE, name) stores
                  \* (the address is used as the format string, and cut
                  \* to SOCKET_NAME_SIZE - 1 characters)
    Null,         \* the NULL pointer
    Capacity,     \* size of each socket's buffer_in FIFO
    Lens,         \* buffer lengths passed to send/recv
    MaxBytes,     \* bound: send is called only while fewer bytes were sent
    MaxConnects   \* bound: connect calls that reach the accept queue

ASSUME /\ DOMAIN InitHolder \subseteq Sockets
       /\ \A s \in DOMAIN InitHolder : InitHolder[s] \subseteq Threads
       /\ Capacity \in Nat \ {0} /\ Lens \subseteq Nat
       /\ NoName \notin Names /\ Null \notin Sockets \cup Threads
       /\ Formatted \in [Names -> Names \cup {NoName}]

VARIABLES
    alive,        \* sockets in g_socket_list
    everAlloc,    \* sockets ever created (a socket object is never reused)
    holder,       \* socket -> threads holding an fd for it
    name,         \* UnixSocket.name
    listening,    \* BITMAP_CHECK(opts, SO_ACCEPTCONN)
    acceptQ,      \* accept_queue
    conn,         \* connection
    bufIn,        \* buffer_in: one entry per byte, the sending socket
    disconnected, \* disconnected
    lastThread,   \* last_thread
    pc,           \* the socket call a thread is executing, or "idle"
    sock,         \* the socket argument of that call
    len,          \* the len argument of that call
    tstate,       \* thread state: "RUN" or "WAITIO"
    reason,       \* state_privateData: which call the thread blocked in
    sentTo,       \* sentTo[p][s]: bytes p's send calls returned as written to s
    recvFrom,     \* recvFrom[s][p]: bytes s's recv calls returned that p sent
    connects      \* connect calls that enqueued (bounded by MaxConnects)

sockVars   == <<alive, everAlloc, holder, name, listening, acceptQ, conn,
                bufIn, disconnected, lastThread>>
threadVars == <<pc, sock, len, tstate, reason>>
vars       == <<sockVars, threadVars, sentTo, recvFrom, connects>>

Calls == {"idle", "accept", "connect", "send", "recv"}
Min2(a, b) == IF a < b THEN a ELSE b
CountOf(q, p) == Len(SelectSeq(q, LAMBDA x : x = p))

-----------------------------------------------------------------------------
Init ==
    /\ alive = DOMAIN InitHolder
    /\ everAlloc = DOMAIN InitHolder
    /\ holder = [s \in Sockets |-> IF s \in DOMAIN InitHolder
                                   THEN InitHolder[s] ELSE {}]
    /\ name = [s \in Sockets |-> NoName]
    /\ listening = [s \in Sockets |-> FALSE]
    /\ acceptQ = [s \in Sockets |-> <<>>]
    /\ conn = [s \in Sockets |-> Null]
    /\ bufIn = [s \in Sockets |-> <<>>]
    /\ disconnected = [s \in Sockets |-> FALSE]
    \* the creating thread is the socket's first last_thread
    /\ lastThread \in {f \in [Sockets -> Threads \cup {Null}] :
                         \A s \in Sockets : f[s] \in IF s \in DOMAIN InitHolder
                                                     THEN InitHolder[s]
                                                     ELSE {Null}}
    /\ pc = [t \in Threads |-> "idle"]
    /\ sock = [t \in Threads |-> Null]
    /\ len = [t \in Threads |-> 0]
    /\ tstate = [t \in Threads |-> "RUN"]
    /\ reason = [t \in Threads |-> "none"]
    /\ sentTo = [p \in Sockets |-> [s \in Sockets |-> 0]]
    /\ recvFrom = [s \in Sockets |-> [p \in Sockets |-> 0]]
    /\ connects = 0

-----------------------------------------------------------------------------
(* Helpers for the scheduler primitives the provider calls.               *)

\* The generic socket layer records the calling thread on entry to every
\* socket call (spec 4.6: last_thread).
Enter(t, s) == lastThread' = [lastThread EXCEPT ![s] = t]

\* th->state == TS_WAITIO && th->state_privateData == r
WaitingIn(th, r) == th # Null /\ tstate[th] = "WAITIO" /\ reason[th] = r

\* if (WaitingIn(th, r)) thread_resume(th);
ResumeIf(th, r) == IF WaitingIn(th, r) THEN [tstate EXCEPT ![th] = "RUN"]
                                       ELSE tstate

\* thread_change_state(g_current_thread, TS_WAITIO, r); enable_interrupts(); halt();
Block(t, r) == /\ tstate' = [tstate EXCEPT ![t] = "WAITIO"]
               /\ reason' = [reason EXCEPT ![t] = r]

Return(t) == pc' = [pc EXCEPT ![t] = "idle"]

Begin(t, c, s, k) == /\ pc' = [pc EXCEPT ![t] = c]
                     /\ sock' = [sock EXCEPT ![t] = s]
                     /\ len' = [len EXCEPT ![t] = k]

Runs(t, c) == pc[t] = c /\ tstate[t] = "RUN"

CanCall(t, s) == pc[t] = "idle" /\ s \in alive /\ t \in holder[s]

-----------------------------------------------------------------------------
(* unixsocket_bind: the name checks compare the address as given; what is *)
(* stored is the address formatted by sprintf                              *)
Bind(t, s, n) ==
    /\ CanCall(t, s)
    /\ Enter(t, s)
    /\ name' = IF /\ name[s] = NoName
                  /\ n # NoName
                  /\ \A x \in alive : name[x] # n
               THEN [name EXCEPT ![s] = Formatted[n]]
               ELSE name
    /\ UNCHANGED <<alive, everAlloc, holder, listening, acceptQ, conn, bufIn,
                   disconnected, threadVars, sentTo, recvFrom, connects>>

(* unixsocket_listen                                                       *)
Listen(t, s) ==
    /\ CanCall(t, s)
    /\ Enter(t, s)
    /\ listening' = [listening EXCEPT ![s] = TRUE]
    /\ UNCHANGED <<alive, everAlloc, holder, name, acceptQ, conn, bufIn,
                   disconnected, threadVars, sentTo, recvFrom, connects>>

(* unixsocket_accept, entry check                                          *)
Accept(t, s) ==
    /\ CanCall(t, s)
    /\ Enter(t, s)
    /\ IF listening[s] THEN Begin(t, "accept", s, 0)
                       ELSE UNCHANGED <<pc, sock, len>>
    /\ UNCHANGED <<alive, everAlloc, holder, name, listening, acceptQ, conn,
                   bufIn, disconnected, tstate, reason, sentTo, recvFrom,
                   connects>>

\* syscall_socket picks a fresh socket; it fails when none is left
\* (the process's fd table is full).
FreeSockets == Sockets \ everAlloc

\* Mutant: only the new socket is linked to the connector.
CrosslinkOneWay(ns, other) == conn' = [conn EXCEPT ![ns] = other]

\* new_socket->connection = other_end; other_end->connection = new_socket;
Crosslink(ns, other) == conn' = [conn EXCEPT ![ns] = other, ![other] = ns]

(* unixsocket_accept, one pass of the while (TRUE) loop                    *)
AcceptTry(t) ==
    /\ Runs(t, "accept")
    /\ LET s == sock[t] IN
       IF acceptQ[s] # <<>>
       THEN LET other == Head(acceptQ[s]) IN
            /\ acceptQ' = [acceptQ EXCEPT ![s] = Tail(@)]
            /\ IF FreeSockets # {}
               THEN LET ns == CHOOSE x \in FreeSockets : TRUE IN
                    /\ alive' = alive \cup {ns}
                    /\ everAlloc' = everAlloc \cup {ns}
                    /\ holder' = [holder EXCEPT ![ns] = {t}]
                    /\ lastThread' = [lastThread EXCEPT ![ns] = t]
                    /\ Crosslink(ns, other)
                    /\ Return(t)
                    /\ UNCHANGED <<tstate, reason>>
               \* the dequeued peer is dropped and the thread waits again
               ELSE /\ Block(t, "accept")
                    /\ UNCHANGED <<alive, everAlloc, holder, lastThread, conn,
                                   pc>>
       ELSE /\ Block(t, "accept")
            /\ UNCHANGED <<alive, everAlloc, holder, lastThread, conn, pc,
                           acceptQ>>
    /\ UNCHANGED <<name, listening, bufIn, disconnected, sock, len, sentTo,
                   recvFrom, connects>>

\* Mutant: connect never resumes a listener asleep in accept.
WakeAcceptorDropped(l) == tstate

\* resume the listener's last thread if it sleeps in unixsocket_accept
WakeAcceptor(l) == ResumeIf(lastThread[l], "accept")

(* unixsocket_connect, up to the spin on connection == NULL               *)
Connect(t, s, n) ==
    /\ CanCall(t, s)
    /\ Enter(t, s)
    /\ LET named == {x \in alive : name[x] = n} IN
       IF n # NoName /\ conn[s] = Null /\ named # {}
          /\ listening[CHOOSE x \in named : TRUE]
       THEN LET l == CHOOSE x \in named : TRUE IN
            /\ connects < MaxConnects
            /\ acceptQ' = [acceptQ EXCEPT ![l] = Append(@, s)]
            /\ tstate' = WakeAcceptor(l)
            /\ connects' = connects + 1
            /\ Begin(t, "connect", s, 0)
       ELSE UNCHANGED <<acceptQ, tstate, connects, pc, sock, len>>
    /\ UNCHANGED <<alive, everAlloc, holder, name, listening, conn, bufIn,
                   disconnected, reason, sentTo, recvFrom>>

(* unixsocket_connect: the spin ends once accept has set connection        *)
ConnectDone(t) ==
    /\ Runs(t, "connect")
    /\ conn[sock[t]] # Null
    /\ Return(t)
    /\ UNCHANGED <<sockVars, sock, len, tstate, reason, sentTo, recvFrom,
                   connects>>

(* unixsocket_send, the len == 0 check                                    *)
Send(t, s, k) ==
    /\ CanCall(t, s)
    /\ SumFunction(sentTo[s]) < MaxBytes
    /\ Enter(t, s)
    /\ IF k = 0 THEN UNCHANGED <<pc, sock, len>>
                ELSE Begin(t, "send", s, k)
    /\ UNCHANGED <<alive, everAlloc, holder, name, listening, acceptQ, conn,
                   bufIn, disconnected, tstate, reason, sentTo, recvFrom,
                   connects>>

\* Mutant: the MIN(free, len) cap is lost.
WrittenUncapped(free, k) == k

\* smaller = MIN(free, len), all of which fifobuffer_enqueue writes
Written(free, k) == Min2(free, k)

\* Mutant: send reports the requested length instead of the bytes written.
SendResultLen(written, k) == k

\* return written;
SendResult(written, k) == written

\* Mutant: send never resumes a receiver asleep in recv.
WakeReceiverDropped(p) == tstate

\* resume the peer's last thread if it sleeps in unixsocket_recv
WakeReceiver(p) == ResumeIf(lastThread[p], "recv")

(* unixsocket_send, one pass of the while (TRUE) loop                      *)
SendTry(t) ==
    /\ Runs(t, "send")
    /\ LET s == sock[t]
           p == conn[s]
       IN
       IF p = Null
       THEN /\ Return(t)
            /\ UNCHANGED <<bufIn, tstate, reason, sentTo>>
       ELSE LET free == Capacity - Len(bufIn[p]) IN
            IF free > 0
            THEN LET written == Written(free, len[t]) IN
                 /\ bufIn' = [bufIn EXCEPT ![p] = @ \o [i \in 1..written |-> s]]
                 /\ sentTo' = [sentTo EXCEPT ![s][p] =
                                   @ + SendResult(written, len[t])]
                 /\ tstate' = WakeReceiver(p)
                 /\ Return(t)
                 /\ UNCHANGED reason
            ELSE /\ Block(t, "send")
                 /\ UNCHANGED <<bufIn, sentTo, pc>>
    /\ UNCHANGED <<alive, everAlloc, holder, name, listening, acceptQ, conn,
                   disconnected, lastThread, sock, len, recvFrom, connects>>

(* unixsocket_recv, the len == 0 check                                    *)
Recv(t, s, k) ==
    /\ CanCall(t, s)
    /\ Enter(t, s)
    /\ IF k = 0 THEN UNCHANGED <<pc, sock, len>>
                ELSE Begin(t, "recv", s, k)
    /\ UNCHANGED <<alive, everAlloc, holder, name, listening, acceptQ, conn,
                   bufIn, disconnected, tstate, reason, sentTo, recvFrom,
                   connects>>

\* Mutant: recv never resumes a sender asleep in send.
WakeSenderDropped(p) == tstate

\* resume the peer's last thread if it sleeps in unixsocket_send
WakeSender(p) == ResumeIf(lastThread[p], "send")

(* unixsocket_recv, one pass of the while (TRUE) loop                      *)
RecvTry(t) ==
    /\ Runs(t, "recv")
    /\ LET s == sock[t] IN
       CASE disconnected[s] ->
              \* return 0
              /\ Return(t)
              /\ UNCHANGED <<bufIn, tstate, reason, recvFrom>>
         [] bufIn[s] # <<>> ->
              LET read == Min2(Len(bufIn[s]), len[t])
                  got  == SubSeq(bufIn[s], 1, read)
                  peer == conn[s]
              IN
              /\ bufIn' = [bufIn EXCEPT ![s] = SubSeq(@, read + 1, Len(@))]
              /\ recvFrom' = [recvFrom EXCEPT ![s] =
                                [p \in Sockets |-> @[p] + CountOf(got, p)]]
              \* the code dereferences socket->connection here unchecked
              /\ tstate' = IF peer = Null THEN tstate ELSE WakeSender(peer)
              /\ Return(t)
              /\ UNCHANGED reason
         [] OTHER ->
              /\ Block(t, "recv")
              /\ UNCHANGED <<bufIn, recvFrom, pc>>
    /\ UNCHANGED <<alive, everAlloc, holder, name, listening, acceptQ, conn,
                   disconnected, lastThread, sock, len, sentTo, connects>>

\* unixsocket_closing: kfree(custom_socket) takes the UnixSocket, and the
\* name with it, out of every later bind/connect scan.
Closing(s) == name' = [name EXCEPT ![s] = NoName]

\* The teardown of the closed socket's live peer: connection = NULL,
\* disconnected = TRUE, and its last_thread resumed, in one step.
Disconnect(p) ==
    /\ conn' = [conn EXCEPT ![p] = Null]
    /\ disconnected' = [disconnected EXCEPT ![p] = TRUE]
    /\ tstate' = IF lastThread[p] # Null
                 THEN [tstate EXCEPT ![lastThread[p]] = "RUN"]
                 ELSE tstate

(* close(fd): the generic socket teardown (spec 4.6, 5) followed by       *)
(* unixsocket_closing.  The peer is marked disconnected, loses its         *)
(* connection, and a thread it has blocked is resumed.                    *)
Close(t, s) ==
    /\ CanCall(t, s)
    /\ alive' = alive \ {s}
    /\ holder' = [holder EXCEPT ![s] = {}]
    /\ Closing(s)
    /\ LET p == conn[s] IN
       IF p # Null /\ p \in alive
       THEN Disconnect(p)
       ELSE UNCHANGED <<conn, disconnected, tstate>>
    /\ UNCHANGED <<everAlloc, listening, acceptQ, bufIn, lastThread, pc, sock,
                   len, reason, sentTo, recvFrom, connects>>

-----------------------------------------------------------------------------
Call(t) ==
    \E s \in Sockets :
        \/ \E n \in Names \cup {NoName} : Bind(t, s, n) \/ Connect(t, s, n)
        \/ Listen(t, s)
        \/ Accept(t, s)
        \/ \E k \in Lens : Send(t, s, k) \/ Recv(t, s, k)
        \/ Close(t, s)

Step(t) == AcceptTry(t) \/ ConnectDone(t) \/ SendTry(t) \/ RecvTry(t)

Next == \E t \in Threads : Call(t) \/ Step(t)

\* The scheduler is preemptive and round-robin: a thread in state RUN is
\* eventually given the CPU, so every loop pass of a runnable thread is
\* weakly fair.  System calls themselves are the user's choice: no fairness.
Fairness == \A t \in Threads : WF_vars(Step(t))

Spec == Init /\ [][Next]_vars /\ Fairness

-----------------------------------------------------------------------------
TypeOK ==
    /\ alive \subseteq everAlloc /\ everAlloc \subseteq Sockets
    /\ holder \in [Sockets -> SUBSET Threads]
    /\ name \in [Sockets -> Names \cup {NoName}]
    /\ listening \in [Sockets -> BOOLEAN]
    /\ acceptQ \in [Sockets -> Seq(Sockets)]
    /\ conn \in [Sockets -> Sockets \cup {Null}]
    /\ bufIn \in [Sockets -> Seq(Sockets)]
    /\ \A s \in Sockets : Len(bufIn[s]) <= Capacity
    /\ disconnected \in [Sockets -> BOOLEAN]
    /\ lastThread \in [Sockets -> Threads \cup {Null}]
    /\ pc \in [Threads -> Calls]
    /\ sock \in [Threads -> Sockets \cup {Null}]
    /\ tstate \in [Threads -> {"RUN", "WAITIO"}]
    /\ reason \in [Threads -> {"none", "accept", "send", "recv"}]
    /\ connects \in 0..MaxConnects

\* accept crosslinks both ends: whenever a live socket names a live peer,
\* the peer names it back, so send on either end fills the other's FIFO.
PairedSymmetric ==
    \A s \in alive : conn[s] \in alive => conn[conn[s]] = s

\* No wakeup is lost: a thread asleep in recv has nothing to read and no
\* EOF to report, and a thread asleep in send still faces a full peer FIFO.
\* (send wakes the receiver, recv wakes the sender, teardown wakes both.)
NoLostWakeup ==
    \A t \in Threads :
        /\ WaitingIn(t, "recv") =>
              bufIn[sock[t]] = <<>> /\ ~disconnected[sock[t]]
        /\ WaitingIn(t, "send") =>
              /\ conn[sock[t]] # Null
              /\ Len(bufIn[conn[sock[t]]]) = Capacity

\* Every byte a send reported written to s is either still in s's FIFO or
\* was handed out by a recv on s: send's return value, the FIFO and recv's
\* return value agree (spec 8, invariant 5).
BytesConserved ==
    \A p, s \in Sockets :
        sentTo[p][s] = recvFrom[s][p] + CountOf(bufIn[s], p)

\* A connector at the head of a listener's accept queue, while a thread is
\* inside accept on that listener, is eventually paired: connect's resume
\* of the sleeping acceptor and accept's dequeue never leave it behind.
PendingConnectAccepted ==
    \A s, l \in Sockets :
        (/\ acceptQ[l] # <<>> /\ Head(acceptQ[l]) = s
         /\ \E a \in Threads : pc[a] = "accept" /\ sock[a] = l)
        ~> conn[s] # Null

\* recv reports end of file (returns 0) only once the FIFO has been
\* drained (spec 4.6: "recv returns 0 only after disconnected is observed
\* with an empty FIFO").
EofOnlyWhenDrained ==
    [][\A t \in Threads :
         (RecvTry(t) /\ disconnected[sock[t]]) => bufIn[sock[t]] = <<>>]_vars


=============================================================================
