--------------------------- MODULE MC_UnixSocket ---------------------------
(***************************************************************************)
(* Instances of UnixSocket for TLC.  t1 and t2 are two threads; s1 is     *)
(* held by t1 (the server), s2 by t2 (the client); s3, s4 are the sockets *)
(* accept may create.                                                      *)
(***************************************************************************)
EXTENDS UnixSocket, TLC

CONSTANTS t1, t2, t3, s1, s2, s3, s4, n1

\* n1 is a short name with no '%': sprintf stores it unchanged
PlainNames == [x \in Names |-> x]

\* one thread per socket
HolderOwn == (s1 :> {t1}) @@ (s2 :> {t2})

\* s2 is shared by two client threads t2, t3 (threads of one process
\* share its fds); t1 serves s1
HolderShared == (s1 :> {t1}) @@ (s2 :> {t2, t3})

\* accept can create one socket only
SocketsSmall == {s1, s2, s3}
=============================================================================
