--------------------------- MODULE TcpEventsProofs ---------------------------
(***************************************************************************)
(* Proofs about TcpEvents for every value of its constants.                *)
(***************************************************************************)
EXTENDS TcpEvents, SequenceTheorems, TLAPS

(* The inductive invariant behind type correctness: the types, and what    *)
(* each thread's call record holds at each point of a hook.                *)
IInv == TypeOK /\ CallsWellFormed

(* The strengthening behind EveryConnectionOwned: a descriptor the host    *)
(* holds is open in the kernel; a thread inside tcp_ev_socket owns a       *)
(* descriptor that is open, not yet handed to the host and not in any      *)
(* other thread's socket hook; once past the stale check, its slot is      *)
(* empty.                                                                  *)
SocketHook == {"socket", "socket_put"}
OwnInv ==
    /\ known \subseteq kopen
    /\ \A t \in Threads : pc[t] \in SocketHook =>
          /\ call[t].fd \in kopen \ known
          /\ \A u \in Threads \ {t} : pc[u] \in SocketHook => call[u].fd # call[t].fd
          /\ pc[t] = "socket_put" => table[call[t].fd] = None
    /\ EveryConnectionOwned

(* The types the bookkeeping helpers produce. *)
LEMMA EventType ==
    ASSUME NEW r \in Conn, NEW k \in OpKinds \cup {"socket", "close", "tcp_info"},
           NEW det \in BOOLEAN
    PROVE  MkEvent(r, k, det) \in Event
BY DEF MkEvent, Event, Conn, OpKinds, SendKinds, RecvKinds

LEMMA PushType ==
    ASSUME NEW r \in Conn, NEW e \in Event
    PROVE  Push(r, e) \in Conn
<1>1. Append(r.mem, e) \in Seq(Event)
  BY AppendProperties DEF Conn
<1>2. r.count + 1 \in Nat
  BY DEF Conn
<1>3. QED
  BY <1>1, <1>2, Zenon DEF Push, Conn

LEMMA DumpedType ==
    ASSUME NEW r \in Conn
    PROVE  Dumped(r) \in Conn
<1>1. << >> \in Seq(Event)
  BY EmptySeq
<1>2. QED
  BY <1>1, Zenon DEF Dumped, Conn

LEMMA PiecesType ==
    ASSUME NEW r \in Conn, NEW final \in BOOLEAN
    PROVE  Pieces(r, final) \in Seq(Piece)
<1>1. ASSUME NEW e \in Event, NEW n \in Nat PROVE PieceOf(e, n, final) \in Piece
  BY Zenon DEF PieceOf, Piece
<1>2. \A i \in 1 .. Len(r.mem) : r.mem[i] \in Event
  BY DEF Conn
<1>3. r.count \in Nat
  BY DEF Conn
<1>4. \A i \in 1 .. Len(r.mem) : PieceOf(r.mem[i], r.count, final) \in Piece
  BY <1>1, <1>2, <1>3
<1>5. Len(r.mem) \in Nat
  BY DEF Conn
<1>6. QED
  BY <1>4, <1>5 DEF Pieces
(* The three outcomes of tcp_dump_json keep the record, file and bracket  *)
(* arrays typed.                                                           *)
LEMMA DumpJsonType ==
    ASSUME TypeOK, NEW c \in ConnIds, NEW r \in Conn, NEW final \in BOOLEAN,
           DumpJson(c, r, final)
    PROVE  /\ con' \in [ConnIds -> Conn]
           /\ file' \in [ConnIds -> Seq(Piece)]
           /\ fileEnd' \in [ConnIds -> BOOLEAN]
<1>1. Pieces(r, final) \in Seq(Piece)
  BY PiecesType
<1>2. Dumped(r) \in Conn
  BY DumpedType
<1>3. file[c] \in Seq(Piece)
  BY DEF TypeOK
<1>4. CASE /\ r.dir
           /\ file' = [file EXCEPT ![c] = @ \o Pieces(r, final)]
           /\ fileEnd' = [fileEnd EXCEPT ![c] = @ \/ final]
           /\ con' = [con EXCEPT ![c] = Dumped(r)]
  <2>1. file[c] \o Pieces(r, final) \in Seq(Piece)
    BY <1>1, <1>3, ConcatProperties
  <2>2. QED
    BY <1>2, <1>4, <2>1 DEF TypeOK
<1>5. CASE /\ ~r.dir \/ IOFailures
           /\ con' = [con EXCEPT ![c] = r]
           /\ UNCHANGED <<file, fileEnd>>
  BY <1>5 DEF TypeOK
<1>6. CASE /\ r.dir /\ CloseFailures
           /\ \E k \in 0 .. Len(r.mem) :
                 file' = [file EXCEPT ![c] = @ \o SubSeq(Pieces(r, final), 1, k)]
           /\ con' = [con EXCEPT ![c] = Dumped(r)]
           /\ UNCHANGED fileEnd
  <2>1. PICK k \in 0 .. Len(r.mem) :
             file' = [file EXCEPT ![c] = @ \o SubSeq(Pieces(r, final), 1, k)]
    BY <1>6
  <2>2. Len(Pieces(r, final)) = Len(r.mem)
    BY DEF Pieces, Conn
  <2>3. SubSeq(Pieces(r, final), 1, k) \in Seq(Piece)
    BY <1>1, <2>2, SubSeqProperties
  <2>4. file[c] \o SubSeq(Pieces(r, final), 1, k) \in Seq(Piece)
    BY <1>3, <2>3, ConcatProperties
  <2>5. QED
    BY <1>2, <1>6, <2>1, <2>4 DEF TypeOK
<1>7. QED
  BY <1>4, <1>5, <1>6 DEF DumpJson

(* The locked part of POSTLUDE keeps the arrays typed. *)
LEMMA PushAndMaybeDumpType ==
    ASSUME TypeOK, NEW c \in ConnIds, NEW r \in Conn, NEW e \in Event,
           PushAndMaybeDump(c, r, e)
    PROVE  /\ con' \in [ConnIds -> Conn]
           /\ file' \in [ConnIds -> Seq(Piece)]
           /\ fileEnd' \in [ConnIds -> BOOLEAN]
           /\ hist' \in [ConnIds -> Seq(Event)]
<1>1. Push(r, e) \in Conn
  BY PushType
<1>2. Append(hist[c], e) \in Seq(Event)
  BY AppendProperties DEF TypeOK
<1>3. hist' \in [ConnIds -> Seq(Event)]
  BY <1>2 DEF PushAndMaybeDump, TypeOK
<1>4. CASE ShouldDumpJson(Push(r, e))
  BY <1>1, <1>3, <1>4, DumpJsonType DEF PushAndMaybeDump
<1>5. CASE ~ShouldDumpJson(Push(r, e))
  BY <1>1, <1>3, <1>5 DEF PushAndMaybeDump, TypeOK
<1>6. QED
  BY <1>4, <1>5

(* tcp_ev_close keeps the table and the arrays typed. *)
LEMMA TcpEvCloseType ==
    ASSUME TypeOK, NEW f \in Fds, NEW det \in BOOLEAN, TcpEvClose(f, det)
    PROVE  /\ table' \in [Fds -> ConnIds \cup {None}]
           /\ con' \in [ConnIds -> Conn]
           /\ file' \in [ConnIds -> Seq(Piece)]
           /\ fileEnd' \in [ConnIds -> BOOLEAN]
           /\ hist' \in [ConnIds -> Seq(Event)]
           /\ freed' \subseteq ConnIds
<1>1. CASE table[f] = None
  BY <1>1 DEF TcpEvClose, TypeOK
<1>2. CASE table[f] # None
  <2> DEFINE c == table[f]
             e == MkEvent(con[c], "close", det)
  <2>1. c \in ConnIds /\ con[c] \in Conn
    BY <1>2 DEF TypeOK
  <2>2. e \in Event
    BY <2>1, EventType
  <2>3. Push(con[c], e) \in Conn
    BY <2>1, <2>2, PushType
  <2>4. CloseConnection(c, det) /\ table' = [table EXCEPT ![f] = None]
    BY <1>2 DEF TcpEvClose
  <2>5. /\ con' \in [ConnIds -> Conn]
        /\ file' \in [ConnIds -> Seq(Piece)]
        /\ fileEnd' \in [ConnIds -> BOOLEAN]
    BY <2>1, <2>3, <2>4, DumpJsonType DEF CloseConnection
  <2>6. Append(hist[c], e) \in Seq(Event)
    BY <2>1, <2>2, AppendProperties DEF TypeOK
  <2>7. QED
    BY <2>1, <2>4, <2>5, <2>6 DEF CloseConnection, TypeOK
<1>3. QED
  BY <1>1, <1>2

LEMMA AccountType ==
    ASSUME NEW r \in Conn, NEW k \in OpKinds, NEW n \in Nat, NEW ok \in BOOLEAN
    PROVE  Account(r, k, n, ok) \in Conn
<1>1. /\ (IF k \in SendKinds THEN r.sent + n ELSE r.sent) \in Nat
      /\ (IF k \in RecvKinds THEN r.recvd + n ELSE r.recvd) \in Nat
      /\ (r.bound \/ (k = "bind" /\ ok)) \in BOOLEAN
  BY DEF Conn
<1>2. QED
  BY <1>1, Zenon DEF Account, Conn

LEMMA InfoResetType ==
    ASSUME NEW r \in Conn, NEW m \in Nat
    PROVE  [r EXCEPT !.infoBytes = r.sent + r.recvd, !.infoMicros = m] \in Conn
<1>1. r.sent + r.recvd \in Nat
  BY DEF Conn
<1>2. QED
  BY <1>1, Zenon DEF Conn

LEMMA NoCallType == NoCall \in Call
BY DEF NoCall, Call, None

LEMMA NoConnType == NoConn \in Conn
<1>1. << >> \in Seq(Event)
  BY EmptySeq
<1>2. QED
  BY <1>1, Zenon DEF NoConn, Conn

(* POSTLUDE keeps the invariant: a thread that goes on to sample tcp_info  *)
(* keeps the descriptor and the kind it had.                               *)
LEMMA PostludeType ==
    ASSUME IInv, NEW t \in Threads, pc[t] \in {"op", "tcp_info"},
           NEW c \in ConnIds, NEW r \in Conn, NEW e \in Event,
           Postlude(t, c, r, e)
    PROVE  /\ con' \in [ConnIds -> Conn]
           /\ file' \in [ConnIds -> Seq(Piece)]
           /\ fileEnd' \in [ConnIds -> BOOLEAN]
           /\ hist' \in [ConnIds -> Seq(Event)]
           /\ pc' \in [Threads -> PCs]
           /\ call' \in [Threads -> Call]
           /\ \A u \in Threads : (pc'[u] = pc[u] /\ call'[u] = call[u])
                               \/ (u = t /\ pc'[u] = "idle")
                               \/ (u = t /\ pc'[u] = "tcp_info" /\ call'[u] = call[u])
<1>1. PushAndMaybeDump(c, r, e)
  BY DEF Postlude
<1>2. TypeOK
  BY DEF IInv
<1>3. /\ con' \in [ConnIds -> Conn]
      /\ file' \in [ConnIds -> Seq(Piece)]
      /\ fileEnd' \in [ConnIds -> BOOLEAN]
      /\ hist' \in [ConnIds -> Seq(Event)]
  BY <1>1, <1>2, PushAndMaybeDumpType
<1>4. CASE DumpTcpInfo(Push(r, e), e.type)
  <2>1. pc' = [pc EXCEPT ![t] = "tcp_info"] /\ call' = call
    BY <1>4 DEF Postlude
  <2>2. pc' \in [Threads -> PCs] /\ call' \in [Threads -> Call]
    BY <1>2, <2>1 DEF TypeOK, PCs
  <2>3. \A u \in Threads : (pc'[u] = pc[u] /\ call'[u] = call[u])
                          \/ (u = t /\ pc'[u] = "tcp_info" /\ call'[u] = call[u])
    BY <1>2, <2>1 DEF TypeOK
  <2>4. QED
    BY <1>3, <2>2, <2>3
<1>5. CASE ~DumpTcpInfo(Push(r, e), e.type)
  <2>1. pc' = [pc EXCEPT ![t] = "idle"] /\ call' = [call EXCEPT ![t] = NoCall]
    BY <1>5 DEF Postlude
  <2>2. pc' \in [Threads -> PCs] /\ call' \in [Threads -> Call]
    BY <1>2, <2>1, NoCallType DEF TypeOK, PCs
  <2>3. \A u \in Threads : (pc'[u] = pc[u] /\ call'[u] = call[u])
                          \/ (u = t /\ pc'[u] = "idle")
    BY <1>2, <2>1 DEF TypeOK
  <2>4. QED
    BY <1>3, <2>2, <2>3
<1>6. QED
  BY <1>4, <1>5

-----------------------------------------------------------------------------
(* Each action preserves IInv. *)

LEMMA FdsInCallFd == Fds \subseteq 0 .. NFds \cup {None}
BY ConstAssumption DEF Fds

LEMMA HostSocketInv ==
    ASSUME IInv, NEW t \in Threads, HostSocket(t)
    PROVE  IInv'
<1>1. PICK f \in Fds \ kopen :
             /\ kopen' = kopen \cup {f}
             /\ ksock' = [ksock EXCEPT ![f] = nsock + 1]
             /\ nsock' = nsock + 1
             /\ call' = [call EXCEPT ![t] = [NoCall EXCEPT !.fd = f]]
  BY DEF HostSocket
<1>2. [NoCall EXCEPT !.fd = f] \in Call
  BY FdsInCallFd, NoCallType, Zenon DEF Call
<1>3. TypeOK'
  <2>1. /\ pc' = [pc EXCEPT ![t] = "socket"]
        /\ calls' = calls + 1
        /\ UNCHANGED <<known, table, con, file, fileEnd, hist, freed, leaked,
                       counter, initialized, dirOk, now, exited>>
    BY DEF HostSocket
  <2>2. calls' \in 0 .. MaxCalls
    BY <2>1, ConstAssumption DEF HostSocket, IInv, TypeOK
  <2>3. /\ kopen' \subseteq Fds
        /\ ksock' \in [Fds -> Nat]
        /\ nsock' \in Nat
        /\ call' \in [Threads -> Call]
        /\ pc' \in [Threads -> PCs]
    BY <1>1, <1>2, <2>1 DEF IInv, TypeOK, PCs
  <2>4. QED
    BY <2>1, <2>2, <2>3 DEF IInv, TypeOK
<1>4. CallsWellFormed'
  BY <1>1, <1>3 DEF IInv, TypeOK, HostSocket, CallsWellFormed, NoCall
<1>5. QED
  BY <1>3, <1>4 DEF IInv

LEMMA HostOpInv ==
    ASSUME IInv, NEW t \in Threads, NEW f \in Fds, NEW k \in HostKinds,
           NEW n \in Sizes, NEW ok \in BOOLEAN, HostOp(t, f, k, n, ok)
    PROVE  IInv'
<1>1. [fd |-> f, kind |-> k, bytes |-> n, ok |-> ok] \in Call
  BY ConstAssumption DEF Call, Fds, OpKinds
<1>2. TypeOK'
  BY <1>1, ConstAssumption DEF IInv, TypeOK, HostOp, PCs
<1>3. CallsWellFormed'
  BY <1>2, ConstAssumption DEF IInv, TypeOK, HostOp, CallsWellFormed
<1>4. QED
  BY <1>2, <1>3 DEF IInv

LEMMA HostCloseInv ==
    ASSUME IInv, NEW t \in Threads, NEW f \in Fds, HostClose(t, f)
    PROVE  IInv'
<1>1. [NoCall EXCEPT !.fd = f] \in Call
  BY FdsInCallFd, NoCallType, Zenon DEF Call
<1>2. TypeOK'
  BY <1>1, ConstAssumption DEF IInv, TypeOK, HostClose, PCs
<1>3. CallsWellFormed'
  BY <1>2 DEF IInv, TypeOK, HostClose, CallsWellFormed, NoCall
<1>4. QED
  BY <1>2, <1>3 DEF IInv

LEMMA HostCloseUnobservedInv ==
    ASSUME IInv, NEW t \in Threads, NEW f \in Fds, HostCloseUnobserved(t, f)
    PROVE  IInv'
<1>1. TypeOK'
  BY ConstAssumption DEF IInv, TypeOK, HostCloseUnobserved
<1>2. CallsWellFormed'
  BY DEF IInv, HostCloseUnobserved, CallsWellFormed
<1>3. QED
  BY <1>1, <1>2 DEF IInv

LEMMA HostExitInv ==
    ASSUME IInv, NEW t \in Threads, HostExit(t)
    PROVE  IInv'
<1>0. 0 \in 0 .. NFds \cup {None}
  BY ConstAssumption
<1>1. [NoCall EXCEPT !.fd = 0] \in Call
  BY <1>0, NoCallType, Zenon DEF Call
<1>2. TypeOK'
  BY <1>1 DEF IInv, TypeOK, HostExit, PCs
<1>3. CallsWellFormed'
  BY <1>2, ConstAssumption DEF IInv, TypeOK, HostExit, CallsWellFormed, NoCall
<1>4. QED
  BY <1>2, <1>3 DEF IInv

LEMMA TickInv ==
    ASSUME IInv, Tick
    PROVE  IInv'
BY DEF IInv, TypeOK, Tick, CallsWellFormed

(* A thread that stays where it is, or returns idle, keeps CallsWellFormed. *)
LEMMA CallsFrame ==
    ASSUME CallsWellFormed, NEW t \in Threads,
           pc' \in [Threads -> PCs], call' \in [Threads -> Call],
           \A u \in Threads : (pc'[u] = pc[u] /\ call'[u] = call[u])
                             \/ (u = t /\ pc'[u] = "idle")
                             \/ (u = t /\ pc'[u] = "tcp_info" /\ call'[u] = call[u]
                                 /\ pc[u] \in {"op", "tcp_info"})
    PROVE  CallsWellFormed'
BY DEF CallsWellFormed

LEMMA SocketCheckInv ==
    ASSUME IInv, NEW t \in Threads, SocketCheck(t)
    PROVE  IInv'
<1> DEFINE f == call[t].fd
<1>1. f \in Fds
  BY DEF SocketCheck, IInv, CallsWellFormed
<1>2. /\ table' \in [Fds -> ConnIds \cup {None}]
      /\ con' \in [ConnIds -> Conn]
      /\ file' \in [ConnIds -> Seq(Piece)]
      /\ fileEnd' \in [ConnIds -> BOOLEAN]
      /\ hist' \in [ConnIds -> Seq(Event)]
      /\ freed' \subseteq ConnIds
  <2>1. CASE IsPresent(f)
    BY <1>1, <2>1, TcpEvCloseType DEF SocketCheck, IInv
  <2>2. CASE ~IsPresent(f)
    BY <2>2 DEF SocketCheck, IInv, TypeOK
  <2>3. QED
    BY <2>1, <2>2
<1>3. initialized' \in BOOLEAN /\ dirOk' \in BOOLEAN
  BY DEF SocketCheck, InitTcpsnitch, IInv, TypeOK
<1>4. TypeOK'
  BY <1>2, <1>3 DEF SocketCheck, IInv, TypeOK, PCs
<1>5. CallsWellFormed'
  BY <1>1, <1>4 DEF SocketCheck, IInv, TypeOK, CallsWellFormed
<1>6. QED
  BY <1>4, <1>5 DEF IInv

LEMMA SocketPutInv ==
    ASSUME IInv, NEW t \in Threads, SocketPut(t)
    PROVE  IInv'
<1> DEFINE f == call[t].fd
           c == counter
<1>1. f \in Fds /\ c \in ConnIds
  BY ConstAssumption DEF SocketPut, IInv, CallsWellFormed, TypeOK, ConnIds
<1>2. PICK mk \in IF IOFailures THEN BOOLEAN ELSE {TRUE} :
         LET r == [NoConn EXCEPT !.dir = dirOk /\ mk, !.sock = ksock[f]]
             e == MkEvent(r, "socket", FALSE)
         IN /\ con' = [con EXCEPT ![c] = Push(r, e)]
            /\ hist' = [hist EXCEPT ![c] = <<e>>]
            /\ IF table[f] = None
               THEN /\ table' = [table EXCEPT ![f] = c]
                    /\ UNCHANGED leaked
               ELSE /\ leaked' = leaked \cup {c}
                    /\ UNCHANGED table
            /\ known' = known \cup {f}
  BY DEF SocketPut
<1> DEFINE r == [NoConn EXCEPT !.dir = dirOk /\ mk, !.sock = ksock[f]]
           e == MkEvent(r, "socket", FALSE)
<1>3. (dirOk /\ mk) \in BOOLEAN /\ ksock[f] \in Nat
  BY <1>1 DEF IInv, TypeOK
<1>4. r \in Conn
  BY <1>3, NoConnType, Zenon DEF Conn
<1>5. e \in Event
  BY <1>4, EventType
<1>6. Push(r, e) \in Conn /\ <<e>> \in Seq(Event)
  <2>1. Push(r, e) \in Conn
    BY <1>4, <1>5, PushType
  <2>2. <<e>> \in Seq(Event)
    <3>1. Append(<< >>, e) \in Seq(Event)
      BY <1>5, EmptySeq, AppendProperties
    <3>2. Append(<< >>, e) = <<e>>
      OBVIOUS
    <3>3. QED
      BY <3>1, <3>2
  <2>3. QED
    BY <2>1, <2>2
<1>7. /\ con' \in [ConnIds -> Conn]
      /\ hist' \in [ConnIds -> Seq(Event)]
      /\ table' \in [Fds -> ConnIds \cup {None}]
      /\ leaked' \subseteq ConnIds
      /\ known' \subseteq Fds
  BY <1>1, <1>2, <1>6 DEF IInv, TypeOK
<1>8. counter' \in 0 .. MaxCalls
  BY ConstAssumption DEF SocketPut, AllocId, IInv, TypeOK
<1>9. TypeOK'
  BY <1>7, <1>8, NoCallType DEF SocketPut, IInv, TypeOK, PCs
<1>10. CallsWellFormed'
  BY <1>9, CallsFrame DEF SocketPut, IInv, TypeOK
<1>11. QED
  BY <1>9, <1>10 DEF IInv

(* TCP_EV_PRELUDE finding no record keeps the invariant. *)
LEMMA NoRecordInv ==
    ASSUME IInv, NEW t \in Threads, NoRecord(t),
           UNCHANGED <<kopen, ksock, nsock, known, table, freed, leaked, counter,
                       initialized, dirOk, now, calls, exited>>
    PROVE  IInv'
<1>1. TypeOK'
  BY NoCallType DEF NoRecord, IInv, TypeOK, PCs
<1>2. QED
  BY <1>1, CallsFrame DEF NoRecord, IInv, TypeOK

LEMMA OpHookInv ==
    ASSUME IInv, NEW t \in Threads, OpHook(t)
    PROVE  IInv'
<1> DEFINE c == table[call[t].fd]
           k == call[t].kind
<1>1. /\ call[t].fd \in Fds /\ k \in OpKinds
      /\ call[t].bytes \in Nat /\ call[t].ok \in BOOLEAN
  BY DEF OpHook, IInv, CallsWellFormed, TypeOK, Call
<1>2. UNCHANGED <<kopen, ksock, nsock, known, table, freed, leaked, counter,
                  initialized, dirOk, now, calls, exited>>
  BY DEF OpHook
<1>3. CASE c = None
  BY <1>2, <1>3, NoRecordInv DEF OpHook
<1>4. CASE c # None
  <2>1. c \in ConnIds /\ con[c] \in Conn
    BY <1>1, <1>4 DEF IInv, TypeOK
  <2>2. Account(con[c], k, call[t].bytes, call[t].ok) \in Conn
    BY <1>1, <2>1, AccountType
  <2>3. MkEvent(con[c], k, FALSE) \in Event
    BY <1>1, <2>1, EventType
  <2>4. Postlude(t, c, Account(con[c], k, call[t].bytes, call[t].ok),
                 MkEvent(con[c], k, FALSE))
    BY <1>4 DEF OpHook
  <2>5. pc[t] \in {"op", "tcp_info"}
    BY DEF OpHook
  <2>6. /\ con' \in [ConnIds -> Conn]
        /\ file' \in [ConnIds -> Seq(Piece)]
        /\ fileEnd' \in [ConnIds -> BOOLEAN]
        /\ hist' \in [ConnIds -> Seq(Event)]
        /\ pc' \in [Threads -> PCs]
        /\ call' \in [Threads -> Call]
        /\ \A u \in Threads : (pc'[u] = pc[u] /\ call'[u] = call[u])
                               \/ (u = t /\ pc'[u] = "idle")
                               \/ (u = t /\ pc'[u] = "tcp_info" /\ call'[u] = call[u])
    BY <2>1, <2>2, <2>3, <2>4, <2>5, PostludeType
  <2>7. TypeOK'
    BY <1>2, <2>6 DEF IInv, TypeOK
  <2>8. CallsWellFormed'
    BY <2>5, <2>6, CallsFrame DEF IInv
  <2>9. QED
    BY <2>7, <2>8 DEF IInv
<1>5. QED
  BY <1>3, <1>4

LEMMA TcpInfoHookInv ==
    ASSUME IInv, NEW t \in Threads, TcpInfoHook(t)
    PROVE  IInv'
<1> DEFINE c == table[call[t].fd]
<1>1. call[t].fd \in Fds /\ now \in Nat
  BY DEF TcpInfoHook, IInv, CallsWellFormed, TypeOK
<1>2. UNCHANGED <<kopen, ksock, nsock, known, table, freed, leaked, counter,
                  initialized, dirOk, now, calls, exited>>
  BY DEF TcpInfoHook
<1>3. CASE c = None
  BY <1>2, <1>3, NoRecordInv DEF TcpInfoHook
<1>4. CASE c # None
  <2> DEFINE r == [con[c] EXCEPT !.infoBytes = con[c].sent + con[c].recvd,
                                 !.infoMicros = now]
  <2>1. c \in ConnIds /\ con[c] \in Conn
    BY <1>1, <1>4 DEF IInv, TypeOK
  <2>2. r \in Conn
    BY <1>1, <2>1, InfoResetType
  <2>3. MkEvent(con[c], "tcp_info", FALSE) \in Event
    BY <2>1, EventType
  <2>4. Postlude(t, c, r, MkEvent(con[c], "tcp_info", FALSE))
    BY <1>4 DEF TcpInfoHook
  <2>5. pc[t] \in {"op", "tcp_info"}
    BY DEF TcpInfoHook
  <2>6. /\ con' \in [ConnIds -> Conn]
        /\ file' \in [ConnIds -> Seq(Piece)]
        /\ fileEnd' \in [ConnIds -> BOOLEAN]
        /\ hist' \in [ConnIds -> Seq(Event)]
        /\ pc' \in [Threads -> PCs]
        /\ call' \in [Threads -> Call]
        /\ \A u \in Threads : (pc'[u] = pc[u] /\ call'[u] = call[u])
                               \/ (u = t /\ pc'[u] = "idle")
                               \/ (u = t /\ pc'[u] = "tcp_info" /\ call'[u] = call[u])
    BY <2>1, <2>2, <2>3, <2>4, <2>5, PostludeType
  <2>7. TypeOK'
    BY <1>2, <2>6 DEF IInv, TypeOK
  <2>8. CallsWellFormed'
    BY <2>5, <2>6, CallsFrame DEF IInv
  <2>9. QED
    BY <2>7, <2>8 DEF IInv
<1>5. QED
  BY <1>3, <1>4

LEMMA CloseHookInv ==
    ASSUME IInv, NEW t \in Threads, CloseHook(t)
    PROVE  IInv'
<1>1. call[t].fd \in Fds
  BY DEF CloseHook, IInv, CallsWellFormed
<1>2. /\ table' \in [Fds -> ConnIds \cup {None}]
      /\ con' \in [ConnIds -> Conn]
      /\ file' \in [ConnIds -> Seq(Piece)]
      /\ fileEnd' \in [ConnIds -> BOOLEAN]
      /\ hist' \in [ConnIds -> Seq(Event)]
      /\ freed' \subseteq ConnIds
  BY <1>1, TcpEvCloseType DEF CloseHook, IInv
<1>3. TypeOK'
  BY <1>2, NoCallType DEF CloseHook, IInv, TypeOK, PCs
<1>4. CallsWellFormed'
  BY <1>3, CallsFrame DEF CloseHook, IInv, TypeOK
<1>5. QED
  BY <1>3, <1>4 DEF IInv

LEMMA CleanupStepInv ==
    ASSUME IInv, NEW t \in Threads, CleanupStep(t)
    PROVE  IInv'
<1> DEFINE i == call[t].fd
<1>1. i \in 0 .. NFds
  BY DEF CleanupStep, IInv, CallsWellFormed
<1>2. UNCHANGED <<kopen, ksock, nsock, known, leaked, counter, initialized,
                  dirOk, now, calls>>
  BY DEF CleanupStep
<1>3. CASE InSweep(i)
  <2>1. i \in Fds /\ i + 1 \in 0 .. NFds
    BY <1>1, <1>3, ConstAssumption DEF InSweep, Fds
  <2>2. /\ IF IsPresent(i) THEN TcpEvClose(i, FALSE)
           ELSE UNCHANGED <<table, con, file, fileEnd, hist, freed>>
        /\ call' = [call EXCEPT ![t].fd = i + 1]
        /\ UNCHANGED <<pc, exited>>
    BY <1>3 DEF CleanupStep
  <2>3. /\ table' \in [Fds -> ConnIds \cup {None}]
        /\ con' \in [ConnIds -> Conn]
        /\ file' \in [ConnIds -> Seq(Piece)]
        /\ fileEnd' \in [ConnIds -> BOOLEAN]
        /\ hist' \in [ConnIds -> Seq(Event)]
        /\ freed' \subseteq ConnIds
    <3>1. CASE IsPresent(i)
      BY <2>1, <2>2, <3>1, TcpEvCloseType DEF IInv
    <3>2. CASE ~IsPresent(i)
      BY <2>2, <3>2 DEF IInv, TypeOK
    <3>3. QED
      BY <3>1, <3>2
  <2>4. [call[t] EXCEPT !.fd = i + 1] \in Call
    BY <2>1, Zenon DEF IInv, TypeOK, Call
  <2>5. /\ call' \in [Threads -> Call] /\ call'[t].fd = i + 1
        /\ \A u \in Threads \ {t} : call'[u] = call[u]
    BY <2>2, <2>4 DEF IInv, TypeOK
  <2>6. TypeOK'
    BY <1>2, <2>2, <2>3, <2>5 DEF IInv, TypeOK
  <2>7. CallsWellFormed'
    <3>1. pc[t] = "cleanup" /\ pc' = pc
      BY <2>2 DEF CleanupStep
    <3>2. QED
      BY <2>1, <2>5, <3>1 DEF IInv, CallsWellFormed
  <2>8. QED
    BY <2>6, <2>7 DEF IInv
<1>4. CASE ~InSweep(i)
  <2>1. /\ pc' = [pc EXCEPT ![t] = "done"]
        /\ exited' = TRUE
        /\ UNCHANGED <<table, con, file, fileEnd, hist, freed, call>>
    BY <1>4 DEF CleanupStep
  <2>2. TypeOK'
    BY <1>2, <2>1 DEF IInv, TypeOK, PCs
  <2>3. CallsWellFormed'
    BY <2>1, <2>2 DEF IInv, TypeOK, CallsWellFormed
  <2>4. QED
    BY <2>2, <2>3 DEF IInv
<1>5. QED
  BY <1>3, <1>4

-----------------------------------------------------------------------------
LEMMA InitInv == Init => IInv
<1> SUFFICES ASSUME Init PROVE IInv
  OBVIOUS
<1>1. NoConn \in Conn /\ NoCall \in Call /\ << >> \in Seq(Piece) /\ << >> \in Seq(Event)
  BY NoConnType, NoCallType, EmptySeq
<1>2. StartTime \in Nat
  BY ConstAssumption DEF StartTime
<1>3. /\ con \in [ConnIds -> Conn]
      /\ file \in [ConnIds -> Seq(Piece)]
      /\ fileEnd \in [ConnIds -> BOOLEAN]
      /\ hist \in [ConnIds -> Seq(Event)]
      /\ call \in [Threads -> Call]
      /\ table \in [Fds -> ConnIds \cup {None}]
      /\ ksock \in [Fds -> Nat]
      /\ pc \in [Threads -> PCs]
  BY <1>1 DEF Init, PCs
<1>5. 0 \in 0 .. MaxCalls
  BY ConstAssumption
<1>6. TypeOK
  BY <1>2, <1>3, <1>5 DEF Init, TypeOK
<1>4. CallsWellFormed
  BY DEF Init, CallsWellFormed
<1>7. QED
  BY <1>4, <1>6 DEF IInv

LEMMA NextInv == IInv /\ [Next]_vars => IInv'
<1> SUFFICES ASSUME IInv, [Next]_vars PROVE IInv'
  OBVIOUS
<1>1. ASSUME NEW t \in Threads, Host(t) PROVE IInv'
  BY <1>1, HostSocketInv, HostOpInv, HostCloseInv, HostCloseUnobservedInv,
     HostExitInv DEF Host
<1>2. ASSUME NEW t \in Threads, Library(t) PROVE IInv'
  BY <1>2, SocketCheckInv, SocketPutInv, OpHookInv, TcpInfoHookInv,
     CloseHookInv, CleanupStepInv DEF Library
<1>3. CASE Tick
  BY <1>3, TickInv
<1>4. CASE Terminated \/ UNCHANGED vars
  BY <1>4 DEF Terminated, vars, IInv, TypeOK, CallsWellFormed
<1>5. QED
  BY <1>1, <1>2, <1>3, <1>4 DEF Next

(* Type correctness: every reachable state of the event engine has the    *)
(* types TypeOK states, whatever the constants, so every connection id     *)
(* the descriptor table holds indexes a record, every event id is a        *)
(* natural number and every call a hook handles names a real descriptor.  *)
THEOREM TypeCorrect == Spec => []TypeOK
<1>1. Init => IInv
  BY InitInv
<1>2. IInv /\ [Next]_vars => IInv'
  BY NextInv
<1>3. IInv => TypeOK
  BY DEF IInv
<1>4. QED
  BY <1>1, <1>2, <1>3, PTL DEF Spec

-----------------------------------------------------------------------------
(* Ownership of connection records. *)

(* What tcp_ev_close does to the table and the freed set. *)
LEMMA TcpEvCloseEffect ==
    ASSUME TypeOK, NEW f \in Fds, NEW det \in BOOLEAN, TcpEvClose(f, det)
    PROVE  /\ table' = [table EXCEPT ![f] = None]
           /\ freed' = IF table[f] = None THEN freed ELSE freed \cup {table[f]}
<1>1. CASE table[f] = None
  <2>1. table = [table EXCEPT ![f] = None]
    BY <1>1 DEF TypeOK
  <2>2. QED
    BY <1>1, <2>1 DEF TcpEvClose
<1>2. CASE table[f] # None
  BY <1>2 DEF TcpEvClose, CloseConnection
<1>3. QED
  BY <1>1, <1>2

(* Emptying a slot and freeing the record it held keeps every record      *)
(* owned exactly once.                                                     *)
LEMMA CloseKeepsOwned ==
    ASSUME TypeOK, EveryConnectionOwned, NEW f \in Fds,
           table' = [table EXCEPT ![f] = None],
           freed' = IF table[f] = None THEN freed ELSE freed \cup {table[f]},
           leaked' = leaked, counter' = counter
    PROVE  EveryConnectionOwned'
<1>1. leaked' = {}
  BY DEF EveryConnectionOwned
<1>2. \A g, h \in Fds : table'[g] = table'[h] /\ table'[g] # None => g = h
  BY DEF EveryConnectionOwned, TypeOK
<1>3. ASSUME NEW c \in ConnIds
      PROVE  \/ c < counter' /\ (c \in freed') # (\E g \in Fds : table'[g] = c)
             \/ c >= counter' /\ c \notin freed' /\ \A g \in Fds : table'[g] # c
  <2>1. CASE table[f] = c
    <3>1. c < counter /\ c \notin freed
      BY <2>1 DEF EveryConnectionOwned, None, ConnIds
    <3>2. \A g \in Fds : table'[g] # c
      BY <2>1 DEF EveryConnectionOwned, TypeOK, None, ConnIds
    <3>3. c \in freed'
      BY <2>1 DEF None, ConnIds
    <3>4. QED
      BY <3>1, <3>2, <3>3
  <2>2. CASE table[f] # c
    <3>1. (c \in freed') = (c \in freed)
      BY <2>2
    <3>2. (\E g \in Fds : table'[g] = c) = (\E g \in Fds : table[g] = c)
      BY <2>2 DEF TypeOK, None, ConnIds
    <3>3. QED
      BY <3>1, <3>2 DEF EveryConnectionOwned
  <2>3. QED
    BY <2>1, <2>2
<1>4. QED
  BY <1>1, <1>2, <1>3 DEF EveryConnectionOwned

(* The steps that leave the table, the freed and leaked sets and the      *)
(* counter alone keep the ownership clause.                                *)
LEMMA OwnedFrame ==
    ASSUME EveryConnectionOwned, UNCHANGED <<table, freed, leaked, counter>>
    PROVE  EveryConnectionOwned'
BY DEF EveryConnectionOwned

LEMMA HostSocketOwn ==
    ASSUME IInv, OwnInv, NEW t \in Threads, HostSocket(t)
    PROVE  OwnInv'
<1>1. PICK f \in Fds \ kopen :
             /\ kopen' = kopen \cup {f}
             /\ call' = [call EXCEPT ![t] = [NoCall EXCEPT !.fd = f]]
  BY DEF HostSocket
<1>2. /\ pc' = [pc EXCEPT ![t] = "socket"] /\ pc[t] = "idle"
      /\ UNCHANGED <<known, table, freed, leaked, counter>>
  BY DEF HostSocket, Idle
<1>3. call'[t].fd = f /\ \A u \in Threads \ {t} : call'[u] = call[u]
  BY <1>1 DEF IInv, TypeOK, NoCall
<1>4. EveryConnectionOwned'
  BY <1>2, OwnedFrame DEF OwnInv
<1>5. QED
  BY <1>1, <1>2, <1>3, <1>4 DEF OwnInv, SocketHook, IInv, TypeOK

LEMMA HostOpOwn ==
    ASSUME IInv, OwnInv, NEW t \in Threads, NEW f \in Fds, NEW k \in HostKinds,
           NEW n \in Sizes, NEW ok \in BOOLEAN, HostOp(t, f, k, n, ok)
    PROVE  OwnInv'
<1>1. /\ pc' = [pc EXCEPT ![t] = "op"] /\ pc[t] = "idle"
      /\ \A u \in Threads \ {t} : call'[u] = call[u]
      /\ UNCHANGED <<kopen, known, table, freed, leaked, counter>>
  BY DEF HostOp, Idle, IInv, TypeOK
<1>2. EveryConnectionOwned'
  BY <1>1, OwnedFrame DEF OwnInv
<1>3. QED
  BY <1>1, <1>2 DEF OwnInv, SocketHook, IInv, TypeOK

LEMMA HostCloseOwn ==
    ASSUME IInv, OwnInv, NEW t \in Threads, NEW f \in Fds, HostClose(t, f)
    PROVE  OwnInv'
<1>1. /\ pc' = [pc EXCEPT ![t] = "close"] /\ pc[t] = "idle"
      /\ \A u \in Threads \ {t} : call'[u] = call[u]
      /\ f \in known /\ kopen' = kopen \ {f} /\ known' = known \ {f}
      /\ UNCHANGED <<table, freed, leaked, counter>>
  BY DEF HostClose, Idle, IInv, TypeOK
<1>2. EveryConnectionOwned'
  BY <1>1, OwnedFrame DEF OwnInv
<1>3. QED
  BY <1>1, <1>2 DEF OwnInv, SocketHook, IInv, TypeOK

LEMMA HostCloseUnobservedOwn ==
    ASSUME IInv, OwnInv, NEW t \in Threads, NEW f \in Fds,
           HostCloseUnobserved(t, f)
    PROVE  OwnInv'
<1>1. /\ f \in known /\ kopen' = kopen \ {f} /\ known' = known \ {f}
      /\ UNCHANGED <<table, freed, leaked, counter, pc, call>>
  BY DEF HostCloseUnobserved
<1>2. EveryConnectionOwned'
  BY <1>1, OwnedFrame DEF OwnInv
<1>3. QED
  BY <1>1, <1>2 DEF OwnInv, SocketHook

LEMMA HostExitOwn ==
    ASSUME IInv, OwnInv, NEW t \in Threads, HostExit(t)
    PROVE  OwnInv'
<1>1. /\ \/ pc' = [pc EXCEPT ![t] = "cleanup"]
         \/ pc' = [pc EXCEPT ![t] = "done"]
      /\ pc[t] = "idle"
      /\ \A u \in Threads \ {t} : call'[u] = call[u]
      /\ UNCHANGED <<kopen, known, table, freed, leaked, counter>>
  BY DEF HostExit, Idle, IInv, TypeOK
<1>2. EveryConnectionOwned'
  BY <1>1, OwnedFrame DEF OwnInv
<1>3. QED
  BY <1>1, <1>2 DEF OwnInv, SocketHook, IInv, TypeOK

LEMMA TickOwn ==
    ASSUME OwnInv, Tick
    PROVE  OwnInv'
BY DEF OwnInv, Tick, EveryConnectionOwned, SocketHook

(* The stale check of tcp_ev_socket, the close hook and a sweep iteration *)
(* all empty one slot, through tcp_ev_close or because it is empty.       *)
LEMMA SlotEmptied ==
    ASSUME TypeOK, NEW f \in Fds,
           IF IsPresent(f) THEN TcpEvClose(f, FALSE)
           ELSE UNCHANGED <<table, con, file, fileEnd, hist, freed>>
    PROVE  /\ table' = [table EXCEPT ![f] = None]
           /\ freed' = IF table[f] = None THEN freed ELSE freed \cup {table[f]}
<1>1. CASE IsPresent(f)
  BY <1>1, TcpEvCloseEffect
<1>2. CASE ~IsPresent(f)
  <2>1. table = [table EXCEPT ![f] = None]
    BY <1>2 DEF IsPresent, TypeOK
  <2>2. table' = table /\ freed' = freed
    BY <1>2
  <2>3. QED
    BY <1>2, <2>1, <2>2 DEF IsPresent
<1>3. QED
  BY <1>1, <1>2

(* An emptied slot leaves every other thread's socket hook as it was. *)
LEMMA SlotEmptiedHooks ==
    ASSUME TypeOK, OwnInv, NEW f \in Fds, NEW t \in Threads,
           \A u \in Threads \ {t} : pc[u] \in SocketHook => call[u].fd # f,
           table' = [table EXCEPT ![f] = None]
    PROVE  \A u \in Threads \ {t} :
              pc[u] = "socket_put" => table'[call[u].fd] = None
BY DEF OwnInv, SocketHook, TypeOK

LEMMA SocketCheckOwn ==
    ASSUME IInv, OwnInv, NEW t \in Threads, SocketCheck(t)
    PROVE  OwnInv'
<1> DEFINE f == call[t].fd
<1>1. f \in Fds /\ pc[t] = "socket"
  BY DEF SocketCheck, IInv, CallsWellFormed
<1>2. /\ table' = [table EXCEPT ![f] = None]
      /\ freed' = IF table[f] = None THEN freed ELSE freed \cup {table[f]}
  BY <1>1, SlotEmptied DEF SocketCheck, IInv
<1>3. /\ pc' = [pc EXCEPT ![t] = "socket_put"]
      /\ UNCHANGED <<kopen, known, leaked, counter, call>>
  BY DEF SocketCheck
<1>4. EveryConnectionOwned'
  BY <1>1, <1>2, <1>3, CloseKeepsOwned DEF IInv, OwnInv
<1>5. \A u \in Threads \ {t} : pc[u] \in SocketHook => call[u].fd # f
  BY <1>1 DEF OwnInv, SocketHook
<1>6. \A u \in Threads \ {t} : pc[u] = "socket_put" => table'[call[u].fd] = None
  BY <1>1, <1>2, <1>5, SlotEmptiedHooks DEF IInv
<1>7. table'[f] = None
  BY <1>1, <1>2 DEF IInv, TypeOK
<1>8. QED
  BY <1>1, <1>3, <1>4, <1>6, <1>7 DEF OwnInv, SocketHook, IInv, TypeOK

LEMMA CloseHookOwn ==
    ASSUME IInv, OwnInv, NEW t \in Threads, CloseHook(t)
    PROVE  OwnInv'
<1> DEFINE f == call[t].fd
<1>1. f \in Fds /\ pc[t] = "close"
  BY DEF CloseHook, IInv, CallsWellFormed
<1>2. /\ table' = [table EXCEPT ![f] = None]
      /\ freed' = IF table[f] = None THEN freed ELSE freed \cup {table[f]}
  BY <1>1, TcpEvCloseEffect DEF CloseHook, IInv
<1>3. /\ pc' = [pc EXCEPT ![t] = "idle"]
      /\ \A u \in Threads \ {t} : call'[u] = call[u]
      /\ UNCHANGED <<kopen, known, leaked, counter>>
  BY DEF CloseHook, IInv, TypeOK
<1>4. EveryConnectionOwned'
  BY <1>1, <1>2, <1>3, CloseKeepsOwned DEF IInv, OwnInv
<1>5. \A u \in Threads \ {t} : pc[u] = "socket_put" => table'[call[u].fd] = None
  BY <1>1, <1>2 DEF OwnInv, SocketHook, IInv, TypeOK
<1>6. QED
  BY <1>1, <1>3, <1>4, <1>5 DEF OwnInv, SocketHook, IInv, TypeOK

(* ra_put_elem into an empty slot of a fresh id keeps every record owned  *)
(* exactly once.                                                           *)
LEMMA PutKeepsOwned ==
    ASSUME TypeOK, EveryConnectionOwned, NEW f \in Fds, table[f] = None,
           counter \in ConnIds,
           table' = [table EXCEPT ![f] = counter],
           counter' = counter + 1, freed' = freed, leaked' = leaked
    PROVE  EveryConnectionOwned'
<1>0. counter \in Nat
  BY DEF TypeOK
<1>1. \A g \in Fds : table[g] # counter
  <2>1. \/ counter < counter /\ (counter \in freed) # (\E g \in Fds : table[g] = counter)
        \/ counter >= counter /\ counter \notin freed /\ \A g \in Fds : table[g] # counter
    BY DEF EveryConnectionOwned
  <2>2. ~(counter < counter)
    BY <1>0
  <2>3. QED
    BY <2>1, <2>2, Zenon
<1>2. \A g, h \in Fds : table'[g] = table'[h] /\ table'[g] # None => g = h
  BY <1>1 DEF EveryConnectionOwned, TypeOK, None, ConnIds
<1>3. ASSUME NEW c \in ConnIds
      PROVE  \/ c < counter' /\ (c \in freed') # (\E g \in Fds : table'[g] = c)
             \/ c >= counter' /\ c \notin freed' /\ \A g \in Fds : table'[g] # c
  <2>0. \/ c < counter /\ (c \in freed) # (\E g \in Fds : table[g] = c)
        \/ c >= counter /\ c \notin freed /\ \A g \in Fds : table[g] # c
    BY DEF EveryConnectionOwned
  <2>1. CASE c = counter
    <3>1. ~(c < counter) /\ c < counter'
      BY <1>0, <2>1
    <3>2. c \notin freed'
      BY <2>0, <3>1, Zenon
    <3>3. \E g \in Fds : table'[g] = c
      BY <2>1 DEF TypeOK
    <3>4. QED
      BY <3>1, <3>2, <3>3, Zenon
  <2>2. CASE c # counter
    <3>1. (\E g \in Fds : table'[g] = c) <=> (\E g \in Fds : table[g] = c)
      BY <2>2 DEF TypeOK, None, ConnIds
    <3>2. CASE c < counter
      <4>1. c < counter' /\ ~(c >= counter)
        BY <1>0, <3>2 DEF ConnIds
      <4>2. (c \in freed) # (\E g \in Fds : table[g] = c)
        BY <2>0, <4>1, Zenon
      <4>3. QED
        BY <3>1, <4>1, <4>2, Zenon
    <3>3. CASE c > counter
      <4>1. c >= counter' /\ ~(c < counter)
        BY <1>0, <3>3 DEF ConnIds
      <4>2. c \notin freed /\ \A g \in Fds : table[g] # c
        BY <2>0, <4>1, Zenon
      <4>3. QED
        BY <3>1, <4>1, <4>2, Zenon
    <3>4. c < counter \/ c > counter
      BY <1>0, <2>2 DEF ConnIds
    <3>5. QED
      BY <3>2, <3>3, <3>4, Zenon
  <2>3. QED
    BY <2>1, <2>2
<1>4. QED
  BY <1>2, <1>3 DEF EveryConnectionOwned

LEMMA SocketPutOwn ==
    ASSUME IInv, OwnInv, NEW t \in Threads, SocketPut(t)
    PROVE  OwnInv'
<1> DEFINE f == call[t].fd
<1>1. /\ f \in Fds /\ pc[t] = "socket_put" /\ table[f] = None
      /\ counter \in ConnIds
  BY ConstAssumption DEF SocketPut, OwnInv, SocketHook, IInv, CallsWellFormed,
                         TypeOK, ConnIds
<1>2. /\ table' = [table EXCEPT ![f] = counter]
      /\ leaked' = leaked
      /\ known' = known \cup {f}
  BY <1>1 DEF SocketPut
<1>3. /\ counter' = counter + 1
      /\ pc' = [pc EXCEPT ![t] = "idle"]
      /\ \A u \in Threads \ {t} : call'[u] = call[u]
      /\ UNCHANGED <<kopen, freed>>
  BY DEF SocketPut, AllocId, IInv, TypeOK
<1>4. EveryConnectionOwned'
  BY <1>1, <1>2, <1>3, PutKeepsOwned DEF IInv, OwnInv
<1>5. \A u \in Threads \ {t} : pc[u] \in SocketHook => call[u].fd # f
  BY <1>1 DEF OwnInv, SocketHook
<1>6. QED
  BY <1>1, <1>2, <1>3, <1>4, <1>5 DEF OwnInv, SocketHook, IInv, TypeOK

(* A step that moves no thread into a socket hook, hands out or takes     *)
(* back no descriptor and fills no slot keeps OwnInv, given that it keeps  *)
(* the ownership clause.                                                   *)
LEMMA OutsideSocketHookOwn ==
    ASSUME TypeOK, OwnInv, EveryConnectionOwned',
           UNCHANGED <<kopen, known>>,
           \A g \in Fds : table[g] = None => table'[g] = None,
           \A u \in Threads : pc'[u] \in SocketHook =>
                               pc'[u] = pc[u] /\ call'[u] = call[u]
    PROVE  OwnInv'
<1>1. ASSUME NEW t \in Threads, pc'[t] \in SocketHook
      PROVE  /\ call'[t].fd \in kopen' \ known'
             /\ \A u \in Threads \ {t} : pc'[u] \in SocketHook =>
                                         call'[u].fd # call'[t].fd
             /\ pc'[t] = "socket_put" => table'[call'[t].fd] = None
  <2>1. call[t].fd \in kopen \ known
    BY <1>1 DEF OwnInv
  <2>2. call[t].fd \in Fds
    BY <2>1 DEF TypeOK
  <2>3. QED
    BY <1>1, <2>1, <2>2 DEF OwnInv
<1>2. QED
  BY <1>1 DEF OwnInv

LEMMA OpHookOwn ==
    ASSUME IInv, OwnInv, NEW t \in Threads, OpHook(t)
    PROVE  OwnInv'
<1>1. UNCHANGED <<kopen, known, table, freed, leaked, counter>>
  BY DEF OpHook
<1>2. pc[t] \in {"op", "tcp_info"}
  BY DEF OpHook
<1>3. \A u \in Threads : (pc'[u] = pc[u] /\ call'[u] = call[u])
                        \/ (u = t /\ pc'[u] = "idle")
                        \/ (u = t /\ pc'[u] = "tcp_info" /\ call'[u] = call[u])
  <2> DEFINE c == table[call[t].fd]
  <2>1. CASE c = None
    BY <2>1 DEF OpHook, NoRecord, IInv, TypeOK
  <2>2. CASE c # None
    <3>1. c \in ConnIds /\ con[c] \in Conn /\ call[t].fd \in Fds
      BY <1>2, <2>2 DEF IInv, TypeOK, CallsWellFormed
    <3>2. QED
      <4>1. /\ call[t].kind \in OpKinds
            /\ call[t].bytes \in Nat /\ call[t].ok \in BOOLEAN
        BY <1>2 DEF IInv, CallsWellFormed, TypeOK, Call
      <4>2. QED
        BY <1>2, <2>2, <3>1, <4>1, AccountType, EventType, PostludeType DEF OpHook
  <2>3. QED
    BY <2>1, <2>2
<1>4. \A u \in Threads : pc'[u] \in SocketHook =>
                           pc'[u] = pc[u] /\ call'[u] = call[u]
  BY <1>3 DEF SocketHook
<1>5. EveryConnectionOwned'
  BY <1>1, OwnedFrame DEF OwnInv
<1>6. QED
  BY <1>1, <1>4, <1>5, OutsideSocketHookOwn DEF IInv

LEMMA TcpInfoHookOwn ==
    ASSUME IInv, OwnInv, NEW t \in Threads, TcpInfoHook(t)
    PROVE  OwnInv'
<1>1. UNCHANGED <<kopen, known, table, freed, leaked, counter>>
  BY DEF TcpInfoHook
<1>2. pc[t] \in {"op", "tcp_info"}
  BY DEF TcpInfoHook
<1>3. \A u \in Threads : (pc'[u] = pc[u] /\ call'[u] = call[u])
                        \/ (u = t /\ pc'[u] = "idle")
                        \/ (u = t /\ pc'[u] = "tcp_info" /\ call'[u] = call[u])
  <2> DEFINE c == table[call[t].fd]
  <2>1. CASE c = None
    BY <2>1 DEF TcpInfoHook, NoRecord, IInv, TypeOK
  <2>2. CASE c # None
    <3>1. c \in ConnIds /\ con[c] \in Conn /\ call[t].fd \in Fds
      BY <1>2, <2>2 DEF IInv, TypeOK, CallsWellFormed
    <3>2. QED
      <4>1. now \in Nat
        BY DEF IInv, TypeOK
      <4>2. QED
        BY <1>2, <2>2, <3>1, <4>1, InfoResetType, EventType, PostludeType
        DEF TcpInfoHook
  <2>3. QED
    BY <2>1, <2>2
<1>4. \A u \in Threads : pc'[u] \in SocketHook =>
                           pc'[u] = pc[u] /\ call'[u] = call[u]
  BY <1>3 DEF SocketHook
<1>5. EveryConnectionOwned'
  BY <1>1, OwnedFrame DEF OwnInv
<1>6. QED
  BY <1>1, <1>4, <1>5, OutsideSocketHookOwn DEF IInv

LEMMA CleanupStepOwn ==
    ASSUME IInv, OwnInv, NEW t \in Threads, CleanupStep(t)
    PROVE  OwnInv'
<1> DEFINE i == call[t].fd
<1>1. UNCHANGED <<kopen, known, leaked, counter>> /\ pc[t] = "cleanup"
  BY DEF CleanupStep
<1>2. CASE InSweep(i)
  <2>1. i \in Fds
    BY <1>1, <1>2, ConstAssumption DEF InSweep, Fds, IInv, CallsWellFormed
  <2>2. /\ IF IsPresent(i) THEN TcpEvClose(i, FALSE)
           ELSE UNCHANGED <<table, con, file, fileEnd, hist, freed>>
        /\ pc' = pc /\ \A u \in Threads \ {t} : call'[u] = call[u]
    BY <1>2 DEF CleanupStep, IInv, TypeOK
  <2>3. /\ table' = [table EXCEPT ![i] = None]
        /\ freed' = IF table[i] = None THEN freed ELSE freed \cup {table[i]}
    BY <2>1, <2>2, SlotEmptied DEF IInv
  <2>4. EveryConnectionOwned'
    BY <1>1, <2>1, <2>3, CloseKeepsOwned DEF IInv, OwnInv
  <2>5. \A g \in Fds : table[g] = None => table'[g] = None
    BY <2>3 DEF IInv, TypeOK
  <2>6. \A u \in Threads : pc'[u] \in SocketHook =>
                            pc'[u] = pc[u] /\ call'[u] = call[u]
    BY <1>1, <2>2 DEF SocketHook
  <2>7. QED
    BY <1>1, <2>4, <2>5, <2>6, OutsideSocketHookOwn DEF IInv
<1>3. CASE ~InSweep(i)
  <2>1. /\ pc' = [pc EXCEPT ![t] = "done"]
        /\ UNCHANGED <<table, freed, call>>
    BY <1>3 DEF CleanupStep
  <2>2. EveryConnectionOwned'
    BY <1>1, <2>1, OwnedFrame DEF OwnInv
  <2>3. \A u \in Threads : pc'[u] \in SocketHook =>
                            pc'[u] = pc[u] /\ call'[u] = call[u]
    BY <2>1 DEF SocketHook, IInv, TypeOK
  <2>4. QED
    BY <1>1, <2>1, <2>2, <2>3, OutsideSocketHookOwn DEF IInv
<1>4. QED
  BY <1>2, <1>3

LEMMA InitOwn == Init => OwnInv
<1> SUFFICES ASSUME Init PROVE OwnInv
  OBVIOUS
<1>1. \A c \in ConnIds :
         c >= counter /\ c \notin freed /\ \A g \in Fds : table[g] # c
  BY DEF Init, ConnIds, None
<1>2. EveryConnectionOwned
  <2>1. leaked = {} /\ \A f, g \in Fds : table[f] = table[g] /\ table[f] # None => f = g
    BY DEF Init
  <2>2. QED
    BY <1>1, <2>1, Zenon DEF EveryConnectionOwned
<1>3. QED
  BY <1>2 DEF Init, OwnInv, SocketHook

LEMMA NextOwn == IInv /\ OwnInv /\ [Next]_vars => OwnInv'
<1> SUFFICES ASSUME IInv, OwnInv, [Next]_vars PROVE OwnInv'
  OBVIOUS
<1>1. ASSUME NEW t \in Threads, Host(t) PROVE OwnInv'
  BY <1>1, HostSocketOwn, HostOpOwn, HostCloseOwn, HostCloseUnobservedOwn,
     HostExitOwn DEF Host
<1>2. ASSUME NEW t \in Threads, Library(t) PROVE OwnInv'
  BY <1>2, SocketCheckOwn, SocketPutOwn, OpHookOwn, TcpInfoHookOwn,
     CloseHookOwn, CleanupStepOwn DEF Library
<1>3. CASE Tick
  BY <1>3, TickOwn
<1>4. CASE Terminated \/ UNCHANGED vars
  BY <1>4 DEF Terminated, vars, OwnInv, EveryConnectionOwned, SocketHook
<1>5. QED
  BY <1>1, <1>2, <1>3, <1>4 DEF Next

(* No connection record is ever leaked or shared: whatever the number of   *)
(* threads and descriptors, every record alloc_connection created sits in  *)
(* exactly one slot of the descriptor table until tcp_ev_close frees it,   *)
(* and ra_put_elem never finds the slot of a new socket occupied, although *)
(* the kernel reuses descriptors and hooks of several threads interleave.  *)
THEOREM OwnershipCorrect == Spec => []EveryConnectionOwned
<1>1. Init => IInv /\ OwnInv
  BY InitInv, InitOwn
<1>2. IInv /\ OwnInv /\ [Next]_vars => IInv' /\ OwnInv'
  BY NextInv, NextOwn
<1>3. OwnInv => EveryConnectionOwned
  BY DEF OwnInv
<1>4. QED
  BY <1>1, <1>2, <1>3, PTL DEF Spec

=============================================================================
