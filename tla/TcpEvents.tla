------------------------------ MODULE TcpEvents ------------------------------
(***************************************************************************)
(* The event-recording engine of tcpsnitch (src/unnamed/part_000, the      *)
(* tcp_events.c of the library): the descriptor table from descriptor to   *)
(* connection record, the per-connection event list, the JSON flush policy *)
(* and its on-disk file, the periodic tcp_info trigger, the stale-record   *)
(* replacement in tcp_ev_socket, the close path and the atexit sweep.      *)
(*                                                                         *)
(* Every host thread first performs the real call (its effect on the      *)
(* kernel's descriptor set), then runs the post-hook.  A hook's slot-      *)
(* locked section (TCP_EV_PRELUDE .. ra_unlock_elem) is one step: nothing  *)
(* else touches the record while the slot lock is held.  The tcp_info     *)
(* sample the POSTLUDE takes after the unlock is a step of its own.        *)
(*                                                                         *)
(* The JSON file is kept as the sequence of pieces tcp_dump_json writes,   *)
(* one per event: an optional "[" before it, the event, an optional ","    *)
(* after it; fileEnd records the closing "]".                              *)
(***************************************************************************)
EXTENDS Integers, Sequences, FiniteSets

CONSTANTS
    Threads,          \* host threads (model values)
    NFds,             \* descriptors 0 .. NFds-1 the kernel hands out
    HostKinds,        \* event types of the wrapped calls the host makes
    Sizes,            \* byte counts a data call may carry
    DumpEveryEvents,  \* conf_opt_e
    DumpEveryBytes,   \* conf_opt_b
    DumpEveryMicros,  \* conf_opt_u
    MaxCalls,         \* bound on the host calls of a behaviour
    MaxTime,          \* bound on the clock
    IOFailures,       \* may mkdir / fopen fail?
    CloseFailures     \* may fclose fail (buffered writes lost)?

SendKinds == {"send", "sendto", "sendmsg", "write", "writev"}
RecvKinds == {"recv", "recvfrom", "recvmsg", "read", "readv"}
OpKinds   == {"bind", "connect", "shutdown", "listen", "setsockopt"}
                \cup SendKinds \cup RecvKinds

ASSUME ConstAssumption ==
    /\ Threads # {} /\ IsFiniteSet(Threads)
    /\ NFds \in Nat \ {0}
    /\ HostKinds \subseteq OpKinds
    /\ Sizes \subseteq Nat
    /\ DumpEveryEvents \in Int
    /\ DumpEveryBytes \in Int
    /\ DumpEveryMicros \in Int
    /\ MaxCalls \in Nat
    /\ MaxTime \in Nat
    /\ IOFailures \in BOOLEAN
    /\ CloseFailures \in BOOLEAN

Fds     == 0 .. NFds - 1
ConnIds == 0 .. MaxCalls - 1
None    == -1                    \* an empty slot of the descriptor table

(* The clock starts at a value from which the first time gate passes, as  *)
(* get_time_micros() (epoch microseconds) does against the calloc'd zero.  *)
StartTime == IF DumpEveryMicros > 0 THEN DumpEveryMicros ELSE 0

VARIABLES
    kopen,        \* descriptors open in the kernel
    ksock,        \* ksock[f]: the socket instance the kernel has at f
    nsock,        \* number of socket() calls the kernel has served
    known,        \* descriptors whose socket() has returned to the host
    table,        \* the descriptor table: fd -> connection id or None
    con,          \* con[c]: the connection record with id c
    file,         \* file[c]: the pieces written to <dir>/events.json
    fileEnd,      \* fileEnd[c]: the closing "]" has been written
    hist,         \* hist[c]: every event ever pushed on c (history)
    freed,        \* connections released by free_connection
    leaked,       \* connections ra_put_elem refused
    counter,      \* connections_count
    initialized,  \* init_tcpsnitch has run
    dirOk,        \* conf_opt_d is not NULL (not degraded)
    now,          \* get_time_micros()
    calls,        \* host calls made so far
    pc,           \* pc[t]: where thread t is
    call,         \* call[t]: the wrapped call thread t is in
    exited        \* the process has run its atexit handler and ended

vars == <<kopen, ksock, nsock, known, table, con, file, fileEnd, hist, freed,
          leaked, counter, initialized, dirOk, now, calls, pc, call, exited>>

Event == [id : Nat, type : OpKinds \cup {"socket", "close", "tcp_info"},
          detected : BOOLEAN]
Piece == [open : BOOLEAN, ev : Event, sep : BOOLEAN]
Conn  == [count : Nat, flushed : Nat, mem : Seq(Event), sent : Nat,
          recvd : Nat, infoBytes : Nat, infoMicros : Nat, bound : BOOLEAN,
          dir : BOOLEAN, sock : Nat]
Call  == [fd : 0 .. NFds \cup {None}, kind : OpKinds \cup {"none"}, bytes : Nat,
          ok : BOOLEAN]
PCs   == {"idle", "socket", "socket_put", "op", "tcp_info", "close",
          "cleanup", "done"}

NoCall  == [fd |-> None, kind |-> "none", bytes |-> 0, ok |-> FALSE]
NoConn  == [count |-> 0, flushed |-> 0, mem |-> <<>>, sent |-> 0, recvd |-> 0,
            infoBytes |-> 0, infoMicros |-> 0, bound |-> FALSE, dir |-> FALSE,
            sock |-> 0]

(* alloc_event: the event gets id = events_count. *)
MkEvent_offByOne(r, type, det) == [id |-> r.count - 1, type |-> type, detected |-> det]
MkEvent(r, type, det) == [id |-> r.count, type |-> type, detected |-> det]

(* push_event: append to the list and bump events_count. *)
Push(r, e) == [r EXCEPT !.mem = Append(@, e), !.count = @ + 1]

(* The piece tcp_dump_json writes for event e: "[" if e.id = 0, then the   *)
(* event, then "," unless this is the final dump and e is the last event.  *)
PieceOf_trailingComma(e, count, final) ==
    [open |-> e.id = 0, ev |-> e, sep |-> ~(final /\ e.id = count)]
PieceOf(e, count, final) ==
    [open |-> e.id = 0, ev |-> e, sep |-> ~(final /\ e.id + 1 = count)]
Pieces(r, final) ==
    [i \in 1 .. Len(r.mem) |-> PieceOf(r.mem[i], r.count, final)]

(* After the dump the list is freed and last_json_dump_evcount is set. *)
Dumped(r) == [r EXCEPT !.mem = <<>>, !.flushed = r.count]

(* tcp_dump_json(con, final) on record r, stored as connection c.  The     *)
(* directory may be NULL (nothing happens), fopen may fail (nothing        *)
(* happens), or fclose may fail after the list was freed, in which case    *)
(* only a prefix of the buffered text reaches the file.                    *)
DumpJson(c, r, final) ==
    \/ /\ r.dir
       /\ file' = [file EXCEPT ![c] = @ \o Pieces(r, final)]
       /\ fileEnd' = [fileEnd EXCEPT ![c] = @ \/ final]
       /\ con' = [con EXCEPT ![c] = Dumped(r)]
    \/ /\ ~r.dir \/ IOFailures
       /\ con' = [con EXCEPT ![c] = r]
       /\ UNCHANGED <<file, fileEnd>>
    \/ /\ r.dir /\ CloseFailures
       /\ \E k \in 0 .. Len(r.mem) :
             file' = [file EXCEPT ![c] = @ \o SubSeq(Pieces(r, final), 1, k)]
       /\ con' = [con EXCEPT ![c] = Dumped(r)]
       /\ UNCHANGED fileEnd

(* should_dump_json *)
ShouldDumpJson(r) == r.count - r.flushed >= DumpEveryEvents

(* should_dump_tcp_info: both the time gate and the byte gate pass. *)
ShouldDumpTcpInfo(r) ==
    /\ DumpEveryMicros > 0 => now - r.infoMicros >= DumpEveryMicros
    /\ DumpEveryBytes > 0 =>
          (r.sent + r.recvd) - r.infoBytes >= DumpEveryBytes

(* The event list of r after the slot-locked part of POSTLUDE: push, then  *)
(* a non-final dump if should_dump_json holds.                             *)
PushAndMaybeDump(c, r, e) ==
    LET r1 == Push(r, e) IN
    /\ hist' = [hist EXCEPT ![c] = Append(@, e)]
    /\ IF ShouldDumpJson(r1) THEN DumpJson(c, r1, FALSE)
       ELSE /\ con' = [con EXCEPT ![c] = r1]
            /\ UNCHANGED <<file, fileEnd>>

(* tcp_ev_close after ra_remove_elem: a close event with the given         *)
(* detected flag, the final dump, free_connection.                         *)
CloseConnection(c, det) ==
    LET e == MkEvent(con[c], "close", det) IN
    /\ hist' = [hist EXCEPT ![c] = Append(@, e)]
    /\ DumpJson(c, Push(con[c], e), TRUE)
    /\ freed' = freed \cup {c}

(* tcp_ev_close(f, ..., det): ra_remove_elem empties the slot; if it held *)
(* a record, that record is closed.                                        *)
TcpEvClose_keepSlot(f, det) ==
    IF table[f] = None
    THEN UNCHANGED <<table, con, file, fileEnd, hist, freed>>
    ELSE CloseConnection(table[f], det) /\ UNCHANGED table

TcpEvClose(f, det) ==
    IF table[f] = None
    THEN UNCHANGED <<table, con, file, fileEnd, hist, freed>>
    ELSE /\ CloseConnection(table[f], det)
         /\ table' = [table EXCEPT ![f] = None]

Idle(t) == pc[t] = "idle" /\ ~exited

-----------------------------------------------------------------------------
(* The host program's side: the real calls.                                *)

(* socket(): the kernel returns the lowest free descriptor. *)
HostSocket(t) ==
    /\ Idle(t) /\ calls < MaxCalls
    /\ \E f \in Fds \ kopen :
       /\ \A g \in Fds \ kopen : f <= g
       /\ kopen' = kopen \cup {f}
       /\ ksock' = [ksock EXCEPT ![f] = nsock + 1]
       /\ nsock' = nsock + 1
       /\ call' = [call EXCEPT ![t] = [NoCall EXCEPT !.fd = f]]
    /\ pc' = [pc EXCEPT ![t] = "socket"]
    /\ calls' = calls + 1
    /\ UNCHANGED <<known, table, con, file, fileEnd, hist, freed, leaked,
                   counter, initialized, dirOk, now, exited>>

(* A wrapped data/option call on a descriptor the host holds; bind may     *)
(* succeed or fail in the kernel.                                          *)
HostOp(t, f, k, n, ok) ==
    /\ Idle(t) /\ calls < MaxCalls
    /\ f \in known
    /\ call' = [call EXCEPT ![t] = [fd |-> f, kind |-> k, bytes |-> n, ok |-> ok]]
    /\ pc' = [pc EXCEPT ![t] = "op"]
    /\ calls' = calls + 1
    /\ UNCHANGED <<kopen, ksock, nsock, known, table, con, file, fileEnd, hist,
                   freed, leaked, counter, initialized, dirOk, now, exited>>

(* No call is in progress on f in another thread (the host does not close  *)
(* a descriptor another of its threads is using).                          *)
Busy(f) == \E u \in Threads : pc[u] \in {"op", "tcp_info"} /\ call[u].fd = f

(* close(): the kernel frees f at once; the hook runs afterwards. *)
HostClose(t, f) ==
    /\ Idle(t) /\ calls < MaxCalls
    /\ f \in known /\ ~Busy(f)
    /\ kopen' = kopen \ {f}
    /\ known' = known \ {f}
    /\ call' = [call EXCEPT ![t] = [NoCall EXCEPT !.fd = f]]
    /\ pc' = [pc EXCEPT ![t] = "close"]
    /\ calls' = calls + 1
    /\ UNCHANGED <<ksock, nsock, table, con, file, fileEnd, hist, freed, leaked,
                   counter, initialized, dirOk, now, exited>>

(* A descriptor closed on a path the interposer does not see. *)
HostCloseUnobserved(t, f) ==
    /\ Idle(t) /\ calls < MaxCalls
    /\ f \in known /\ ~Busy(f)
    /\ kopen' = kopen \ {f}
    /\ known' = known \ {f}
    /\ calls' = calls + 1
    /\ UNCHANGED <<ksock, nsock, table, con, file, fileEnd, hist, freed, leaked,
                   counter, initialized, dirOk, now, pc, call, exited>>

(* exit(): the atexit handler cleanup runs on this thread, if            *)
(* init_tcpsnitch has registered it; otherwise the process just ends.    *)
HostExit(t) ==
    /\ Idle(t)
    /\ \A u \in Threads : pc[u] # "cleanup"
    /\ call' = [call EXCEPT ![t] = [NoCall EXCEPT !.fd = 0]]
    /\ \/ /\ initialized
          /\ pc' = [pc EXCEPT ![t] = "cleanup"]
          /\ UNCHANGED exited
       \/ /\ ~initialized
          /\ pc' = [pc EXCEPT ![t] = "done"]
          /\ exited' = TRUE
    /\ UNCHANGED <<kopen, ksock, nsock, known, table, con, file, fileEnd, hist,
                   freed, leaked, counter, initialized, dirOk, now, calls>>

Tick ==
    /\ ~exited /\ now < MaxTime
    /\ now' = now + 1
    /\ UNCHANGED <<kopen, ksock, nsock, known, table, con, file, fileEnd, hist,
                   freed, leaked, counter, initialized, dirOk, calls, pc, call,
                   exited>>
-----------------------------------------------------------------------------
(* The library's side: the post-hooks.                                     *)

(* ra_is_present *)
IsPresent_never(f) == FALSE
IsPresent(f) == table[f] # None

(* init_tcpsnitch under init_mutex: the first call reads the options and *)
(* creates the logs directory; if that fails (get_conf_opt_d or           *)
(* create_logs_dir returns NULL) conf_opt_d stays NULL, and the library    *)
(* runs degraded.  Later calls do nothing.                                 *)
InitTcpsnitch ==
    IF initialized
    THEN UNCHANGED <<initialized, dirOk>>
    ELSE /\ initialized' = TRUE
         /\ dirOk' \in IF IOFailures THEN BOOLEAN ELSE {TRUE}

(* tcp_ev_socket up to the allocation: init_tcpsnitch, then a stale record *)
(* at f is closed with tcp_ev_close(fd, 0, 0, false).  ra_is_present and   *)
(* the ra_remove_elem of that close are one step: if another thread        *)
(* removes the record in between, the outcome is the same record closed.   *)
SocketCheck(t) ==
    /\ pc[t] = "socket" /\ ~exited
    /\ LET f == call[t].fd IN
       IF IsPresent(f) THEN TcpEvClose(f, FALSE)
       ELSE UNCHANGED <<table, con, file, fileEnd, hist, freed>>
    /\ InitTcpsnitch
    /\ pc' = [pc EXCEPT ![t] = "socket_put"]
    /\ UNCHANGED <<kopen, ksock, nsock, known, leaked, counter, now, calls,
                   call, exited>>

(* alloc_connection: get and increment connections_count under its mutex. *)
AllocId_noIncrement == counter' = counter
AllocId == counter' = counter + 1

(* The rest of tcp_ev_socket: alloc_connection takes the next id and       *)
(* creates <conf_opt_d>/<id>, the socket event (id 0) is pushed, and       *)
(* ra_put_elem inserts the record unless the slot is occupied, in which    *)
(* case the record is dropped without being freed.                        *)
SocketPut(t) ==
    /\ pc[t] = "socket_put" /\ ~exited
    /\ counter < MaxCalls
    /\ \E mk \in IF IOFailures THEN BOOLEAN ELSE {TRUE} :
       LET f == call[t].fd
           c == counter
           r == [NoConn EXCEPT !.dir = dirOk /\ mk, !.sock = ksock[f]]
           e == MkEvent(r, "socket", FALSE)
       IN /\ con' = [con EXCEPT ![c] = Push(r, e)]
          /\ hist' = [hist EXCEPT ![c] = <<e>>]
          /\ IF table[f] = None
             THEN /\ table' = [table EXCEPT ![f] = c]
                  /\ UNCHANGED leaked
             ELSE /\ leaked' = leaked \cup {c}
                  /\ UNCHANGED table
          /\ known' = known \cup {f}
    /\ AllocId
    /\ pc' = [pc EXCEPT ![t] = "idle"]
    /\ call' = [call EXCEPT ![t] = NoCall]
    /\ UNCHANGED <<kopen, ksock, nsock, file, fileEnd, freed, initialized,
                   dirOk, now, calls, exited>>

(* The fields of a data or bind event that change the record: the byte    *)
(* counters and, after a successful bind, con->bound.                      *)
Account(r, k, n, ok) ==
    [r EXCEPT !.sent  = IF k \in SendKinds THEN @ + n ELSE @,
              !.recvd = IF k \in RecvKinds THEN @ + n ELSE @,
              !.bound = @ \/ (k = "bind" /\ ok)]

(* The dump_tcp_info flag of TCP_EV_POSTLUDE. *)
DumpTcpInfo(r, type) == ShouldDumpTcpInfo(r) /\ type # "tcp_info"

(* TCP_EV_POSTLUDE on record r of connection c with event e, for thread t: *)
(* push, decide dump_tcp_info, maybe dump, unlock; the thread goes on to   *)
(* sample tcp_info if the flag is set, else returns.                       *)
Postlude(t, c, r, e) ==
    /\ PushAndMaybeDump(c, r, e)
    /\ IF DumpTcpInfo(Push(r, e), e.type)
       THEN pc' = [pc EXCEPT ![t] = "tcp_info"] /\ UNCHANGED call
       ELSE pc' = [pc EXCEPT ![t] = "idle"] /\ call' = [call EXCEPT ![t] = NoCall]

(* TCP_EV_PRELUDE finding no record: the hook returns. *)
NoRecord(t) ==
    /\ pc' = [pc EXCEPT ![t] = "idle"]
    /\ call' = [call EXCEPT ![t] = NoCall]
    /\ UNCHANGED <<con, file, fileEnd, hist>>

(* A data, bind or option hook (tcp_ev_bind .. tcp_ev_readv): PRELUDE, the *)
(* variant body, POSTLUDE up to the unlock.                                *)
OpHook(t) ==
    /\ pc[t] = "op" /\ ~exited
    /\ LET c == table[call[t].fd]
           k == call[t].kind
       IN IF c = None THEN NoRecord(t)
          ELSE Postlude(t, c, Account(con[c], k, call[t].bytes, call[t].ok),
                        MkEvent(con[c], k, FALSE))
    /\ UNCHANGED <<kopen, ksock, nsock, known, table, freed, leaked, counter,
                   initialized, dirOk, now, calls, exited>>

(* After the unlock: fill_tcpinfo(fd) and tcp_ev_tcp_info, which looks the *)
(* descriptor up again, resets both bookmarks and runs the POSTLUDE.       *)
TcpInfoHook(t) ==
    /\ pc[t] = "tcp_info" /\ ~exited
    /\ LET c == table[call[t].fd] IN
       IF c = None THEN NoRecord(t)
       ELSE Postlude(t, c, [con[c] EXCEPT !.infoBytes = con[c].sent + con[c].recvd,
                                          !.infoMicros = now],
                     MkEvent(con[c], "tcp_info", FALSE))
    /\ UNCHANGED <<kopen, ksock, nsock, known, table, freed, leaked, counter,
                   initialized, dirOk, now, calls, exited>>

(* tcp_ev_close(fd, rv, err, false) for a close the host made. *)
CloseHook(t) ==
    /\ pc[t] = "close" /\ ~exited
    /\ TcpEvClose(call[t].fd, FALSE)
    /\ pc' = [pc EXCEPT ![t] = "idle"]
    /\ call' = [call EXCEPT ![t] = NoCall]
    /\ UNCHANGED <<kopen, ksock, nsock, known, leaked, counter, initialized,
                   dirOk, now, calls, exited>>

(* The loop condition of tcp_close_unclosed_connections: i < ra_get_size(). *)
InSweep_offByOne(i) == i < NFds - 1
InSweep(i) == i < NFds

(* One iteration of tcp_close_unclosed_connections (call[t].fd is the loop *)
(* index i): if ra_is_present(i), tcp_ev_close(i, 0, 0, false).  After the *)
(* last index the handler returns and the process ends.                    *)
CleanupStep(t) ==
    /\ pc[t] = "cleanup" /\ ~exited
    /\ LET i == call[t].fd IN
       IF InSweep(i)
       THEN /\ IF IsPresent(i) THEN TcpEvClose(i, FALSE)
               ELSE UNCHANGED <<table, con, file, fileEnd, hist, freed>>
            /\ call' = [call EXCEPT ![t].fd = i + 1]
            /\ UNCHANGED <<pc, exited>>
       ELSE /\ pc' = [pc EXCEPT ![t] = "done"]
            /\ exited' = TRUE
            /\ UNCHANGED <<table, con, file, fileEnd, hist, freed, call>>
    /\ UNCHANGED <<kopen, ksock, nsock, known, leaked, counter, initialized,
                   dirOk, now, calls>>

(* The process has ended. *)
Terminated == exited /\ UNCHANGED vars

-----------------------------------------------------------------------------
Init ==
    /\ kopen = {}
    /\ ksock = [f \in Fds |-> 0]
    /\ nsock = 0
    /\ known = {}
    /\ table = [f \in Fds |-> None]
    /\ con = [c \in ConnIds |-> NoConn]
    /\ file = [c \in ConnIds |-> <<>>]
    /\ fileEnd = [c \in ConnIds |-> FALSE]
    /\ hist = [c \in ConnIds |-> <<>>]
    /\ freed = {}
    /\ leaked = {}
    /\ counter = 0
    /\ initialized = FALSE
    /\ dirOk = FALSE
    /\ now = StartTime
    /\ calls = 0
    /\ pc = [t \in Threads |-> "idle"]
    /\ call = [t \in Threads |-> NoCall]
    /\ exited = FALSE

Host(t) ==
    \/ HostSocket(t)
    \/ \E f \in Fds, k \in HostKinds, n \in Sizes, ok \in BOOLEAN :
          HostOp(t, f, k, n, ok)
    \/ \E f \in Fds : HostClose(t, f) \/ HostCloseUnobserved(t, f)
    \/ HostExit(t)

Library(t) ==
    \/ SocketCheck(t) \/ SocketPut(t) \/ OpHook(t) \/ TcpInfoHook(t)
    \/ CloseHook(t) \/ CleanupStep(t)

Next == (\E t \in Threads : Host(t) \/ Library(t)) \/ Tick \/ Terminated

Spec == Init /\ [][Next]_vars

-----------------------------------------------------------------------------
TypeOK ==
    /\ kopen \subseteq Fds
    /\ ksock \in [Fds -> Nat]
    /\ nsock \in Nat
    /\ known \subseteq Fds
    /\ table \in [Fds -> ConnIds \cup {None}]
    /\ con \in [ConnIds -> Conn]
    /\ file \in [ConnIds -> Seq(Piece)]
    /\ fileEnd \in [ConnIds -> BOOLEAN]
    /\ hist \in [ConnIds -> Seq(Event)]
    /\ freed \subseteq ConnIds
    /\ leaked \subseteq ConnIds
    /\ counter \in 0 .. MaxCalls
    /\ initialized \in BOOLEAN
    /\ dirOk \in BOOLEAN
    /\ now \in Nat
    /\ calls \in 0 .. MaxCalls
    /\ pc \in [Threads -> PCs]
    /\ call \in [Threads -> Call]
    /\ exited \in BOOLEAN

-----------------------------------------------------------------------------
(* Safety properties.                                                      *)

(* What a thread's call record holds at each point of a hook. *)
CallsWellFormed ==
    \A t \in Threads :
       /\ pc[t] \in {"socket", "socket_put", "close", "op", "tcp_info"} =>
             call[t].fd \in Fds
       /\ pc[t] \in {"op", "tcp_info"} => call[t].kind \in OpKinds
       /\ pc[t] = "cleanup" => call[t].fd \in 0 .. NFds

(* The JSON log of every connection is in step with its events: the file   *)
(* holds exactly the first last_json_dump_evcount events in id order, each *)
(* written as tcp_dump_json renders it ("[" only before event 0, "," after *)
(* every event but the last of the final dump), the in-memory list holds   *)
(* exactly the rest, ids are dense from 0, and "]" is written only by the  *)
(* final dump of a closed connection, after its last event.                *)
JsonLogConsistent ==
    \A c \in ConnIds :
      LET r == con[c] IN
      /\ Len(hist[c]) = r.count
      /\ \A i \in 1 .. Len(hist[c]) : hist[c][i].id = i - 1
      /\ r.flushed <= r.count
      /\ Len(file[c]) = r.flushed
      /\ \A i \in 1 .. r.flushed :
            /\ file[c][i].ev = hist[c][i]
            /\ file[c][i].open = (i = 1)
            /\ file[c][i].sep = (~fileEnd[c] \/ i < r.flushed)
      /\ c \notin freed => r.mem = SubSeq(hist[c], r.flushed + 1, r.count)
      /\ fileEnd[c] => c \in freed /\ r.flushed = r.count

(* Every connection alloc_connection created is owned by exactly one place *)
(* at a time: one slot of the descriptor table, or the freed set after its *)
(* close; none is ever dropped by ra_put_elem.                             *)
EveryConnectionOwned ==
    /\ leaked = {}
    /\ \A f, g \in Fds : table[f] = table[g] /\ table[f] # None => f = g
    /\ \A c \in ConnIds :
          \/ c < counter /\ (c \in freed) # (\E f \in Fds : table[f] = c)
          \/ c >= counter /\ c \notin freed /\ \A f \in Fds : table[f] # c

(* A close event ends a connection: once free_connection released it, its *)
(* history, its file and its closing bracket never change again, and the   *)
(* last event of a connection being released is its close event.           *)
CloseIsFinal ==
    [][\A c \in ConnIds :
         /\ c \in freed => /\ hist'[c] = hist[c]
                           /\ file'[c] = file[c]
                           /\ fileEnd'[c] = fileEnd[c]
         /\ c \notin freed /\ c \in freed' =>
               hist'[c] # <<>> /\ hist'[c][Len(hist'[c])].type = "close"]_vars

(* When the process ends, the atexit sweep has closed every connection, so *)
(* each one got its close event and its final dump.                        *)
ExitClosesAll ==
    exited => \A c \in 0 .. counter - 1 : c \in freed

(* Every descriptor the host holds is tracked by the record created for    *)
(* the socket the kernel has at that descriptor (outside the exit sweep).  *)
OwnSocketTracked ==
    (\A t \in Threads : pc[t] \notin {"cleanup", "done"}) =>
       \A f \in known : table[f] # None /\ con[table[f]].sock = ksock[f]

(* Two tcp_info events are never adjacent in a connection's timeline: the  *)
(* sample is taken only after a non-tcp_info event.                        *)
NoConsecutiveTcpInfo ==
    \A c \in ConnIds : \A i \in 2 .. Len(hist[c]) :
       hist[c][i].type = "tcp_info" => hist[c][i - 1].type # "tcp_info"
=============================================================================
