# TLA+ verification of tcpsnitch's event engine

tcpsnitch is an `LD_PRELOAD` library that interposes on the socket calls of a
host program. Each interposed call first runs the real libc call, and then a
post-hook records an event on the connection that owns the descriptor. The
event lists are flushed to `<dir>/<id>/events.json`. This directory holds
the formal model of that engine:

- TLA+ modules;
- the TLC configurations that check the model on small instances;
- TLAPS proofs of its two main invariants for every value of the constants.

## 1. The system and its parts (inventory)

| Part | Source | Role | Status |
|---|---|---|---|
| Event engine | `src/unnamed/part_000` (tcp_events.c) | Connection records, the id counter, event creation, the post-hooks, tcp_info sampling, the JSON flush, close, the atexit sweep | partly: capture, reset and allocation failures are left out |
| Descriptor table | resizable_array, not under `src/` | fd → record, slot locks, put / remove / is_present / size | partly, from spec §4.2: put, remove, is_present and the slot locks; the resizing behind `ra_get_size` is replaced by the fixed `NFds` |
| Interposer | libc_overrides, not under `src/` | Runs the real call, then the post-hook | modelled from spec §4.1 as the host actions |
| Init and cleanup | `src/init.c` | One-time init (options, logs directory), atexit cleanup, post-fork reset | init and cleanup are modelled; reset is not |
| Capture coordinator | `src/packet_sniffer.c`, `tcp_start_capture`, `force_bind` | pcap thread per connection | not modelled yet |
| Launcher | `src/bin/tcpsnitch` (bash) | Sets the environment and runs the host | not modelled (pure process and file I/O) |
| Logger, JSON and string builders | not under `src/` | Formatting | not modelled; an event is abstracted to `{id, type, detected}` |

How the parts interact:

- A host thread performs, for example, `send`. The kernel effect happens first.
- The hook then runs `TCP_EV_PRELUDE`, which calls `ra_get_and_lock_elem`, and allocates the event with `id = events_count`.
- Next comes the variant body, which updates the byte counters or the `bound` flag.
- Then `TCP_EV_POSTLUDE` runs:
  1. `push_event`;
  2. the `dump_tcp_info` decision;
  3. `tcp_dump_json(false)` if `should_dump_json`;
  4. `ra_unlock_elem`;
  5. after the unlock, if the flag was set, `fill_tcpinfo` and `tcp_ev_tcp_info`, which locks the slot again.
- `socket()` runs `init_tcpsnitch`. If the descriptor still holds a stale record, it is closed first. Then `alloc_connection` takes the next id under its mutex, the socket event is pushed and `ra_put_elem` inserts the record.
- `close()` runs `tcp_ev_close`: `ra_remove_elem`, the close event, the final dump and `free_connection`.
- At exit, `cleanup` runs `tcp_close_unclosed_connections` over the descriptors `0 .. ra_get_size()-1`.

## 2. Modules

- **`TcpEvents.tla`** is the whole engine, parameterised by:
  - the threads, the number of descriptors and the call kinds the host makes;
  - the byte sizes;
  - the three flush/sample options `conf_opt_e/b/u`;
  - bounds on calls and on the clock;
  - two switches that allow I/O failures.

  Its state:

  | Variable | What it models |
  |---|---|
  | `kopen`, `ksock`, `nsock` | The kernel's open descriptors, and the socket instance at each one |
  | `known` | The descriptors whose `socket()` has returned to the host |
  | `table` | The descriptor table |
  | `con` | The records: `events_count`, `last_json_dump_evcount`, the in-memory list, the byte counters, the tcp_info bookmarks, `bound`, whether `directory` is non-NULL, and the kernel socket the record was made for |
  | `file`, `fileEnd` | The pieces each `events.json` received, and whether `]` was written |
  | `hist` | History: every event ever pushed on a connection |
  | `freed`, `leaked` | Records released by `free_connection`, and records dropped by a failed `ra_put_elem` |
  | `counter` | `connections_count` |
  | `initialized`, `dirOk` | `init_tcpsnitch` has run; `conf_opt_d` is non-NULL |
  | `now` | The clock |
  | `pc`, `call` | Where each thread is and the call it is in |
  | `exited` | The process has ended |

  Host actions (the real calls): `HostSocket` (the lowest free descriptor), `HostOp`, `HostClose` (the kernel frees the descriptor at once), `HostCloseUnobserved` (a close the interposer does not see), `HostExit` and `Tick`. `HostExit` enters the `cleanup` sweep only if `init_tcpsnitch` ran, because that is where `atexit(cleanup)` is registered (init.c:170). Otherwise the process ends at once.

  Library actions (the hooks):

  | Action | What it models |
  |---|---|
  | `SocketCheck` | `init_tcpsnitch` and the stale check of `tcp_ev_socket` |
  | `SocketPut` | `alloc_connection`, the socket event and `ra_put_elem` |
  | `OpHook` | A whole data, bind or option hook up to the unlock |
  | `TcpInfoHook` | `tcp_ev_tcp_info` after the unlock |
  | `CloseHook` | `tcp_ev_close` for a host close |
  | `CleanupStep` | One iteration of the sweep; after the last one the process ends |

  A slot-locked section is one step, because nothing else touches the record while the slot lock is held. Each split between steps corresponds to a real unlock or a real gap in the code:
  - the kernel call, and then its hook;
  - `ra_unlock_elem`, and then `tcp_ev_tcp_info`;
  - `tcp_ev_socket`'s stale check, and then `ra_put_elem`.

  `tcp_dump_json` is `DumpJson`, which has three outcomes:
  - success: the pieces are written, the list is freed and the counter is set;
  - a NULL directory or a failing `fopen`: nothing happens;
  - a failing `fclose`: only a prefix of the buffered text reaches the file, after the list was already freed.

  A piece is `[open, ev, sep]`: whether `[` precedes the event, and whether `,` follows it. `PieceOf` translates lines 269–274 of the code.
- **`MC_TcpEvents.tla`** declares the thread model values for TLC.
- **`TcpEventsProofs.tla`** holds the TLAPS proofs (section 5).

## 3. Properties and runs

Properties:

| Property | What it states | Hazard |
|---|---|---|
| `TypeOK` | The types | |
| `JsonLogConsistent` | The file holds exactly the first `last_json_dump_evcount` events in id order. `[` comes only before event 0, `,` after every event but the last of the final dump, and `]` only after the final dump of a freed record. The in-memory list holds exactly the rest, and ids are dense from 0. | The multi-flush JSON protocol, and the fclose partial failure |
| `EveryConnectionOwned` | No record is ever leaked by `ra_put_elem`. Every created record is in exactly one slot or freed, and ids not yet handed out are nowhere. | The stale check racing with reuse |
| `CloseIsFinal` (action) | A freed connection's history, file and bracket never change, and the last event of a connection being freed is its close. | |
| `ExitClosesAll` | When the process ends, every connection ever created was freed. | |
| `OwnSocketTracked` | Outside the exit sweep, every descriptor the host holds is tracked by the record created for the kernel socket now at that descriptor. | |
| `NoConsecutiveTcpInfo` | Spec §8: no two adjacent `tcp_info` events. It is checked only where it fails, with two threads. With one thread it is only the `!= TCP_EV_TCP_INFO` guard of line 426 restated. | The tcp_info decision taken under the lock and acted on after the unlock |

Runs:

| Run | Expect | What it shows |
|---|---|---|
| `single` | pass | One thread, 2 descriptors, send/recv/bind, every gate at 1–2, 6 calls, clock to 2, init and `fopen` may fail. All of `TypeOK`, `JsonLogConsistent`, `EveryConnectionOwned`, `ExitClosesAll`, `OwnSocketTracked` and `CloseIsFinal` hold (1.1M states). |
| `threads` | pass | Two threads, 2 descriptors, 4 calls, every failure enabled, including `fclose`. `EveryConnectionOwned` and `CloseIsFinal` hold under interleaving (881k states). `TypeOK` is not rechecked here, because `TypeCorrect` proves it for every value of the constants. |
| `tcpinfo_race` | violation | Two threads on one descriptor: both take the tcp_info decision under the lock and both record after it, back to back. |
| `close_lag` | violation | Thread A closes fd 0, and B's `socket()` gets fd 0 and registers a record. A's hook then removes and closes B's record, so B's socket is no longer tracked. |
| `fclose_loss` | violation | `fclose` fails after the list was freed, and the events are lost. This contradicts spec §7 ("events remain queued"). |
| `exit_race` | violation | Thread B creates a socket at a descriptor the sweep has passed, and that connection is never closed. |

PROJECT.json lists the four violations as findings. One more divergence from the spec needs no model checking, because it can be read directly from the code. The stale-record close in `tcp_ev_socket` (line 451) and the sweep close (line 691) both call `tcp_ev_close(fd, 0, 0, false)`, so a close the library makes up itself is recorded with `detected = false`. Spec §4.4 and §4.7 say `detected = true`.

Each property of a passing run is also checked against a mutant of the code that must break it:

| Mutant | Plausible bug |
|---|---|
| `MkEvent_offByOne` | An event id off by one |
| `PieceOf_trailingComma` | A wrong last-event test |
| `AllocId_noIncrement` | The counter is not incremented |
| `InSweep_offByOne` | The sweep bound is off by one |
| `IsPresent_never` | The stale check is dropped |
| `TcpEvClose_keepSlot` | `ra_remove_elem` is dropped |

**Bounds.** Two descriptors and at least four calls are enough for the following cases:
- a descriptor closed and handed out again;
- a stale record replaced;
- both gates crossed;
- a flush that is not final followed by a final one;
- the sweep closing a live connection.

Two threads are enough for every two-actor race listed in the hazards. The call bound caps the connection ids (`ConnIds == 0 .. MaxCalls-1`), and `SocketPut` requires `counter < MaxCalls`.

**Fairness.** None is assumed, and no liveness property is claimed: the host may stop calling at any point, and a hook that has started may be preempted indefinitely. Deadlock checking is on. `Terminated` is the only stuttering step, and it is taken after exit.

## 4. What is abstracted

- Event payloads are abstracted: addresses, flags, iovec sizes and timestamps beyond the clock.
- Wording and JSON text are abstracted to the piece structure.
- Allocation failures are not modelled: `calloc`, `alloc_event` and `alloc_tcp_ev_json`.
- `ra_is_present` and the `ra_remove_elem` of the close that follows it are one step. If another thread removes the record in between, the outcome is the same record closed.

## 5. Proofs (TLAPS)

`TcpEventsProofs.tla` proves two theorems for all constants satisfying `ConstAssumption`.

**`TypeCorrect == Spec => []TypeOK`.** The proof goes through the inductive invariant `IInv == TypeOK /\ CallsWellFormed`. `TypeOK` alone is not inductive, because a hook indexes `table[call[t].fd]` and needs `call[t].fd` to be a descriptor. `CallsWellFormed` says what the call record holds at each pc. The proof rests on:
- a type lemma for each helper: `Push`, `Dumped`, `Pieces`, `DumpJson`, `PushAndMaybeDump`, `TcpEvClose`, `Account`, `Postlude`;
- one lemma per action, with `InitInv` and `NextInv` combined by PTL.

**`OwnershipCorrect == Spec => []EveryConnectionOwned`.** The proof goes through the strengthening `OwnInv`. `OwnInv` was checked with TLC as an invariant of the `threads` configuration before it was proved. It adds:
- `known ⊆ kopen`;
- a thread inside `tcp_ev_socket` owns a descriptor that is open, not yet known to the host and not in any other thread's socket hook;
- after the stale check, that thread's slot is empty.

This is why `ra_put_elem` can never fail, even with descriptor reuse and interleaved close hooks. The two lemmas `CloseKeepsOwned` and `PutKeepsOwned` carry the argument about the counter and the slots.

**What stays with TLC:** `JsonLogConsistent`, `CloseIsFinal`, `ExitClosesAll` and `OwnSocketTracked`.

**Out of the prover's reach:** liveness and `ENABLED`, induction over data, and modules with RECURSIVE operators (the model has none).

## 6. Plan for later work

1. Add allocation failures to the model: `alloc_event` and `alloc_connection` returning NULL, and `alloc_tcp_ev_json` failing mid-dump. The last one is the use-after-free of `con->head` at line 268.
2. Add a module for the capture coordinator: `tcp_start_capture`, `force_bind` and the start/stop of the capture thread. It would show the slot lock still held on the success path (line 396) and the NULL `con` passed to `force_bind` (line 375).
3. Add a multi-process module for fork, `reset_tcpsnitch`/`tcp_reset` and the directory scan of `create_logs_dir`, which can race between processes (`init.c:76-87`).
4. Give `fill_iovec` its 32-bit `socklen_t` width.
5. Write an abstract per-connection log specification, with `TcpEvents` shown to refine it.
6. Prove `JsonLogConsistent` and `CloseIsFinal` with TLAPS.
