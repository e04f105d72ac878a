# GNU inetutils: a TLA+ verification project

The modules in this directory model the network programs of this repository.
TLC checks the models on small instances (`*.cfg`), TLAPS checks the proofs in
the `*Proofs.tla` modules.  `PROJECT.json` relates every definition to the
lines it models and lists the runs, the mutants that show that each property
can fail, the hazards the properties are aimed at, the disagreement found and
the theorems.  Paths are relative to `src/`.

    tlc -config tftp_transfer.cfg MCTftp      # one run; its module is in PROJECT.json
    tlapm TftpProofs.tla                      # one module of proofs

## 1. The system

The repository is a collection of clients and daemons.  They share little code
(`libinetutils`, `libicmp`, `libtelnet`, `libls`) and meet on the network:
`inetd` starts most of the daemons; `tftp`/`tftpd`, `telnet`/`telnetd`,
`ftp`/`ftpd`, `rlogin`/`rlogind`, `rsh` and `rcp`/`rshd`, `talk`/`talkd` and
`logger`/`syslogd` are pairs.

| component | state | operations | what is hard | what makes it correct |
|---|---|---|---|---|
| `tftp` | block counter, retry counter, last packet, peer port, local file | get, put, rexmt, timeout; `recvfile`, `send_file`, `timer`, `intr` | lost, repeated, late datagrams; 16-bit block numbers | a transfer reported as done is complete and unchanged; it ends |
| `tftpd` | one process per request: block, last packet, open file | read and write request, both loops, `timer`, dallying | repeated requests start further instances on the same file | never ahead of the client; stored file complete; exits |
| `tftpsubs` | two buffers, `nextone`, `current`, conversion flags | `readit`, `read_ahead`, `writeit`, `write_behind` | conversions across buffer boundaries | the bytes arrive as they were; a packet can be sent again |
| `telnet`, `telnetd`: negotiation | per option and direction: state, wish, outstanding answers; modes of terminal and pty; type, speed, window, flow; special characters | WILL/WONT/DO/DONT, sub-negotiations, user commands, pty packets, start of a session | requests of the two ends cross; the server waits for answers before it starts login | the ends agree, the exchange ends, modes follow the pty |
| `telnet`, `telnetd`: streams | rings and buffers, urgent marks, SYNCHing, state of `telrcv` | `telsnd`, `telrcv`, `netflush`, `netclear`, `Scheduler` | aborts overtake data; reads cut anywhere | what is shown was written, commands survive an abort, discarding ends |
| `libtelnet` | per end: way of authentication, session key, type, mode and key state of each direction | SEND, IS, REPLY; SUPPORT, IS, REPLY, START, END, REQSTART, REQEND, key ids; `encrypt` commands | the cipher changes in the stream it is used for; an alarm rejects while an answer is under way | the reader always has the cipher of the writer |
| `ftp`, `ftpd` | control connection, reply code, login, type, data connection, restart point | the commands of the user; PORT/PASV, RETR/STOR/APPE/LIST, REST, ABOR with urgent data | an abort races with the end of a transfer | replies stay matched to commands; transfer state is reset; files arrive |
| `syslogd` | per output: last line, repeat count, kind, times | `logmsg`, `fprintlog`, `domark`, `init`, `die` | signals, also within `fprintlog`, its own messages, hosts that fail | every line is written once or counted as a repetition |
| `inetd` | list of services, sockets, `allsock`, `nsock`, pids | main loop, `reapchild`, `config`, `retry` | handlers change what the main loop uses at any point | one server per single-threaded socket; no socket forgotten; closed services reopen |
| `talk`, `talkd` | client: stage, ids, listening socket; daemon: table of invitations, last id | LOOK_UP, ANNOUNCE, LEAVE_INVITE, DELETE; connect, accept, ring again, give up | datagrams, simultaneous calls, stale invitations, namesakes, daemon exit | connected users called each other; deletions hit the right entry; set-up ends |
| `rcp` | position in the list of files, stack of directories, errors | `source`, `rsource`, `sink`, `response` | any call of either side fails between a record and its answer | both sides stay in step; what is reported as copied is |
| `rsh`, `rshd`, `rexecd` | five processes, two connections, a pipe | `kcmd`, `talk`, `sendsig`, `doit` | the streams and processes end in any order | all output is shown; signals arrive; everybody ends |
| `rlogin`, `rlogind` | reader, writer, terminal modes, urgent bits, window; count of sessions | `oob`, `reader`, `writer`, signal handlers, `protocol`, `control`, daemon loop | urgent marks against the stream; order of exits | output is accounted for; terminal restored; window known |
| `ping`, `traceroute` | sequence number, table of answers, counters; hop, try, port | `ping_run`, `ping_xmit`, `ping_recv`; `do_try` | late, doubled and foreign answers; numbers that wrap | summary and status are true; hops get their own answers; it ends |
| `ifconfig`, `route`, `hostname`, `whois`, `logger`, `libls`, `uucpd`, helpers | none beyond one request | parse, one system call or exchange, print | | section 6 |

## 2. Modules

| module | models | extends or uses |
|---|---|---|
| `Tftp` | a client session, the `tftpd` instances its requests start, the network | |
| `TftpProofs` | type correctness, integrity of a get and of a put | `Tftp` |
| `TftpSubs` | `libinetutils/tftpsubs.c` on both sides of an ideal wire | |
| `TelnetState` | the option bookkeeping `telnet/telnet.c` and `telnetd/state.c` have in common | |
| `TelnetOption` | one option, one direction, two ends, any number of crossing requests | `TelnetState` |
| `TelnetProofs` | agreement on an option; the reader of an encrypted direction follows; order, cipher and urgent mark of the ring | `TelnetOption`, `CipherChannel`, `Ring` |
| `TelnetClient`, `TelnetServer` | the handlers of both programs as functions of their state | `TelnetState` |
| `Telnet` | a session: the two over TCP with a user and a program on the pty | `INSTANCE` of both |
| `TelnetStream` | both byte streams of a session | |
| `Ring` | `telnet/ring.c` as the output of telnet uses it | |
| `Slc` | one special character of line mode at both ends | |
| `Encrypt`, `Auth` | `libtelnet/encrypt.c` and `enc_des.c`; `auth.c` and `kerberos5.c`, as functions of one peer | `Auth` extends `Encrypt` |
| `TelnetSecure` | client and daemon that authenticate and encrypt | `Auth`, `INSTANCE CipherChannel` |
| `CipherChannel` | abstract: what encryption promises for one direction | |
| `FtpServer`, `FtpClient` | what ftpd and ftp do with a command, a reply, data, a signal | `FtpClient` extends `FtpServer` |
| `Ftp` | a session: control and data connection, user, mishaps | both |
| `Syslog` | syslogd with its signals | |
| `SyslogProofs` | every line is written or counted; where syslogd crashes | `Syslog` |
| `Inetd` | main loop, signal handlers, servers, clients of services | |
| `InetdProofs` | sockets are kept, one server each | `Inetd` |
| `Talk` | talk clients and the daemons of their machines | |
| `TalkProofs` | connected users called each other | `Talk` |
| `Rcp`, `Rsh`, `Rlogin` | the r-commands | |
| `RcpProofs` | two copies of rcp stay in step; what is reported as copied is | `Rcp` |
| `RemoteProofs` | output, terminal and counter of a login; output and verdict of a command | `Rlogin`, `Rsh` |
| `Ping`, `Traceroute` | the two programs, the answers under way | |
| `ProbeProofs` | what both print is true | `Ping`, `Traceroute` |
| `MC*` | instances.  `MCBuffers`, `MCRemote`, `MCTelnetModes`, `MCTelnetSecure` hold several programs that share no state: while one runs, the others have ended | |

### Tftp

The state of the client is what `recvfile` and `send_file` keep in locals and
statics: `block` (an int in the client), `timeout`, `cbuf` (the packet sent
again), `peeraddr`, the local file.  A `tftpd` is a record per instance; an
instance is started by a request datagram.  One action is one datagram handled
or one expiry of a timer: `recvfile_next` is the acceptance of the expected
block with its write and its acknowledgement, `recvfile_resync` the branch that
drains the socket with `synchnet` and sends again, and so on.  A file is a
sequence of blocks of which only the last is short; the bytes are in
`TftpSubs`.  `th_block` is `block % Wrap`; `Wrap` is 65536 in the code.  Losing
a datagram is never delivering it: `net` is a set, a datagram can be delivered
late and in any order, and a bounded number is duplicated.  In `TftpSubs` bytes
are LF, CR, NUL and one other, the only ones the code distinguishes; `readit`
and `ReceiveBlock` are whole calls with their `read_ahead` and `write_behind`.

### TELNET negotiation: TelnetState, TelnetOption, TelnetClient, TelnetServer, Telnet

Both programs run the same machine: `want`, `state` and the count of requests
not answered (`do_dont_resp`, `will_wont_resp`).  `TelnetOption` has two ends
of one option in one direction with FIFO channels.  In `TelnetClient` and
`TelnetServer` operators carry the names of the C functions and map the whole
state of a program to the next one; what a function writes to the network is
appended to `out`, and `Telnet` moves it to the channel.  `TelnetServer` has
the start of a session as program counters for the `ttloop` waits, the copies
`termbuf` and `termbuf2` of the pty's modes, and the control packets of the
pty.  `LinemodeClients` allows a client that does not know LINEMODE: the kludge
line mode of the server is for those, and this repository's own client never
reaches it.  `HaveTIOCEXT` is the `#ifdef TIOCEXT`; TRUE in all runs (section 7).

### TELNET streams: TelnetStream, Ring

`TelnetStream` has `netobuf`, `nbackp` and `neturg` of telnetd, the connection
with its urgent mark (only the newest counts), and on the client's side
`telrcv_state`, `SYNCHing` and the queue for the terminal; `Scheduler` is one
turn of the client's loop in the order of `process_rings`.  Bytes carry the
number of the character they stand for, so that "shown once and in order" can
be said.  Every read and write takes a piece of any length.  `Ring` is the
circular buffer itself, with `clearto`, `mark` and the clock that tells a full
ring from an empty one; bytes carry the number of times they were encrypted.

### Special characters: Slc

Functions do not touch each other, so one is modelled, for every combination of
what the two systems make of it (`mylevel`, whether there is a place for it in
the modes, XON/XOFF) and for `_POSIX_VDISABLE` 0 (GNU/Linux, where a character
that is off has the same value as one that never had any) and 255, the same on
both systems.  Sub-negotiations cross in two FIFO channels; the user,
the programs on the pty and the flow control option change things meanwhile.

### Authentication and encryption: Encrypt, Auth, TelnetSecure, CipherChannel

A peer is a record of the static variables of the C files; every message is
tagged with the cipher it was written under (type, key, initial vector), and
`EncReadable` says that whoever reads it has just that one.  `TelnetSecure` has
the stages of `getterminaltype` that wait for authentication and encryption,
the alarm of `auth_wait`, the commands of the user and the reactions of
telnetd to a password prompt.  `CipherChannel` abstracts one direction: the
writer changes to an agreed cipher and leaves a mark, the reader changes at the
mark.  `UpChannel` and `DownChannel` are the two refinement mappings.

### Ftp

Commands of the client are programs that wait at `c.at` for a reply and go on
at `c.k`; server handlers map a turn (session, files, replies, data connection)
to the next.  Urgent ABOR is a signal that arrives between any two steps of a
transfer.  `c.last`, `c.astray` and `job.bad` are history: what was last reported
complete, whether a transfer was left without its last reply, and whether a read
or a write of the client's file failed.

### Syslog

The functions that call each other are frames of a stack, so that signals and
messages syslogd logs about itself come in between; `logmsg` serves one
destination per step.  `fprintlog` is two: the write (`Served`), whose failures
put messages above it, and the end, where `f_prevcount` is reset (frame `reset`);
between them (`Told`) the reader knows a repetition that is still counted.  A
handler that comes there and flushes may write it again, so the file is not
followed any more (`Torn`, section 7).  Times are ages in units of the alarm.  `out` is what a reader of each destination makes of the lines: `owed` are
the messages selected for it that are not there yet.  It is followed for files that
one line of every configuration names (`Tracked`), until an open or a
write fails, its selector is bad or a repetition may be written twice (`lost`).  A line too long for `f_prevline` is saved as an
empty one, so an empty message after it would be taken for its repetition;
`SyslogAssumption` leaves empty messages out.

### Inetd

`pc` is the position of the main loop.  Handlers run between any two steps;
from the counting of an invocation to the registration of the child signals are
blocked in the code and that is one step.  `config` reads one file per step,
since `reapchild` and `retry` are not blocked in it.  Freed entries that the
scan still uses keep their contents (`ServeFreed`).  `SocketsKept` is a conjunction
of `Watched`, `NsockCounts` and what makes them inductive: `EntriesTrue`, to whom
the socket of an entry belongs, and `LoopTrue`, what the main loop still holds of
an earlier `select`.  `Watched` excepts a service that a reload made nowait while
its server was running (section 7).

### Talk

A client is a program counter over the stages of `main`.  Every stage that is a
call of `ctl_transact` sends a request when it is entered and leaves on an
answer of the right type, whoever sent it.  `deaf` is the state after an
interrupted `select` (section 7).  A daemon's table is a sequence, newest
first, with `table_delete` as the code performs it.  A user is a login name (`Name`)
on a machine (`Host`); the daemon compares names and process ids only
(`fuzzy_comp`, `SamePeer`), so namesakes are one person to it.  `accept` and what
follows are separate steps: `re_invite` can run before `Accept`, after it, and
after the listening socket has been closed (`shut`); the connection it loses is
`leaked`.

### Rcp, Rsh, Rlogin

`Rcp`: tokens for records, units of data and the byte behind a file; every call
that may fail is a fault, after which the code's own error path runs.  `status` is
what each end exits with, modulo `StatusWrap`; `Cint` is the size that the sink's
`int` holds of the `off_t` that was sent.  `Rsh`:
rsh and the process that copies its input, the daemon as control process, the
command; the two connections and the pipe are queues with an end, and
`cmd.rem` and `cmd.pipe` keep what was written to them.  `Rlogin`:
the writer, the reader with its SIGURG handler at every point of the read loop,
rlogind with its pty, and `rlogind -d` counting its sessions.  `oob` reads the
modes of the terminal in one step (`OobMark`) and writes them back in another
(`OobBits`), the parent's `mode` between them or not; `par.late` says that the
reader has set the raw mode after the parent had reset it.  Units of output
are numbered, `fate` says what became of each.

### Ping, Traceroute

Packets under way are a set from which any may be read, late or never.  `ping`
has the table of `TabSize` bits, the sequence number modulo `SeqValues`, the
preload, `-c` and several hosts in turn.  `traceroute` sends by ttl and port
and reads whatever the raw socket gets.

## 3. Runs

| run | instance | shows |
|---|---|---|
| `tftp_transfer` | get or put of two blocks, two `tftpd`s, `Wrap` 4 | `Delivered`: whatever repeated requests, retransmissions, interrupts and failures do, the file written is a prefix of the right one and complete on success, on disks that accept every write; `rexmt 0` too |
| `tftp_ends` | one `tftpd`, files of 5 and 2 blocks with `Wrap` 3, one duplicate, failing writes at both ends | `GetIntegrity`, `ServerNotAhead`, the inductive `GetInv`; `TransfersEnd` |
| `telnet_session` | `telnetd -l`, three terminal names of which the second is known, two window sizes, three changes of pty modes | `SessionHolds` (`StartKnows` and `ModesFollow`); `Settles`: the server leaves every wait |
| `telnet_modes` | clients with and without LINEMODE, two user commands of every kind, one change of the pty; apart from that streams of CR LF, IAC and commands with up to two aborts, and what is typed in all modes | `OptionsAgree`, `ModesCurrent`; `OutputTrue`, `InTrue`; `SynchEnds` |
| `telnet_secure` | accepting ends with up to 8 requests; nine worlds of Kerberos answers and disabled types, two events of the user; one special character, two changes, `_POSIX_VDISABLE` 0 and 255 (XON and XOFF only with 0) | `Agreement`, the inductive `OptionInv`; `SecureSafe`, `Channels` (refinement); `SlcSafe`; `NegotiationsEnd` |
| `ftp_session` | about 150 scripts of up to four commands, one mishap (interrupt, failure, broken connection) anywhere | `DialogueHolds`, `SameFile`; `PromptReturns` |
| `syslog_repeats` | two configurations (pipe, host, terminal, users), three messages, one reload, failure or SIGTERM anywhere | `LinesAccounted`, `CrashCauses`; `NothingStuck` |
| `syslog_hangup` | two configurations, two signals | violation of `ReadOnHangup` (section 5) |
| `inetd_servers` | a limited stream service, a wait datagram service, an internal one and a tcpmux one; one reload between three configurations, one bad `bind`, two server processes | `SocketsKept`, `OneServer`; `ServicesReopen` |
| `talk_calls` | three users on two machines, two with one login name, two calls, two mishaps of any kind | `CallsRight`, `DeletesOwn`; `SetupEnds` |
| `remote` | four trees with any one call failing, two files whose size overflows the `int` of the sink, a status of one bit; a command with every refusal, one unit on each stream; a login with three events, a daemon with four sessions | `RcpSafe`, `RshSafe`, `RlSafe`; `RemoteEnds` |
| `buffers` | all files of up to 4 of 4 kinds of byte in 2-byte blocks; a ring of 4 bytes with 8 written; four command lines of ping with a table of 2 bits; three hops of two probes | `SameBytes`, `RetransmitStable`, `RingSafe`, `PingTrue`, `RouteTrue`; `AllEnd` |

Properties with several parts are conjunctions of named ones, each with its
comment; type invariants are among the parts.  Operators marked "Mutant" in the
modules are changes of the kind a bug would be; `PROJECT.json` says for which
definition each stands and which property it violates.

Why the bounds are enough for the cases that matter:

* `tftp`: two blocks are one full and one short one, so the first, a middle and
  the last acknowledgement differ; two servers are what a repeated request
  needs; five blocks with `Wrap` 3 pass the wrap of `th_block` before the end of
  the file.  A queue of one datagram still lets `synchnet` find one to drop.
* `telnet_session`, `telnet_modes`: two commands or three changes can cross
  each other and the answers to each other.  The streams: CR LF is cut at every
  place in both directions, one abort finds every state of the buffer, two with
  a command reach the sending of a partly sent command again.
* `telnet_secure`: 8 requests allow both ends four changes of mind with all
  answers outstanding, and the theorem removes the bound; two types and two ways
  are one to fail and one to fall back on; two events are a start crossing a stop.
* `ftp`: a second command sees what the first left behind; files have two or
  three characters because a buffer holds two.
* `syslog`: three messages are one, its repetition and another one; one event
  meets every stage of these.
* `inetd`: one reload suffices for every transition of an entry (added, kept,
  dropped or made nowait while its server runs); `toomany` 2 lets a service loop.
* `talk`: a stale invitation takes one user who gives up and one deletion that
  is late or lost; a third user is needed for an invitation to be mistaken.
  Ids stay below `MaxId`: wrapping takes 16000 calls.
* `remote`: a directory with a file and a file behind it is what a wrong step
  out of a directory would misplace; one fault per copy; in `Rlogin` two units of
  output are one before and one after a mark; one session more than
  `MaxChildren` and one that has ended are needed for the count.
* `buffers`: with 2-byte blocks a conversion falls on every position of a
  boundary; 8 bytes pass a ring of 4 twice; 4 sequence numbers pass a table of 2
  bits, so that a bit is used again and the number wraps; ports wrap at 4.

CHECK_DEADLOCK is off where the programs may legitimately rest: a session with
nothing to say, a daemon whose bounded requests are used up, programs that ended.

### Fairness

* `Tftp`: SIGALRM is delivered and a datagram in the socket is read.  No
  fairness for delivery: the network may lose everything.  `TransferEnds` is
  stated for `rexmtval > 0`, since `rexmt 0` turns the timer off.
* TELNET modules: both programs keep reading the connection, and telnetd the
  pty; TCP delivers; the terminal takes output in the end.  Users and programs
  need do nothing.
* `Ring`, `TftpSubs`: what can be sent is sent; sender and receiver go on.
* `Ftp`: client, server, connection and the time-outs of ftpd go on.
* `Syslog`: syslogd runs on and the alarm keeps coming (`domark` sets it again).
* `Inetd`: a handler that was entered goes on, an alarm that is set expires, and
  the main loop sets the alarm it is about to set.
* `Talk`: clients and daemons go on.  Loss is bounded, and a request is repeated
  only by the client itself.
* `Rcp`, `Rsh`, `Rlogin`, `Ping`, `Traceroute`: every process goes on, signals
  sent are delivered, timers expire; answers may all be lost.
* In `Telnet`, `Inetd` and `Talk` weak fairness is written out as
  `[]<>~enabled \/ []<><<step>>_vars` with the enabling condition as a
  definition of its own.

## 4. Proofs

`TelnetProofs`, for any number of requests:

* `OptionType`: `Spec => []TypeOK`; the counters of outstanding answers stay
  natural numbers although the code decrements them.
* `OptionInvariant`: `Spec => []OptionInv`.  `Agreement` speaks of states with
  nothing in flight and is not inductive.  `Balanced` adds what holds in
  between: the commands in flight from an end alternate and end with its wish;
  the peer's state is the opposite of the first of them; the outstanding answers
  of both ends together are as many as the commands in flight; and the parity of
  commands and answers tells whether the two wishes are equal.  Each of the four
  actions is shown to keep it for one direction; the other one follows by
  symmetry of `Balanced`.
* `OptionAgreement`: `Spec => []Agreement`.

`TftpProofs`, for any sets of files and servers, any numbers of blocks, `Wrap`,
retries, queue lengths and duplicates (`TftpAssumption`):

* `TypeCorrect`: `Spec => []TypeOK`.
* `GetInvariant`: `Spec => []GetInv`.  In a session of one get, every data packet
  in the network, in a queue or in a server's buffer carries a block of the
  requested file that is not beyond the client's counter, under its number modulo
  `Wrap`; every acknowledgement is of a block below the counter; so a server that
  advances is at most one block behind what the client asks for; and the client's
  counter does not pass `Wrap`, because it compares an int with a 16-bit number.
* `GetIsCorrect` (`GetIntegrity`) and `NeverAhead` (`ServerNotAhead`) follow.
* `PutIsStored`: `Spec => []PutStored`, from `PutInv`: in a session of one put,
  every data packet carries a block of the file that is sent, and an
  acknowledgement of block `i` says that the server that sent it has stored the
  blocks up to `i`, unless another instance has opened the file since (`Acked`).
  Files only grow, except when an instance that has acknowledged nothing opens
  them, so what an acknowledgement says stays true however late it is read.
* `TransferIsDelivered`: `Spec => []Delivered`, all of these together.
* The last two are for `DiskMayFail = FALSE`.  The code ignores the results of
  `write` at both ends (section 7), so a put to a disk that may fail is not
  stored, and the theorem would be false.  The theorems about a get hold with
  it, because of what they say then: which blocks were handed to `write`, all of
  them when the client reports success; that the local file is the remote one
  only if none of these writes failed.

The same module about `CipherChannel`, the abstract channel that both directions of
a connection implement (`Channels`, model-checked): `ReaderFollows`, the reader
that has taken all marks has the cipher of the writer, from the invariant that
the reader's cipher followed by the marks ends with the writer's; and
`NeverUnagreed`, neither end uses a cipher that was not agreed on.  Both are about
a channel that is not `forced`, so they say nothing of a session once the user
has changed the type, nor of one where the daemon's proof is not believed
(`Excused`, section 7).

`InetdProofs`, for any services, processes, configurations and limits:

* `SocketsAreKept`: `Spec => []SocketsKept`, and `OneServerOnly`:
  `Spec => []OneServer`.  The invariant is `EntriesTrue` (a closed socket belongs
  to nobody, a watched one to inetd, any other to the one server whose pid the
  entry holds or held) with `NsockCounts`, `LoopTrue` and the types.  `LoopTrue`
  is needed because handlers run between `select` and the use of what it
  returned: an entry still to be looked at is watched if it was ready and is
  open, since no handler takes a socket out of `allsock` without closing it.
  `config` and `reapchild` go through lists of files and processes; lemmas about
  the folds say what one file and one child do to the entries.

`TalkProofs`, for any users, machines, numbers of calls and mishaps, `TalkTypes`,
`CallsAreMutual` and `CallsAreRight`: every process named in an invitation, a
request, an answer or a connection was started for the call it stands for
(`Genuine`; a user's processes are numbered, so this stays true); the invitation
that a LOOK_UP finds is from a user of the name asked for and for one of the asker's
name (`Match`, `Found`, lemma `Served` about the daemon's handlers); a client asks
its own daemon and that of the user it calls, so one of the two is exact; whoever
connects or accepts therefore has a peer that calls its name (`Linked`), and of two
clients that have exchanged edit characters each has the other as its peer
(`Paired`).  `TalkAssumption` says that no two users of a machine have one name.

About `Ring`, for a ring of any size and any number of bytes, `RingIsSafe`:
`RingSpec => []RingSafe`.  A slot's distance from `consume` (`Place`) is its place
in the queue.  `Shape` ties the pointers and the clock to the number of bytes,
`Queue` numbers the bytes, `Crypt` says that while a cipher is on those from
`clearto` on are still clear and all others are as they were asked for (with the
cipher off `clearto` may be out of date, which is why nothing is said of it
then), and `MarkTrue` that the mark is at the byte marked last.  The exception is
`brim` of section 7.

`ProbeProofs`: `RouteIsTrue`, every answer shown for a hop was sent for a probe of
that hop, and `PingIsTrue`, counts and summary of ping are right, for any numbers
of hops, probes, hosts, packets and bits in the table.  Ports and sequence
numbers wrap; lemmas on `%` show that numbers in a window of the length of the
table stay apart (`WindowMod`, `NestedMod`) and that the ports of two hops differ
(`PortsDiffer`).

`RemoteProofs`, for any numbers of units, keys, sessions, children and events,
`RemoteIsSafe`: `RlSpec => []RlSafe`.  A unit of output is in one of six places
(the terminal's pty, rlogind's buffer, in flight, arrived, the reader's buffer,
shown) or has a fate (flushed, swallowed by `oob`, lost in `cleanup`); `Settled`
says that these are disjoint, complete, and the older the unit, the further on it
is.  Each way of moving output is one lemma about that account (`Show`, `Take`,
`Arrive`, `Send`, `Fetch`, `Written`, `Forget`), and a step of the protocol cites
one of them.  `ParentInv` keeps the terminal's modes between parent, child and
signals, `late` for the raw mode that the reader sets after the parent's reset, `MarkInv` bounds the urgent marks by the control requests, `CountInv`
makes `numchildren` the number of children that live or are not waited for,
except the one that is just forked.

`RshIsSafe`: `RshSpec => []RshSafe`, for any length of input and output.  Its
invariant `RshInv` ties the processes together.  `InputInv` counts what
stands in the primary connection, so that the copy's input never is taken for the
request; `StageInv` says how far client and daemon may be apart.  `PrimaryInv`:
until the client has read the verdict the connection holds the verdict and all
that the command wrote, and in `talk` what was shown and what is under way are
together all of it, so that an end with nothing under way means that all was
shown.  `SecondInv` says the same of the error output over the pipe, the control
process and the second connection, where the end is that of another process:
it needs that the control process ends or shuts the connection only when the pipe
is empty and the command is gone, or the client is.

`RcpProofs`, for any argument lists, any set of calls that may fail and any number
of failures, `RcpInvariant`: `RcpSpec => []RcpStrong`, and `RcpStaysSafe`:
`RcpSpec => []RcpSafe`.  Both are about lists whose sizes fit an `int` (`FilesFit`),
and a copy is good if the local end exits with status 0 after fewer than `StatusWrap`
errors: `Statuses` says that an end leaves with 1 or with the number of its errors
modulo `StatusWrap`, so such an end counted none.  Every step is first brought to one of 23 forms that say of
each variable what it becomes (`StepKinds`).  `RcpInStep` is not inductive, because
it says what is read next and not why nothing else is on its way.  `InStep` has the
shape of both directions and `Link`: a source that waits has its record on its way
behind errors only, or its answer on the way back, or the sink in the file.
`Clean` is about a source that has counted no error: everything behind it has
arrived, the file in work is at the right item, unit and name, no answer "ok" is
left over, and the frames of `sink` are as many as the directories around the item
(`Level`, from the nesting of the list).  This holds even after a failure that puts
the ends out of step: such an answer is an error, so the source counts it before
it can take a wrong "ok" for its own.  That an `rcp` which receives is told of
everything needs `Doomed`: until the sink counts an error of the source, an error
record and no end of a file is ahead of it; so a sink that ends without an error has
a source that has ended without one (`SinkClean`), unless the connection broke.
`RcpAssumption` says what an argument list can be: directories are closed and well
nested, an item is an argument if it is in none, and no two items are stored under
one name; of two files of one name the later is stored over the earlier, and both
are reported as copied.

`SyslogProofs`, for any configurations and any number of messages, failures,
reloads and signals, `MessagesKept`: `Spec => []LinesAccounted`, and
`CrashOnlyThere`: `Spec => []CrashCauses`.  The invariant `Good` speaks of a turn
(daemon, readers, lost), since every function of the code maps a turn to the next.
`OutOK`: what a file still owes its reader is what its entry counts.  That is not
inductive because functions interrupt each other: `StackOK` says of every frame on
the stack of calls what it relies on when it goes on.  `init` and `die` need that
the entries they have passed stay `Settled`, which holds because no message is
logged while `Initialized` is off; once `die` has set it again what comes in
between is syslogd's own (`Own`), so only `LastWords` can be left uncounted.
`logmsg` between the flush of the old line and the new one needs that nothing is
counted meanwhile.  `Good` does not hold within `fprintlog`, where what was written
is still counted (`Owes`); the invariant is that `Good` holds of the turn in which
the `reset` frames have run (`Clean`, `Sound`), and that a handler which starts in
such a state loses no more than the files of these frames (`TornTop`).
`UseOK` says that entries are freed only while no configuration is
in use, nor may be again when `die` restores `Initialized`; from that and `EndOK`
the two causes of a crash are the only ones.

The proofs rest on the named assumptions of the constants only, which TLC
evaluates in the runs, and on `DiskMayFail = FALSE` where it is named.

Only model-checked:

* everything about liveness, and whatever needs ENABLED; the refinement of
  `CipherChannel`;
* `DeletesOwn`: it rests on ids of a daemon being different, and they wrap at
  `MaxId` (16000 in the code), so it holds for the calls within a bound only;
* `TftpSubs`, `TelnetStream`: folds over bytes of any number, whose values the
  provers cannot follow by induction;
* `Telnet`, `TelnetSecure`, `Slc` and `Ftp`; `NothingStuck` of `Syslog`.

## 5. Disagreement between code and documents

`syslog_hangup`, `syslogd/syslogd.c:593`: `restart` is cleared after `init`
returned, so a SIGHUP during the reload is forgotten, and a configuration
changed meanwhile is not read, although the manual says it is read whenever a
hangup signal is received.

## 6. Not modelled

* TELNET: STATUS, TN3270, `.telnetrc`, utmp, full buffers of telnetd.
* `libtelnet`: Kerberos 4, Shishi, SRA and the ciphers themselves.
* TFTP: the command parser; the permission checks are one refusal.
* FTP: macros, `.netrc`, name mapping, proxy, the back ends of authentication,
  the parser of paths, the list program.
* `syslogd`: host names, joining of kernel lines, sockets, options.
* `inetd`: the dialogue of tcpmux, the internal services' contents, the parser
  of the configuration line; handlers are atomic except between the files that
  `config` reads.
* `talk`, `talkd`: the screen, the text, access lists, port reuse.
* r-commands: Kerberos, Shishi, PAM, trusted hosts, utmp; a refusal is one outcome.
* `ping`, `traceroute`: packets, round trip times, options.
* `uucpd`: built without `BSDINETD` and `BSD4_2` its `main` does nothing.
* `ifconfig`, `route`, `hostname`, `whois`, `libls`, `logger`, helpers: parsing
  and printing around one system call or one exchange.

## 7. Observations without a run

What the code does in cases that a property excepts, a bound leaves out, or
that were met while modelling.

**TFTP.**  The client takes the port of any datagram it reads as the peer's; the
socket outlives a transfer, so a late block 1 of the last get is written into
the file of the next one (`tftp/tftp.c:272`).  Dallying after a write compares
`dp`, which still points to the header of the next block's buffer, and not
`buf`: the final acknowledgement is not sent again (`tftpd/tftpd.c:628`).  A
full disk is acknowledged before `write` fails (`libinetutils/tftpsubs.c:197`:
"this is a lie of course").  A late duplicate of a write request truncates the
completed file (hence the condition in `PutStored`).  The client ignores failed
writes in the same way (`tftp/tftp.c:253`, `302`, `316`): a get to a full disk
reports success with an incomplete file (hence the condition in `GetIntegrity`,
whose `local` records what each write stored).  An interrupted client
acknowledges a block it did not receive.

**TELNET negotiation.**  A refusal is never acknowledged in the counters of an
end that did not ask (`telnetd/state.c:477`), which is why `Agreement` is about
accepting ends.  Without TIOCEXT `LinemodeIsExternal` does not hold
(`telnetd/termstat.c:82`), and `EditModesAgree` does not survive a `mode edit`
of the user that crosses a mask of the server (464).  `send_dont (ECHO, 1)` at
`state.c:671` sends nothing.  A flow control packet sends the flow mode of before
(`telnetd.c:625`).  A client that answers only one of the two environment options
may keep the server waiting (`utility.c:763`).  The SIGWINCH handler writes into
the ring that the main program fills (`telnet/sys_bsd.c:984`).  After `send do
timing-mark` an interrupt discards output for ever, because `flushout` is reset
only if DO TM is not wanted (`telnet/telnet.c:312`); `OutputResumes` excepts it.

**TELNET streams.**  `netclear` keeps a command of which a part was sent and
sends it again from its beginning (`telnetd/utility.c:509`): after a short
write, or between the urgent IAC and its DM, a second abort makes the client
read IAC IAC; an option is lost, a byte of a command is shown, or the DM itself
is lost and the client discards until the next one (`torn` excepts these).  The
control byte 0 of packet mode is sent on as NUL (`telnetd.c:634`).  In line mode
a CR LF cut between two reads reaches the pty as CR instead of LF
(`state.c:207`); without echo the client shows LF or CR LF depending on the cut;
`crmod` doubles the new line of a CR LF when telnetd echoes.  telnetd's own
`SYNCHing` has no effect on its `telrcv`.  Ring: `ring_decrement` subtracts the
size (`ring.c:75`), so a mark set when `supply` has just wrapped is lost
(`wrapped`); a ring filled to the brim is sent unencrypted when `clearto` equals
`supply` (317; `brim`); the third condition of `ring_consumed` lacks a
comparison (185) and is never reached; NETADD does not look for room.

**Special characters.**  A second buffer that comes before the first `localstat`
is dropped without an answer (`slc.c:452`; `dropped`).  `set x off` is answered
NOSUPPORT without changing the pty's character, so the next change of the pty
enables it again.  `slc_export` takes the level from before the defaults are
restored (`telnet.c:1330`).  A late acknowledgement of an older value is taken,
and for XON and XOFF proposed again, so the user's last change is lost
(`SlcLast` excepts them).

**Encryption.**  The client's `fb64_is` does not ask whether it has a key: when
the daemon's proof is not believed and no other way works, the daemon encrypts to
a client without one (`Excused`).  A bad RESPONSE makes the client try again
twice (`kerberos5.c:361`, 395), so the ends' views differ (`intact`).  START
carries no type, so `encrypt type`, enable and disable in the middle can garble
(`retypes`).  A second type's key negotiation stalls, because an equal ENC_KEYID
is never answered (`encrypt.c:826`).  While a password is typed `localstat`
alternates between REQSTART and REQEND (`termstat.c:187`).  The result of
`net_write` is ignored when the ring has no room (`authenc.c:50`).

**FTP.**  SIGINT before `curtype = newtype` leaves the ends with different types
(`cmds.c:425`).  A binary restart maps an unaligned offset and sends nothing
(`ftpd.c:1175`); an ASCII restart loses or miscounts characters.  An aborted NLST
leaves `data` open (1711).  Restarts that fail return without the last reply
(`ftp.c:903`, 966, 1029).  `transflag` is set before `setjmp` (`ftpd.c:1159`).
`remglob` with globbing off is inverted (`cmds.c:1007`), `newer` compares dates
field by field (850), `restart_point` stays when a transfer fails, `getreply`
leaves `cpend` at end of file, `mput` starts again from the first file.  When a
read or a write of the client's own file fails, the client says so ("local: ...",
`ftp.c:730`, `770`, `1004`, `1087`), closes the data connection and reads the last
reply, which is 226 when the server has noticed nothing: code and reply are those
of a complete transfer (hence `bad` in `SameFile`).  The result of `fclose`, which
writes the last buffer of a file in TYPE A, is not looked at (1090).

**syslogd.**  SIGTERM and, in a flush of `init` or `die`, SIGALRM are not blocked in
`fprintlog`: when one comes between the making of a repetition line (1156) and the
reset of `f_prevcount` (1325), `die` or `domark` writes the repetition as well, and
the log has it twice (named in `Accounted`).  SIGTERM in `logmsg` drops the message
for the destinations that are not served yet, and one that comes while `f_prevhost`
is freed and saved again (1087-1089) may find it freed; the model saves the line
and writes it in one step.  `-S` logs each line twice (921).  A host unknown at start crashes
`fprintlog` on a NULL `f_prevhost` where ChangeLog:6278 promises retries
(`CrashCauses` names it).  Flushes forward repetitions of remote messages that
would not be forwarded themselves.  What is left of an over-long line is counted
as repetition of an empty one.  `init` frees entries with signals unblocked.

**inetd.**  `nsock` is one too low after a SIGHUP while a wait service runs
(1050), also because `nextconfig` purges after every file (854), although
`inetd.8:94` says they are merged; `NsockCounts` states the direction that holds.
A server that ends between the copy of `allsock` and `select` leaves its socket
out until the next event (493).  `socket` failing sets no alarm (918).  `wait`
changed to `nowait` while a server runs leaves the socket unwatched (792).
`se_max` is not updated by a reload; a line's limit does not override `-R` (536).
A looping stream service leaks the accepted connection (553).

**talk.**  `select` interrupted by the timer ends the resend loop with `nready`
-1, and the client waits in `recv` for ever if the request was lost
(`ctl_transact.c:101`; `SetupEnds` excepts `Deaf`).  `insert_table` does not set
`prev` of the entry that was first, so `table_delete` cuts off the newer ones
(`talkd/table.c:168`).  The first ANNOUNCE carries the greatest id, so its
duplicate rings again (`process.c:146`).  Entries never expire (`table.c:68`).
The daemon compares login names only (`table.c:93`, `114`): bob of another machine
finds the invitation to bob and is connected to a caller who called somebody else
(`MutualCall` speaks of names, and of one exact end).  SIGALRM between the
return of `accept` and `start_msgs` (`invite.c:105`) makes `re_invite` jump back to
`accept`: the accepted connection is forgotten and the peer waits for edit
characters for ever (`Forgotten`), or `accept` on the closed socket ends the program.

**rcp.**  The program ends with `exit (errs)` (295): 256 errors are status 0
(`RcpCopied` excepts them).  The sink has the size of a file in an `int` (669, 773):
a file of 2^31 bytes or more is cut to its size modulo 2^32, or refused by `ftruncate`
when that is negative, and a zero byte of its data can be taken for the answer
behind it (`FilesFit`; `RcpEnds` holds for such files too).  Failing `fchmod`, `utimes` of a directory or `allocbuf` put the ends out
of step (`Extra`).  End of file between records ends a local sink with status 0
(695).  Of two files with the same last name the second replaces the first.
**rsh.**  `rexecd`'s `error` adds \1 behind the NUL (335); `kcmd` waits in
`accept` for ever (208); a signal before `setpgid` is lost (`rshd.c:933`).
**rlogin.**  `oob` reads data before the mark and never counts it (1068); SIGURG
between `read` and the assignment (1205); SIGCHLD is ignored while stopped (980);
`mode(1)` of the child after `mode(0)` of `done` (704); `oob` writes back the modes
it has read before (1092, 1100), so a `mode(0)` between is undone and the terminal
stays raw, and after `mode(1)` of `stop` it may stay cooked; a window record cut by a
read is taken for keys (`rlogind.c:1443`); SIGCHLD drops unsent output (1455);
`numchildren` admits one session more, and the wait for it can miss its wake-up
(459); SIGHUP leaves the terminal in raw mode (775).

**ping.**  `nresp` counts duplicates and errors, so `-c` may end before all
distinct answers; answers for an earlier host or late by a table are counted for
the current one (`late`).  The table has 128 bytes of which 128 bits are used.  A
failed `sendto` also clears the bit.  `stop` stays set, so later hosts get one
echo each.  **traceroute.**  `pid` is never assigned (67), so all ICMP probes are
alike and answers to another traceroute are shown (`Attribution` is for UDP).  Each
foreign packet restarts the wait of 3 seconds.

## 8. Plan

Done: TFTP, TELNET with its streams, special characters, authentication and
encryption, FTP, syslogd, inetd, talk, the r-commands, ping and traceroute.
To come:

1. Proofs: `SlcSafe`; `ModesCurrent`; `DialogueHolds`.
2. A refinement of one direction of `Telnet` to `TelnetOption`, and of `Syslog`
   to the multiset of lines per output.
3. FTP proxy transfers; full buffers in `TelnetStream`; STATUS.
4. `libinetutils/argcv.c` and the shared helpers as pure operators.
