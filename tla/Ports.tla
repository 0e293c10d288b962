------------------------------- MODULE Ports -------------------------------
(* Green threads that copy text through descriptors: arc_readc and arc_writec*)
(* of io.c with the string, file and socket ports, and the part of the       *)
(* dispatcher (thread.c) that waits for descriptors and for the clock.       *)
(*                                                                           *)
(* "writer" copies a string port, character by character, to a socket;       *)
(* "reader" copies a socket, or a file over a pipe, to a string port;        *)
(* "sleeper" sleeps.  The peer at the other end takes bytes and, when it has *)
(* the whole text, sends it back.  Bytes and characters are numbers.         *)
(* An operator named Slip... is a faulty variant of the definition after it. *)
EXTENDS Integers, Sequences, SequencesExt, Utf

CONSTANTS Text,       \* the runes to be copied
          Kinds,      \* what the reader may read from: "sock", "file"
          Cap,        \* bytes the system buffers in each direction
          SharedFd,   \* are the reader's and the writer's descriptor the same?
          Drift,      \* does the clock advance while threads run?
          Naps, Nap,  \* how often and how long the sleeper sleeps
          Horizon,    \* the clock stops there
          Word        \* 2^bits of an unsigned long long

ASSUME PortsAssumption ==
    /\ Text \in Seq(Nat) /\ Kinds \subseteq {"sock", "file"}
    /\ Cap \in Nat \ {0} /\ SharedFd \in BOOLEAN /\ Drift \in BOOLEAN
    /\ {Naps, Nap, Horizon, Word} \subseteq Nat /\ Horizon < Word

VARIABLES
    \* the outside world: bytes on the way out and in, what the peer has, how
    \* much of that it has sent back, and the clock
    out, in, peer, back, now,
    \* the ports: the position in the text, the rune put back, the buffer of
    \* the FILE, the string that was written
    kind, idx, unget, stdio, str,
    \* the threads: state, instruction, bytes in hand, time to wake up
    state, pc, wbuf, rbuf, wakeup, naps,
    \* the dispatcher: its queue, its place in it, and the counts of this pass
    vmthreads, turn, phase, nthreads, iowait, nsleep, minsleep, gcstatus,
    eptimeout,
    \* the event that epoll looks for at each descriptor, "none" if it does not
    epoll

net == <<out, in, peer, back>>
wvars == <<idx, wbuf>>
rvars == <<kind, unget, stdio, str, rbuf>>
svars == <<wakeup, naps>>
pass == <<nthreads, iowait, nsleep, minsleep>>
rest == <<gcstatus, eptimeout>>
place == <<vmthreads, turn, phase>>
sched == <<place, pass, rest, epoll>>
vars == <<net, now, wvars, rvars, svars, state, pc, sched>>

Threads == {"reader", "writer", "sleeper"}
States == {"ready", "iowait", "sleep", "release"}
Fds == {"r", "w"}
FdOf(t) == IF SharedFd \/ t = "writer" THEN "w" ELSE "r"
SlipEventOf(t) == "in"
EventOf(t) == IF t = "writer" THEN "out" ELSE "in"
None == -1
Never == Word - 1
Signed(n) == IF n >= Word \div 2 THEN n - Word ELSE n
Until(t) == (t - now) % Word      \* unsigned subtraction

Sent == Encoded(Text)
Complete == Len(peer) = Len(Sent)
Closed == Complete /\ back = Len(peer)
Readable == in # <<>> \/ Closed
Writable == Len(out) < Cap
Fires(fd) == \/ epoll[fd] = "in" /\ Readable /\ (fd = FdOf("reader"))
             \/ epoll[fd] = "out" /\ Writable /\ (fd = FdOf("writer"))

Init ==
    /\ out = <<>> /\ in = <<>> /\ peer = <<>> /\ back = 0 /\ now = 0
    /\ kind \in Kinds /\ idx = 0 /\ unget = None /\ stdio = <<>> /\ str = <<>>
    /\ state = [t \in Threads |-> "ready"]
    /\ pc = [t \in Threads |-> "next"]
    /\ wbuf = <<>> /\ rbuf = <<>> /\ wakeup = 0 /\ naps = Naps
    /\ vmthreads \in {<<"reader", "writer", "sleeper">>, <<"writer", "reader", "sleeper">>}
    /\ turn = 1 /\ phase = "visit"
    /\ nthreads = 0 /\ iowait = <<>> /\ nsleep = 0 /\ minsleep = Never
    /\ gcstatus = 0 /\ eptimeout = 0
    /\ epoll = [fd \in Fds |-> "none"]
----------------------------------------------------------------------------
(* The peer and the clock.                                                   *)
PeerTakes == /\ out # <<>>
             /\ peer' = Append(peer, Head(out)) /\ out' = Tail(out)
             /\ UNCHANGED <<in, back, now, wvars, rvars, svars, state, pc, sched>>

PeerAnswers == /\ Complete /\ back < Len(peer) /\ Len(in) < Cap
               /\ in' = Append(in, peer[back + 1]) /\ back' = back + 1
               /\ UNCHANGED <<out, peer, now, wvars, rvars, svars, state, pc, sched>>

BetweenPasses == phase = "visit" /\ turn = 1 /\ nthreads = 0
Tick == /\ Drift \/ BetweenPasses
        /\ now < Horizon
        /\ now' = now + 1
        /\ UNCHANGED <<net, wvars, rvars, svars, state, pc, sched>>
----------------------------------------------------------------------------
(* One pass of arc_thread_dispatch over its queue.                           *)
Current == vmthreads[turn]
Visiting == phase = "visit" /\ turn <= Len(vmthreads)
Counted == nthreads' = nthreads + 1
Onward == turn' = turn + 1 /\ UNCHANGED <<vmthreads, phase>>

VisitReleased ==
    /\ Visiting /\ state[Current] = "release"
    /\ Counted
    /\ vmthreads' = RemoveAt(vmthreads, turn)
    /\ UNCHANGED <<turn, phase, iowait, nsleep, minsleep, rest, epoll>>
    /\ UNCHANGED <<net, now, wvars, rvars, svars, state, pc>>

VisitSleeping ==
    /\ Visiting /\ state[Current] = "sleep" /\ now < wakeup
    /\ Counted
    /\ nsleep' = nsleep + 1
    /\ minsleep' = Min({minsleep, wakeup})
    /\ Onward
    /\ UNCHANGED <<iowait, rest, epoll>>
    /\ UNCHANGED <<net, now, wvars, rvars, svars, state, pc>>

VisitWaiting ==
    /\ Visiting /\ state[Current] = "iowait"
    /\ Counted
    /\ iowait' = <<Current>> \o iowait
    /\ Onward
    /\ UNCHANGED <<nsleep, minsleep, rest, epoll>>
    /\ UNCHANGED <<net, now, wvars, rvars, svars, state, pc>>

(* A thread that is ready, or whose sleep is over, gets a quantum.           *)
VisitReady ==
    /\ Visiting
    /\ state[Current] = "ready" \/ (state[Current] = "sleep" /\ now >= wakeup)
    /\ state' = [state EXCEPT ![Current] = "ready"]
    /\ Counted
    /\ phase' = "run"
    /\ UNCHANGED <<vmthreads, turn, iowait, nsleep, minsleep, rest, epoll>>
    /\ UNCHANGED <<net, now, wvars, rvars, svars, pc>>

(* The end of the trampoline's turn: a thread that can go on may have used   *)
(* up its quantum, and one that can not has to stop.                         *)
Stay == UNCHANGED place
Stop == phase' = "visit" /\ turn' = turn + 1 /\ UNCHANGED vmthreads
GoesTo(t, where) == pc' = [pc EXCEPT ![t] = where] /\ UNCHANGED state
                    /\ (Stay \/ Stop)
Becomes(t, st) == state' = [state EXCEPT ![t] = st] /\ UNCHANGED pc /\ Stop
Runs(t, where) ==
    /\ phase = "run" /\ Current = t /\ pc[t] = where
    /\ UNCHANGED <<pass, rest, epoll, now>>
----------------------------------------------------------------------------
(* The writer: arc_readc from the string port, then arc_writec.              *)
TextRune == Text[idx + 1]      \* sio_getb
WriterNext ==
    /\ Runs("writer", "next")
    /\ IF idx < Len(Text)
       THEN /\ wbuf' = RuneToChar(TextRune) /\ idx' = idx + 1
            /\ GoesTo("writer", "ready")
       ELSE UNCHANGED wvars /\ Becomes("writer", "release")
    /\ UNCHANGED <<net, rvars, svars>>

(* arc_writeb: sock_wready waits until a byte can be sent.                   *)
WriterReady ==
    /\ Runs("writer", "ready")
    /\ IF Writable THEN GoesTo("writer", "put") ELSE Becomes("writer", "iowait")
    /\ UNCHANGED <<net, wvars, rvars, svars>>

WriterPut ==
    /\ Runs("writer", "put")
    /\ out' = Append(out, Head(wbuf)) /\ wbuf' = Tail(wbuf)
    /\ GoesTo("writer", IF wbuf' = <<>> THEN "next" ELSE "ready")
    /\ UNCHANGED <<in, peer, back, idx, rvars, svars>>
----------------------------------------------------------------------------
(* The reader: arc_readc from a descriptor, then arc_writec to a string port.*)
(* sio_putb, at the end of its string.                                       *)
Deliver(r) == str' = Append(str, r)
PutBack(r) == unget' = r

ReaderTakesBack ==
    /\ Runs("reader", "next") /\ unget # None
    /\ Deliver(unget) /\ unget' = None
    /\ GoesTo("reader", "next")
    /\ UNCHANGED <<net, wvars, kind, stdio, rbuf, svars>>

ReaderNext ==
    /\ Runs("reader", "next") /\ unget = None
    /\ GoesTo("reader", "ready")
    /\ UNCHANGED <<net, wvars, rvars, svars>>

(* fio_ready and sock_ready: select does not see the buffer of the FILE.     *)
ReaderReady ==
    /\ Runs("reader", "ready")
    /\ IF Readable THEN GoesTo("reader", "get") ELSE Becomes("reader", "iowait")
    /\ UNCHANGED <<net, wvars, rvars, svars>>

(* arc_readc has collected the bytes s: it decodes them as soon as fullrune  *)
(* says so, reading what the stack held beyond them.  arc_peekc puts the     *)
(* rune back.                                                                *)
Assemble(s) ==
    IF FullRune(s)
    THEN /\ rbuf' = <<>>
         /\ GoesTo("reader", "next")
         /\ \E junk \in {0, Tx} :
                LET r == CharToRune(s \o [i \in 1 .. UTFmax |-> junk]).rune
                IN \/ Deliver(r) /\ UNCHANGED unget
                   \/ PutBack(r) /\ UNCHANGED str
    ELSE /\ rbuf' = s
         /\ GoesTo("reader", "ready")
         /\ UNCHANGED <<str, unget>>

EndOfFile == Becomes("reader", "release") /\ UNCHANGED <<rvars, in>>

(* sock_getb: recv.                                                          *)
SockGet ==
    /\ Runs("reader", "get") /\ kind = "sock"
    /\ IF in = <<>> THEN EndOfFile
       ELSE in' = Tail(in) /\ Assemble(Append(rbuf, Head(in))) /\ UNCHANGED <<kind, stdio>>
    /\ UNCHANGED <<out, peer, back, wvars, svars>>

(* fio_getb: fgetc refills an empty buffer with all there is.                *)
FileGet ==
    /\ Runs("reader", "get") /\ kind = "file"
    /\ LET buffer == IF stdio = <<>> THEN in ELSE stdio IN
       IF buffer = <<>> THEN EndOfFile
       ELSE /\ in' = IF stdio = <<>> THEN <<>> ELSE in
            /\ stdio' = Tail(buffer)
            /\ Assemble(Append(rbuf, Head(buffer)))
            /\ UNCHANGED kind
    /\ UNCHANGED <<out, peer, back, wvars, svars>>
----------------------------------------------------------------------------
(* arc_sleep                                                                 *)
Sleeps ==
    /\ Runs("sleeper", "next")
    /\ IF naps = 0 \/ now + Nap > Horizon
       THEN Becomes("sleeper", "release") /\ UNCHANGED svars
       ELSE /\ wakeup' = now + Nap /\ naps' = naps - 1
            /\ Becomes("sleeper", "sleep")
    /\ UNCHANGED <<net, wvars, rvars>>
----------------------------------------------------------------------------
(* After the pass: waiting, and the collector.                               *)
Over == phase = "visit" /\ turn > Len(vmthreads)

Finish == /\ Over /\ nthreads = 0
          /\ phase' = "done"
          /\ UNCHANGED <<net, now, wvars, rvars, svars, state, pc, vmthreads, turn,
                         pass, rest, epoll>>

SlipTimeout == IF gcstatus = 0 THEN 0
               ELSE IF Len(iowait) + nsleep = nthreads THEN -1 ELSE 0
Timeout == IF gcstatus = 0 THEN 0
           ELSE IF Len(iowait) = nthreads THEN -1
           ELSE IF Len(iowait) + nsleep = nthreads THEN Signed(Until(minsleep))
           ELSE 0

(* process_iowait: only the first waiter in the list registers its event.    *)
Registered ==
    [fd \in Fds |->
        LET mine == SelectSeq(iowait, LAMBDA t : FdOf(t) = fd) IN
        IF epoll[fd] # "none" \/ mine = <<>> THEN epoll[fd] ELSE EventOf(Head(mine))]
Register ==
    /\ Over /\ nthreads > 0
    /\ phase' = IF iowait = <<>> THEN "nap" ELSE "poll"
    /\ epoll' = IF iowait = <<>> THEN epoll ELSE Registered
    /\ eptimeout' = IF iowait = <<>> THEN eptimeout ELSE Timeout
    /\ UNCHANGED <<net, now, wvars, rvars, svars, state, pc, vmthreads, turn, pass, gcstatus>>

(* The table maps a descriptor to the last waiter in the list.               *)
Woken(fds) == {t \in Range(iowait) :
                  /\ FdOf(t) \in fds
                  /\ t = Last(SelectSeq(iowait, LAMBDA u : FdOf(u) = FdOf(t)))}
Poll ==
    /\ phase = "poll"
    /\ LET fds == {fd \in Fds : Fires(fd)} IN
       \/ /\ fds # {}
          /\ state' = [t \in Threads |-> IF t \in Woken(fds) THEN "ready" ELSE state[t]]
          /\ epoll' = [fd \in Fds |-> IF fd \in fds THEN "none" ELSE epoll[fd]]
          /\ UNCHANGED now
       \/ /\ fds = {} /\ eptimeout >= 0 /\ now + eptimeout <= Horizon
          /\ now' = now + eptimeout
          /\ UNCHANGED <<state, epoll>>
    /\ phase' = "nap"
    /\ UNCHANGED <<net, wvars, rvars, svars, pc, vmthreads, turn, pass, rest>>

(* nanosleep when all are asleep, then the next step of the collector.       *)
NapLength == IF nsleep = nthreads THEN Until(minsleep) ELSE 0
Rest ==
    /\ phase = "nap" /\ now + NapLength <= Horizon
    /\ now' = now + NapLength
    /\ gcstatus' \in {0, 1}
    /\ phase' = "visit" /\ turn' = 1
    /\ nthreads' = 0 /\ iowait' = <<>> /\ nsleep' = 0 /\ minsleep' = Never
    /\ UNCHANGED <<net, wvars, rvars, svars, state, pc, vmthreads, eptimeout, epoll>>
----------------------------------------------------------------------------
Dispatch == \/ VisitReleased \/ VisitSleeping \/ VisitWaiting \/ VisitReady
            \/ WriterNext \/ WriterReady \/ WriterPut
            \/ ReaderTakesBack \/ ReaderNext \/ ReaderReady \/ SockGet \/ FileGet
            \/ Sleeps \/ Register \/ Poll \/ Rest \/ Finish
Next == Dispatch \/ PeerTakes \/ PeerAnswers \/ Tick

Spec == Init /\ [][Next]_vars
(* The process runs, the peer does its part, and time goes on.               *)
FairSpec == /\ Spec
            /\ WF_vars(Dispatch) /\ WF_vars(PeerTakes) /\ WF_vars(PeerAnswers)
            /\ SF_vars(Tick)
----------------------------------------------------------------------------
TypeOK ==
    /\ out \in Seq(Byte) /\ in \in Seq(Byte) /\ peer \in Seq(Byte)
    /\ Len(out) <= Cap /\ Len(in) <= Cap /\ back \in 0 .. Len(peer)
    /\ now \in 0 .. Horizon /\ idx \in 0 .. Len(Text)
    /\ kind \in Kinds /\ stdio \in Seq(Byte) /\ str \in Seq(Nat)
    /\ unget \in Nat \cup {None}
    /\ wbuf \in Seq(Byte) /\ rbuf \in Seq(Byte)
    /\ Len(wbuf) <= UTFmax /\ Len(rbuf) < UTFmax
    /\ state \in [Threads -> States]
    /\ pc \in [Threads -> {"next", "ready", "get", "put"}]
    /\ vmthreads \in Seq(Threads) /\ turn \in 1 .. Len(vmthreads) + 1
    /\ phase \in {"visit", "run", "poll", "nap", "done"}
    /\ epoll \in [Fds -> {"none", "in", "out"}]

(* The string port holds the characters that were written, in their order:   *)
(* none is lost, split, doubled or decoded before all its bytes are there    *)
(* (arc_readc, arc_writec, arc_peekc, the getb and putb of the ports).       *)
TextArrives == IsPrefix(str, Text)

(* epoll_wait is told to wait for ever only when no thread could go on        *)
(* without a descriptor, but for a sleeper whose time came while this pass   *)
(* went on: the pass counted it as asleep, and minsleep lies behind the      *)
(* clock when the timeout is made of it (arc_thread_dispatch).               *)
WaitsForeverOnlyForOthers ==
    phase = "poll" /\ eptimeout < 0 =>
        \A t \in Range(vmthreads) : \/ state[t] = "iowait"
                                    \/ state[t] = "sleep" /\ wakeup < now

(* "If all threads are either asleep, blocked, or waiting on I/O, wait for   *)
(* at most the time until the first sleep expires" (arc_thread_dispatch).    *)
WaitsAtMostForTheFirstSleep ==
    phase = "poll" /\ (\E t \in Range(vmthreads) : state[t] = "sleep") => eptimeout >= 0

(* Whatever the order of the queue, the sizes of the buffers and the time    *)
(* that passes, the whole text makes the trip, and its reader and writer     *)
(* come to their ends: no wait misses its event.  Of the sleeper it says     *)
(* nothing: alone and late, it may never wake up (arc_thread_dispatch,       *)
(* process_iowait).                                                          *)
AllIsCopied ==
    <>(str = Text /\ state["reader"] = "release" /\ state["writer"] = "release")
=============================================================================
