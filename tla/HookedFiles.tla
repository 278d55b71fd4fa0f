---------------------------- MODULE HookedFiles ----------------------------
(***************************************************************************)
(* EFileContext: what the library remembers of a descriptor that fibers    *)
(* use.  The first hooked call on a pipe or socket makes the open file     *)
(* non-blocking and notes whether the program had asked for that; from     *)
(* then on fcntl(), ioctl() and setsockopt() keep the program's view in    *)
(* the context, close() and dup2() drop it, accept() hides the library's   *)
(* mode from the new socket, and the end of join() restores the files.     *)
(*                                                                         *)
(* The contexts know nothing of dup(), so a file is taken to be duplicated *)
(* before its first use and used through one descriptor; and, as in any    *)
(* program with threads, nobody closes a descriptor another is using, or   *)
(* sets its timeout meanwhile.  `Fds' are the numbers the table of         *)
(* contexts has a place for: its index is off the table for 0 and for the  *)
(* multiples of FD_CHUNK_CAPACITY, 32768.                                  *)
(***************************************************************************)
EXTENDS FiniteSets

CONSTANTS
    Threads,    \* scheduler threads; each runs one fiber at a time
    Fds,        \* descriptor numbers
    Files,      \* open file descriptions
    Times,      \* values of SO_RCVTIMEO and SO_SNDTIMEO, as the kernel keeps them
    Millis,     \* Millis[time]: the int of milliseconds that a context makes of it
    Default,    \* the time a new socket has
    Inherits,   \* a socket from accept() has the mode of the listener, as on BSD
    None        \* null

ASSUME HookedFilesAssumption ==
    /\ Default \in Times
    /\ DOMAIN Millis = Times
    /\ Inherits \in BOOLEAN
    /\ None \notin Files \union Fds \union Times \union BOOLEAN
    /\ None \notin [user : BOOLEAN, timeo : {Millis[time] : time \in Times}]

VARIABLES
    file,       \* file[fd]: the open file fd refers to
    nonblock,   \* nonblock[o]: O_NONBLOCK
    timeo,      \* timeo[o]: the socket's own timeouts
    ctx,        \* hookedFiles[fd]: userNonBlocked and the timeouts, or None
    op,         \* op[t]: the call the fiber on t is inside
    joined,     \* join() cleared the contexts
    want,       \* no state of the code: want[o], the mode the program last asked for
    refused     \* no state of the code: refused[fd], what the kernel refused last

kernelVars == <<file, nonblock, timeo>>
ghostVars == <<want, refused>>
vars == <<kernelVars, ctx, op, joined, ghostVars>>

Contexts == [user : BOOLEAN, timeo : {Millis[time] : time \in Times}]
Kinds == {"io", "accept", "setfl", "timeout"}
Calls == [kind : Kinds \union {"close", "dup2", "none"}, at : {"idle", "context", "call", "kernel"},
          fd : Fds \union {None}, arg : BOOLEAN \union Times \union Fds \union {None}]
NoOp == [kind |-> "none", at |-> "idle", fd |-> None, arg |-> None]

\* isStreamFile(fd); files that are no stream have no context.
Open(fd) == file[fd] # None
Idle(t) == op[t] = NoOp
Using(fd) == {t \in Threads : op[t].fd = fd \/ (op[t].kind = "dup2" /\ op[t].arg = fd)}

FilesTypeOK ==
    /\ file \in [Fds -> Files \union {None}]
    /\ nonblock \in [Files -> BOOLEAN] /\ want \in [Files -> BOOLEAN]
    /\ timeo \in [Files -> Times]
    /\ ctx \in [Fds -> Contexts \union {None}]
    /\ \A fd \in Fds : ctx[fd] # None => Open(fd)
    /\ op \in [Threads -> Calls]
    /\ joined \in BOOLEAN
    /\ refused \in [Fds -> Times \union {None}]

Init ==
    /\ file = [fd \in Fds |-> None]
    /\ nonblock = [o \in Files |-> FALSE]
    /\ timeo = [o \in Files |-> Default]
    /\ ctx = [fd \in Fds |-> None]
    /\ op = [t \in Threads |-> NoOp]
    /\ joined = FALSE
    /\ want = [o \in Files |-> FALSE]
    /\ refused = [fd \in Fds |-> None]

Unopened(o) == \A fd \in Fds : file[fd] # o

\* socket(), pipe2(): not hooked.
Create(t, fd, o, mode) ==
    /\ ~joined
    /\ Idle(t) /\ ~Open(fd) /\ Unopened(o)
    /\ file' = [file EXCEPT ![fd] = o]
    /\ nonblock' = [nonblock EXCEPT ![o] = mode]
    /\ timeo' = [timeo EXCEPT ![o] = Default]
    /\ want' = [want EXCEPT ![o] = mode]
    /\ UNCHANGED <<ctx, op, joined, refused>>

\* accept() has made fd and is yet to return it.
Accepted(fd) == [kind |-> "accept", at |-> "kernel", fd |-> fd, arg |-> None]

\* What the program must see to: see above.
Allowed(t, kind, fd) ==
    /\ \A g \in Fds \ {fd} : file[g] # file[fd]
    /\ \A u \in Using(fd) :
           /\ op[u].kind \in Kinds /\ op[u] # Accepted(fd)
           /\ {kind, op[u].kind} # {"timeout"}

-----------------------------------------------------------------------------
(* The calls that ask for the context.                                     *)

Enter(t, kind, fd, arg) ==
    /\ ~joined
    /\ Idle(t) /\ Open(fd)
    /\ Allowed(t, kind, fd)
    /\ op' = [op EXCEPT ![t] = [kind |-> kind, at |-> "context", fd |-> fd, arg |-> arg]]
    /\ UNCHANGED <<kernelVars, ctx, joined, ghostVars>>

Io(t, fd) == Enter(t, "io", fd, None)
Accept(t, fd) == Enter(t, "accept", fd, None)
SetNonBlock(t, fd, on) == Enter(t, "setfl", fd, on)
SetTimeout(t, fd, time) == Enter(t, "timeout", fd, time)

\* What a new context notes of the file.
NewContext(fd) == [user |-> nonblock[file[fd]], timeo |-> Millis[timeo[file[fd]]]]

\* EFileContextManager::get, under the spin lock of the descriptor.  What
\* transfers data or accepts also looks whether it may wait.
GetContext(t) ==
    LET fd == op[t].fd IN
    /\ op[t].at = "context"
    /\ IF ctx[fd] = None
       THEN /\ ctx' = [ctx EXCEPT ![fd] = NewContext(fd)]
            /\ nonblock' = [nonblock EXCEPT ![file[fd]] = TRUE]
       ELSE UNCHANGED <<ctx, nonblock>>
    /\ op' = [op EXCEPT ![t].at = "call", ![t].arg = IF @ = None THEN ctx'[fd].user ELSE @]
    /\ UNCHANGED <<file, timeo, joined, ghostVars>>

At(t, kind, at) == op[t].kind = kind /\ op[t].at = at
Ends(t) == op' = [op EXCEPT ![t] = NoOp]

\* read_f, write_f, ... whatever the context says of the mode.
DoIo(t) ==
    /\ At(t, "io", "call")
    /\ Ends(t)
    /\ UNCHANGED <<kernelVars, ctx, joined, ghostVars>>

\* accept_f: a new socket, whose mode the system gives it.  A program that
\* has the listener non-blocking knows the mode, one that has not expects none.
DoAccept(t, fd, o) ==
    LET listener == op[t].fd IN
    /\ At(t, "accept", "call")
    /\ ~Open(fd) /\ Unopened(o)
    /\ file' = [file EXCEPT ![fd] = o]
    /\ nonblock' = [nonblock EXCEPT ![o] = Inherits /\ nonblock[file[listener]]]
    /\ timeo' = [timeo EXCEPT ![o] = Default]
    /\ want' = [want EXCEPT ![o] = Inherits /\ op[t].arg]
    /\ IF op[t].arg THEN Ends(t) ELSE op' = [op EXCEPT ![t] = Accepted(fd)]
    /\ UNCHANGED <<ctx, joined, refused>>

ModeReset(mode) == FALSE

\* "accepted socket also non-blocking, we need reset it to back".
ResetAccepted(t) ==
    LET o == file[op[t].fd] IN
    /\ At(t, "accept", "kernel")
    /\ nonblock' = [nonblock EXCEPT ![o] = ModeReset(@)]
    /\ Ends(t)
    /\ UNCHANGED <<file, timeo, ctx, joined, ghostVars>>

SetUserNonBlock(fd, on) == ctx' = [ctx EXCEPT ![fd].user = on]

\* In whole milliseconds: a time below one becomes 0, which is for ever.
SetRecvOrSendTimeout(fd, time) == ctx' = [ctx EXCEPT ![fd].timeo = Millis[time]]

\* fcntl(F_SETFL), ioctl(FIONBIO): the kernel is not asked.
DoSetNonBlock(t) ==
    LET fd == op[t].fd IN
    /\ At(t, "setfl", "call")
    /\ SetUserNonBlock(fd, op[t].arg)
    /\ want' = [want EXCEPT ![file[fd]] = op[t].arg]
    /\ Ends(t)
    /\ UNCHANGED <<kernelVars, joined, refused>>

\* setsockopt(): the context, then the kernel.
NoteTimeout(t) ==
    /\ At(t, "timeout", "call")
    /\ SetRecvOrSendTimeout(op[t].fd, op[t].arg)
    /\ op' = [op EXCEPT ![t].at = "kernel"]
    /\ UNCHANGED <<kernelVars, joined, ghostVars>>

\* The kernel may refuse the time, or the file, and leaves the context as it is.
DoSetTimeout(t) ==
    LET fd == op[t].fd IN
    /\ At(t, "timeout", "kernel")
    /\ \/ /\ timeo' = [timeo EXCEPT ![file[fd]] = op[t].arg]
          /\ refused' = [refused EXCEPT ![fd] = None]
       \/ /\ refused' = [refused EXCEPT ![fd] = op[t].arg]
          /\ UNCHANGED timeo
    /\ Ends(t)
    /\ UNCHANGED <<file, nonblock, ctx, joined, want>>

-----------------------------------------------------------------------------
(* The calls that drop it.  A context that goes on a fiber leaves the file *)
(* as it is.                                                               *)

DroppedNot(fd) == ctx
Dropped(fd) == [ctx EXCEPT ![fd] = None]

Close(t, fd) ==
    /\ ~joined
    /\ Idle(t) /\ Open(fd) /\ Using(fd) = {}
    /\ ctx' = Dropped(fd)
    /\ refused' = [refused EXCEPT ![fd] = None]
    /\ op' = [op EXCEPT ![t] = [kind |-> "close", at |-> "kernel", fd |-> fd, arg |-> None]]
    /\ UNCHANGED <<kernelVars, joined, want>>

DoClose(t) ==
    /\ At(t, "close", "kernel")
    /\ file' = [file EXCEPT ![op[t].fd] = None]
    /\ Ends(t)
    /\ UNCHANGED <<nonblock, timeo, ctx, joined, ghostVars>>

\* dup2(old, fd), dup3, onto an open descriptor: a program with threads
\* cannot count on a number nobody holds.
DroppedByDup(fd) == Dropped(fd)

Dup2(t, old, fd) ==
    /\ ~joined
    /\ Idle(t) /\ old # fd
    /\ Open(old) /\ ctx[old] = None /\ Using(old) = {}
    /\ Open(fd) /\ Using(fd) = {}
    /\ ctx' = DroppedByDup(fd)
    /\ refused' = [refused EXCEPT ![fd] = None]
    /\ op' = [op EXCEPT ![t] = [kind |-> "dup2", at |-> "kernel", fd |-> fd, arg |-> old]]
    /\ UNCHANGED <<kernelVars, joined, want>>

DoDup2(t) ==
    /\ At(t, "dup2", "kernel")
    /\ file' = [file EXCEPT ![op[t].fd] = file[op[t].arg]]
    /\ Ends(t)
    /\ UNCHANGED <<nonblock, timeo, ctx, joined, ghostVars>>

RestoredNot(o, mode) == nonblock[o]
Restored(o, mode) == mode

\* clearFileContexts() after the last fiber: ~EFileContext gives the files
\* the mode the program has asked for.
Clear ==
    /\ ~joined
    /\ \A t \in Threads : Idle(t)
    /\ joined' = TRUE
    /\ nonblock' = [o \in Files |->
           IF \E fd \in Fds : file[fd] = o /\ ctx[fd] # None
           THEN Restored(o, ctx[CHOOSE fd \in Fds : file[fd] = o /\ ctx[fd] # None].user)
           ELSE nonblock[o]]
    /\ ctx' = [fd \in Fds |-> None]
    /\ refused' = [fd \in Fds |-> None]
    /\ UNCHANGED <<file, timeo, op, want>>

Next ==
    \/ \E t \in Threads :
           \/ GetContext(t) \/ DoIo(t) \/ ResetAccepted(t) \/ DoSetNonBlock(t)
           \/ NoteTimeout(t) \/ DoSetTimeout(t) \/ DoClose(t) \/ DoDup2(t)
           \/ \E fd \in Fds :
                  \/ Io(t, fd) \/ Accept(t, fd) \/ Close(t, fd)
                  \/ \E on \in BOOLEAN : SetNonBlock(t, fd, on)
                  \/ \E time \in Times : SetTimeout(t, fd, time)
                  \/ \E old \in Fds : Dup2(t, old, fd)
                  \/ \E o \in Files, mode \in BOOLEAN : Create(t, fd, o, mode)
                  \/ \E o \in Files : DoAccept(t, fd, o)
    \/ Clear

Spec == Init /\ [][Next]_vars

-----------------------------------------------------------------------------
(* Properties.                                                             *)

(* A system call that fibers make never blocks the thread under them, even *)
(* if the program wants it to look blocking: its file is non-blocking at   *)
(* that moment, also when the number was another file's before.            *)
NeverBlocks ==
    \A t \in Threads : op[t].kind \in {"io", "accept"} /\ op[t].at = "call" => nonblock[file[op[t].fd]]

(* The program sees, and after join() has, the mode it asked for last, by  *)
(* fcntl(), ioctl(), or what the file was created with; the library's own  *)
(* O_NONBLOCK never shows.                                                 *)
ModeFaithful ==
    \A fd \in Fds : Open(fd) =>
        LET used == \E g \in Fds : file[g] = file[fd] /\ ctx[g] # None
        IN  /\ ctx[fd] # None => ctx[fd].user = want[file[fd]]
            /\ ~used /\ Using(fd) = {} => nonblock[file[fd]] = want[file[fd]]

\* The last time that setsockopt() was given for the file, or that it came with.
Asked(fd) == IF refused[fd] = None THEN timeo[file[fd]] ELSE refused[fd]

(* The timeout a hooked call waits with is that of its socket, in whole    *)
(* milliseconds, except that a setsockopt() the kernel refused counts:     *)
(* while its caller was told that it failed, calls wait with the timeout   *)
(* it was given, until another setsockopt() succeeds.                      *)
TimeoutCurrent ==
    \A fd \in Fds :
        ctx[fd] # None /\ (\A t \in Using(fd) : ~At(t, "timeout", "kernel"))
            => ctx[fd].timeo = Millis[Asked(fd)]

=============================================================================
