------------------------- MODULE HookedFilesProofs -------------------------
(***************************************************************************)
(* Proofs about HookedFiles, for every set of threads, descriptors, files  *)
(* and timeouts, for every conversion of these to milliseconds, and for    *)
(* systems where accept() inherits the mode and those where it does not.   *)
(***************************************************************************)
EXTENDS HookedFiles, TLAPS

(* What a call knows where it is: its argument, that its descriptor is     *)
(* open, and whether the descriptor has a context.                         *)
CallOK(t) ==
    LET fd == op[t].fd
        arg == op[t].arg
    IN
    /\ op[t].kind = "none" <=> op[t].at = "idle"
    /\ op[t].kind = "none" => op[t] = NoOp
    /\ op[t].kind # "none" => fd \in Fds /\ Open(fd)
    /\ op[t].at \in {"context", "call"} => op[t].kind \in Kinds
    /\ op[t].kind \in {"io", "accept"} => op[t].at = "call" <=> arg # None
    /\ op[t].kind \in {"io", "accept"} => arg \in BOOLEAN \union {None}
    /\ op[t].kind = "io" => op[t].at # "kernel"
    /\ op[t].kind = "setfl" => arg \in BOOLEAN /\ op[t].at # "kernel"
    /\ op[t].kind = "timeout" => arg \in Times
    /\ op[t].at = "call" \/ At(t, "timeout", "kernel") => ctx[fd] # None
    /\ At(t, "accept", "kernel") => ctx[fd] = None /\ ~want[file[fd]]
    /\ At(t, "timeout", "kernel") => ctx[fd].timeo = Millis[arg]
    /\ op[t].kind \in {"close", "dup2"} => op[t].at = "kernel" /\ ctx[fd] = None
    /\ op[t].kind = "dup2" => arg \in Fds /\ arg # fd /\ Open(arg) /\ ctx[arg] = None

(* Calls of two threads on one descriptor are no closing, no duplicating,  *)
(* no accepting of it, and not both setsockopt().                          *)
Together(t, u) ==
    /\ {op[t].kind, op[u].kind} \subseteq Kinds
    /\ ~At(t, "accept", "kernel") /\ ~At(u, "accept", "kernel")
    /\ op[t].kind # "timeout" \/ op[u].kind # "timeout"

Polite ==
    \A t, u \in Threads :
        t # u =>
            /\ op[t].fd = op[u].fd /\ op[t].fd # None => Together(t, u)
            /\ op[t].kind = "dup2" =>
                   /\ op[u].fd # op[t].arg
                   /\ op[u].kind = "dup2" => op[u].arg # op[t].arg

Alone(fd) == \A g \in Fds \ {fd} : file[g] # file[fd]

(* A file that is used through a descriptor is not duplicated.             *)
Unshared ==
    /\ \A fd \in Fds : ctx[fd] # None => Alone(fd)
    /\ \A t \in Threads : op[t].kind \in Kinds => Alone(op[t].fd)

(* A descriptor on which the library's mode may still be set although      *)
(* there is no context.                                                    *)
Passing(fd) ==
    \E t \in Threads : op[t].fd = fd /\ op[t].kind \in {"accept", "close", "dup2"} /\ op[t].at = "kernel"

Modes ==
    \A fd \in Fds : Open(fd) =>
        /\ ctx[fd] # None => nonblock[file[fd]] /\ ctx[fd].user = want[file[fd]]
        /\ ctx[fd] = None => Passing(fd) \/ nonblock[file[fd]] = want[file[fd]]

(* The timeout of a context is the one last asked for, but inside          *)
(* setsockopt(); and what the kernel refused goes with the context.        *)
Noted ==
    \A fd \in Fds :
        /\ ctx[fd] = None => refused[fd] = None
        /\ ctx[fd] # None =>
               \/ ctx[fd].timeo = Millis[Asked(fd)]
               \/ \E t \in Threads : op[t].fd = fd /\ At(t, "timeout", "kernel")

IInv ==
    /\ FilesTypeOK
    /\ \A t \in Threads : CallOK(t)
    /\ Polite /\ Unshared /\ Modes /\ Noted

LEMMA InitIInv == Init => IInv
<1> SUFFICES ASSUME Init PROVE IInv
  OBVIOUS
<1> USE HookedFilesAssumption
<1>1. FilesTypeOK
  BY DEF Init, FilesTypeOK, Open, Calls, NoOp
<1>2. ASSUME NEW t \in Threads PROVE CallOK(t)
  BY DEF Init, CallOK, NoOp, At, Kinds
<1>3. Polite /\ Unshared
  BY DEF Init, Polite, Unshared, NoOp, Kinds
<1>4. Modes /\ Noted
  BY DEF Init, Modes, Noted, Open, Asked
<1> QED BY <1>1, <1>2, <1>3, <1>4 DEF IInv

(* A context is made, or found, for the call of t.                         *)
LEMMA GetContextKeeps ==
    ASSUME IInv, NEW t \in Threads, GetContext(t)
    PROVE  IInv'
<1> USE HookedFilesAssumption DEF IInv
<1>1. /\ op'[t] = [op[t] EXCEPT !.at = "call", !.arg = IF @ = None THEN ctx'[op[t].fd].user ELSE @]
      /\ \A u \in Threads \ {t} : op'[u] = op[u]
  BY DEF GetContext, FilesTypeOK, Calls
<1> DEFINE fd == op[t].fd
<1>2. /\ fd \in Fds /\ Open(fd) /\ file[fd] \in Files
      /\ op[t].kind \in Kinds /\ op[t].at = "context"
      /\ Alone(fd)
  BY DEF GetContext, CallOK, FilesTypeOK, Open, Unshared, Kinds
<1>3. /\ ctx[fd] = None =>
             ctx' = [ctx EXCEPT ![fd] = NewContext(fd)] /\ nonblock' = [nonblock EXCEPT ![file[fd]] = TRUE]
      /\ ctx[fd] # None => ctx' = ctx /\ nonblock' = nonblock
      /\ UNCHANGED <<file, timeo, joined, want, refused>>
  BY DEF GetContext, ghostVars
<1>4. NewContext(fd) \in Contexts /\ NewContext(fd) # None
  BY <1>2 DEF NewContext, FilesTypeOK, Contexts
<1>5. /\ ctx'[fd] \in Contexts /\ ctx'[fd] # None
      /\ \A g \in Fds \ {fd} : ctx'[g] = ctx[g]
      /\ ctx' \in [Fds -> Contexts \union {None}] /\ nonblock' \in [Files -> BOOLEAN]
  <2>1. CASE ctx[fd] = None
    <3>1. ctx' = [ctx EXCEPT ![fd] = NewContext(fd)] /\ ctx'[fd] = NewContext(fd)
      BY <1>2, <1>3, <2>1 DEF FilesTypeOK
    <3>2. ctx' \in [Fds -> Contexts \union {None}] /\ nonblock' \in [Files -> BOOLEAN]
      BY <1>2, <1>3, <1>4, <2>1, <3>1 DEF FilesTypeOK
    <3>3. \A g \in Fds \ {fd} : ctx'[g] = ctx[g]
      BY <3>1 DEF FilesTypeOK
    <3> QED BY <1>4, <3>1, <3>2, <3>3
  <2>2. CASE ctx[fd] # None
    BY <1>2, <1>3, <2>2 DEF FilesTypeOK
  <2> QED BY <2>1, <2>2
<1>6. /\ op'[t].kind = op[t].kind /\ op'[t].at = "call" /\ op'[t].fd = fd
      /\ op'[t].arg = IF op[t].arg = None THEN ctx'[fd].user ELSE op[t].arg
      /\ op[t] \in Calls /\ op'[t] \in Calls
  <2>1. op[t] \in Calls /\ ctx'[fd].user \in BOOLEAN
    BY <1>5 DEF FilesTypeOK, Contexts
  <2> QED BY <1>1, <2>1 DEF Calls
<1>7. FilesTypeOK'
  <2>1. op' \in [Threads -> Calls]
    BY <1>1, <1>6 DEF GetContext, FilesTypeOK
  <2> QED BY <1>2, <1>3, <1>5, <2>1 DEF FilesTypeOK, Open
<1>8. ASSUME NEW u \in Threads PROVE CallOK(u)'
  <2>1. ctx'[fd].user \in BOOLEAN
    BY <1>5 DEF Contexts
  <2>2. CASE u = t
    <3>1. /\ op[t].kind \in {"io", "accept"} => op[t].arg = None
          /\ op[t].kind = "setfl" => op[t].arg \in BOOLEAN
          /\ op[t].kind = "timeout" => op[t].arg \in Times
      <4>1. CallOK(t)
        OBVIOUS
      <4> QED BY <1>2, <4>1 DEF CallOK
    <3>2. /\ op'[t].kind \in {"io", "accept"} => op'[t].arg \in BOOLEAN
          /\ op'[t].kind = "setfl" => op'[t].arg \in BOOLEAN
          /\ op'[t].kind = "timeout" => op'[t].arg \in Times
          /\ op'[t].arg # None
      BY <1>2, <1>6, <2>1, <3>1 DEF Kinds
    <3>3. op'[t].kind \in Kinds /\ op'[t].at = "call" /\ op'[t].fd \in Fds
          /\ file'[op'[t].fd] # None /\ ctx'[op'[t].fd] # None
      BY <1>2, <1>3, <1>5, <1>6 DEF Open
    <3>4. CallOK(t)'
      BY <3>2, <3>3 DEF CallOK, At, Kinds, NoOp, Open
    <3> QED BY <2>2, <3>4
  <2>3. CASE u # t
    BY <1>1, <1>2, <1>3, <1>5, <1>6, <2>3
    DEF CallOK, Open, Kinds, At, NoOp, Polite, Together
  <2> QED BY <2>2, <2>3
<1>9. Polite'
  <2> SUFFICES ASSUME NEW u \in Threads, NEW v \in Threads, u # v
               PROVE  /\ op'[u].fd = op'[v].fd /\ op'[u].fd # None => Together(u, v)'
                      /\ op'[u].kind = "dup2" =>
                             /\ op'[v].fd # op'[u].arg
                             /\ op'[v].kind = "dup2" => op'[v].arg # op'[u].arg
    BY DEF Polite
  <2>1. CASE u = t
    <3>1. /\ op[t].fd = op[v].fd => Together(t, v)
          /\ op'[v] = op[v]
      BY <1>1, <1>2, <2>1, HookedFilesAssumption DEF Polite
    <3> QED BY <1>2, <1>6, <2>1, <3>1 DEF Together, At, Kinds
  <2>2. CASE v = t
    <3>1. /\ op[t].fd = op[u].fd => Together(u, t)
          /\ op[u].kind = "dup2" => op[t].fd # op[u].arg
          /\ op'[u] = op[u]
      BY <1>1, <1>2, <2>2, HookedFilesAssumption DEF Polite
    <3> QED BY <1>2, <1>6, <2>2, <3>1 DEF Together, At, Kinds
  <2>3. CASE u # t /\ v # t
    BY <1>1, <2>3 DEF Polite, Together, At
  <2> QED BY <2>1, <2>2, <2>3
<1>10. Unshared'
  <2>1. \A g \in Fds : ctx'[g] # None => Alone(g)
    BY <1>2, <1>3, <1>5 DEF Unshared, Alone
  <2>2. \A u \in Threads : op'[u].kind \in Kinds => Alone(op'[u].fd)
    BY <1>1, <1>2, <1>6 DEF Unshared
  <2> QED BY <1>3, <2>1, <2>2 DEF Unshared, Alone
<1>11. Modes'
  <2> SUFFICES ASSUME NEW g \in Fds, Open(g)
               PROVE  /\ ctx'[g] # None => nonblock'[file[g]] /\ ctx'[g].user = want[file[g]]
                      /\ ctx'[g] = None => Passing(g)' \/ nonblock'[file[g]] = want[file[g]]
    BY <1>3 DEF Modes, Open
  <2>1. Passing(g) => Passing(g)'
    BY <1>1, <1>2 DEF Passing
  <2>2. CASE g = fd /\ ctx[fd] = None
    <3>1. ~Passing(fd)
      BY <1>2 DEF Passing, Polite, Together, At, Kinds, CallOK
    <3> QED BY <1>2, <1>3, <2>2, <3>1 DEF Modes, NewContext, FilesTypeOK
  <2>3. CASE g # fd /\ ctx[fd] = None
    <3>1. file[g] # file[fd] /\ file[g] \in Files
      BY <1>2, <2>3 DEF Alone, FilesTypeOK, Open
    <3> QED BY <1>2, <1>3, <2>1, <2>3, <3>1 DEF Modes, FilesTypeOK
  <2>4. CASE ctx[fd] # None
    BY <1>3, <2>1, <2>4 DEF Modes
  <2> QED BY <2>2, <2>3, <2>4
<1>12. Noted'
  BY <1>1, <1>2, <1>3, <1>4, <1>6 DEF Noted, NewContext, At, FilesTypeOK, Asked
<1> QED BY <1>7, <1>8, <1>9, <1>10, <1>11, <1>12

(* The mode of an accepted socket becomes what the program expects.        *)
LEMMA ResetKeepsModes ==
    ASSUME IInv, NEW t \in Threads, ResetAccepted(t)
    PROVE  Modes'
<1> USE HookedFilesAssumption
<1> DEFINE fd == op[t].fd
<1>1. CallOK(t) /\ FilesTypeOK /\ Polite /\ Unshared /\ Modes
  BY DEF IInv
<1>2. op[t].kind = "accept" /\ op[t].at = "kernel"
  BY DEF ResetAccepted, At
<1>3. /\ fd \in Fds /\ Open(fd) /\ file[fd] \in Files
      /\ ctx[fd] = None /\ ~want[file[fd]] /\ Alone(fd)
  BY <1>1, <1>2 DEF CallOK, At, Unshared, Kinds, FilesTypeOK, Open
<1>4. /\ nonblock' = [nonblock EXCEPT ![file[fd]] = FALSE]
      /\ UNCHANGED <<file, ctx, want>>
  BY DEF ResetAccepted, ModeReset, ghostVars
<1>5. nonblock'[file[fd]] = want[file[fd]]
  BY <1>1, <1>3, <1>4 DEF FilesTypeOK
<1>6. ASSUME NEW g \in Fds, Open(g), g # fd
      PROVE  /\ nonblock'[file[g]] = nonblock[file[g]]
             /\ Passing(g) => Passing(g)'
  <2>1. nonblock'[file[g]] = nonblock[file[g]]
    BY <1>1, <1>3, <1>4, <1>6 DEF Alone, FilesTypeOK, Open
  <2>2. \A u \in Threads \ {t} : op'[u] = op[u]
    BY <1>1 DEF ResetAccepted, Ends, FilesTypeOK
  <2> QED BY <1>6, <2>1, <2>2 DEF Passing
<1>7. ASSUME NEW g \in Fds, Open(g)
      PROVE  /\ ctx[g] # None => nonblock'[file[g]] /\ ctx[g].user = want[file[g]]
             /\ ctx[g] = None => Passing(g)' \/ nonblock'[file[g]] = want[file[g]]
  <2>1. CASE g = fd
    BY <1>3, <1>5, <2>1
  <2>2. CASE g # fd
    BY <1>1, <1>6, <1>7, <2>2 DEF Modes
  <2> QED BY <2>1, <2>2
<1> QED BY <1>4, <1>7 DEF Modes, Open

LEMMA NextIInv == IInv /\ [Next]_vars => IInv'
<1> SUFFICES ASSUME IInv, [Next]_vars PROVE IInv'
  OBVIOUS
<1> USE HookedFilesAssumption
    DEF kernelVars, ghostVars, Asked, IInv, FilesTypeOK, Open, Contexts, Calls, Kinds, NoOp, CallOK, Polite,
        Together, Unshared, Alone, At, Idle, Accepted, Using
<1>1. ASSUME NEW t \in Threads, NEW fd \in Fds, NEW f \in Files, NEW mode \in BOOLEAN,
             Create(t, fd, f, mode)
      PROVE  IInv'
  <2>1. FilesTypeOK'
    BY <1>1 DEF Create, Unopened
  <2>2. ASSUME NEW u \in Threads PROVE CallOK(u)'
    BY <1>1 DEF Create, Unopened, Modes
  <2>3. Polite'
    BY <1>1 DEF Create, Unopened
  <2>4. Unshared'
    BY <1>1 DEF Create, Unopened
  <2>5. Modes'
    BY <1>1 DEF Create, Unopened, Modes, Passing
  <2>6. Noted'
    BY <1>1 DEF Create, Unopened, Noted
  <2> QED BY <2>1, <2>2, <2>3, <2>4, <2>5, <2>6
<1>2. ASSUME NEW t \in Threads, NEW fd \in Fds, NEW kind \in Kinds, NEW arg, Enter(t, kind, fd, arg),
          kind \in {"io", "accept"} => arg = None, kind = "setfl" => arg \in BOOLEAN,
          kind = "timeout" => arg \in Times PROVE IInv'
  <2>1. /\ op'[t] = [kind |-> kind, at |-> "context", fd |-> fd, arg |-> arg]
        /\ \A u \in Threads \ {t} : op'[u] = op[u]
    BY <1>2 DEF Enter, Allowed
  <2>2. FilesTypeOK'
    BY <1>2, <2>1 DEF Enter, Allowed
  <2>3. ASSUME NEW u \in Threads PROVE CallOK(u)'
    BY <1>2, <2>1 DEF Enter, Allowed, Modes
  <2>4. Polite'
    BY <1>2, <2>1 DEF Enter, Allowed
  <2>5. Unshared'
    BY <1>2, <2>1 DEF Enter, Allowed
  <2>6. Modes'
    BY <1>2, <2>1 DEF Enter, Allowed, Modes, Passing
  <2>7. Noted'
    BY <1>2, <2>1 DEF Enter, Allowed, Noted
  <2> QED BY <2>2, <2>3, <2>4, <2>5, <2>6, <2>7
<1>3. ASSUME NEW t \in Threads, GetContext(t) PROVE IInv'
  BY <1>3, GetContextKeeps
<1>4. ASSUME NEW t \in Threads, DoIo(t) PROVE IInv'
  <2>1. /\ op'[t] = NoOp
        /\ \A u \in Threads \ {t} : op'[u] = op[u]
    BY <1>4 DEF DoIo, Ends
  <2>2. FilesTypeOK'
    BY <1>4, <2>1 DEF DoIo, Ends
  <2>3. ASSUME NEW u \in Threads PROVE CallOK(u)'
    BY <1>4, <2>1 DEF DoIo, Ends, Modes
  <2>4. Polite'
    BY <1>4, <2>1 DEF DoIo, Ends
  <2>5. Unshared'
    BY <1>4, <2>1 DEF DoIo, Ends
  <2>6. Modes'
    BY <1>4, <2>1 DEF DoIo, Ends, Modes, Passing
  <2>7. Noted'
    BY <1>4, <2>1 DEF DoIo, Ends, Noted
  <2> QED BY <2>2, <2>3, <2>4, <2>5, <2>6, <2>7
<1>5. ASSUME NEW t \in Threads, NEW fd \in Fds, NEW f \in Files, DoAccept(t, fd, f) PROVE IInv'
  <2>1. /\ op'[t] = IF op[t].arg THEN NoOp ELSE Accepted(fd)
        /\ \A u \in Threads \ {t} : op'[u] = op[u]
    BY <1>5 DEF DoAccept, Unopened, Ends
  <2>2. FilesTypeOK'
    <3>1. op[t].arg \in BOOLEAN
      BY <1>5 DEF DoAccept
    <3>2. op'[t] \in Calls
      BY <2>1, <3>1
    <3>3. op' \in [Threads -> Calls]
      <4>1. op' = [op EXCEPT ![t] = op'[t]]
        BY <1>5, <2>1 DEF DoAccept, Ends
      <4>2. op \in [Threads -> Calls]
        OBVIOUS
      <4> HIDE DEF Calls, IInv, FilesTypeOK
      <4> QED BY <3>2, <4>1, <4>2
    <3>4. nonblock' \in [Files -> BOOLEAN] /\ want' \in [Files -> BOOLEAN]
      BY <1>5, <3>1 DEF DoAccept
    <3>5. file' \in [Fds -> Files \union {None}] /\ timeo' \in [Files -> Times]
      BY <1>5 DEF DoAccept
    <3>6. \A g \in Fds : ctx'[g] # None => Open(g)'
      BY <1>5 DEF DoAccept
    <3> QED BY <1>5, <3>3, <3>4, <3>5, <3>6 DEF DoAccept
  <2>3. ASSUME NEW u \in Threads PROVE CallOK(u)'
    BY <1>5, <2>1 DEF DoAccept, Unopened, Ends, Modes
  <2>4. Polite'
    BY <1>5, <2>1 DEF DoAccept, Unopened, Ends
  <2>5. Unshared'
    BY <1>5, <2>1 DEF DoAccept, Unopened, Ends
  <2>6. Modes'
    <3>1. /\ file' = [file EXCEPT ![fd] = f] /\ UNCHANGED ctx
          /\ \A g \in Fds : file[g] # f
          /\ nonblock' = [nonblock EXCEPT ![f] = Inherits /\ nonblock[file[op[t].fd]]]
          /\ want' = [want EXCEPT ![f] = Inherits /\ op[t].arg]
      BY <1>5 DEF DoAccept, Unopened
    <3>2. ctx[fd] = None
      BY <1>5 DEF DoAccept
    <3>3. op[t].fd \in Fds /\ ctx[op[t].fd] # None /\ nonblock[file[op[t].fd]] /\ op[t].arg \in BOOLEAN
      BY <1>5 DEF DoAccept, Modes
    <3>4. ASSUME NEW g \in Fds, g # fd, Open(g), Passing(g) PROVE Passing(g)'
      BY <1>5, <2>1, <3>4 DEF Passing, DoAccept
    <3>5. ~op[t].arg => Passing(fd)'
      BY <2>1 DEF Passing
    <3>6. op[t].arg => nonblock'[f] = want'[f]
      BY <3>1, <3>3
    <3>7. ASSUME NEW g \in Fds, g # fd, Open(g)
          PROVE  /\ file'[g] = file[g] /\ nonblock'[file[g]] = nonblock[file[g]]
                 /\ want'[file[g]] = want[file[g]]
      BY <3>1, <3>7
    <3>8. file'[fd] = f /\ \A g \in Fds \ {fd} : file'[g] = file[g]
      BY <3>1
    <3> HIDE DEF Accepted
    <3> QED BY <3>1, <3>2, <3>3, <3>4, <3>5, <3>6, <3>7, <3>8 DEF Modes
  <2>7. Noted'
    <3>1. \A g \in Fds : ctx[g] # None => file'[g] = file[g] /\ timeo'[file[g]] = timeo[file[g]]
      BY <1>5 DEF DoAccept, Unopened
    <3>2. ASSUME NEW u \in Threads, At(u, "timeout", "kernel") PROVE op'[u] = op[u]
      BY <1>5, <2>1, <3>2 DEF DoAccept
    <3>3. ctx' = ctx /\ refused' = refused
      BY <1>5 DEF DoAccept
    <3> QED BY <3>1, <3>2, <3>3 DEF Noted
  <2> QED BY <2>2, <2>3, <2>4, <2>5, <2>6, <2>7
<1>6. ASSUME NEW t \in Threads, ResetAccepted(t) PROVE IInv'
  <2>1. /\ op'[t] = NoOp
        /\ \A u \in Threads \ {t} : op'[u] = op[u]
    BY <1>6 DEF ResetAccepted, ModeReset, Ends
  <2>2. FilesTypeOK'
    BY <1>6, <2>1 DEF ResetAccepted, ModeReset, Ends
  <2>3. ASSUME NEW u \in Threads PROVE CallOK(u)'
    BY <1>6, <2>1 DEF ResetAccepted, ModeReset, Ends, Modes
  <2>4. Polite'
    BY <1>6, <2>1 DEF ResetAccepted, ModeReset, Ends
  <2>5. Unshared'
    BY <1>6, <2>1 DEF ResetAccepted, ModeReset, Ends
  <2>6. Modes'
    BY <1>6, ResetKeepsModes
  <2>7. Noted'
    BY <1>6, <2>1 DEF ResetAccepted, ModeReset, Ends, Noted
  <2> QED BY <2>2, <2>3, <2>4, <2>5, <2>6, <2>7
<1>7. ASSUME NEW t \in Threads, DoSetNonBlock(t) PROVE IInv'
  <2>1. /\ op'[t] = NoOp
        /\ \A u \in Threads \ {t} : op'[u] = op[u]
    BY <1>7 DEF DoSetNonBlock, SetUserNonBlock, Ends
  <2>2. FilesTypeOK'
    BY <1>7, <2>1 DEF DoSetNonBlock, SetUserNonBlock, Ends
  <2>3. ASSUME NEW u \in Threads PROVE CallOK(u)'
    BY <1>7, <2>1 DEF DoSetNonBlock, SetUserNonBlock, Ends, Modes
  <2>4. Polite'
    BY <1>7, <2>1 DEF DoSetNonBlock, SetUserNonBlock, Ends
  <2>5. Unshared'
    BY <1>7, <2>1 DEF DoSetNonBlock, SetUserNonBlock, Ends
  <2>6. Modes'
    BY <1>7, <2>1 DEF DoSetNonBlock, SetUserNonBlock, Ends, Modes, Passing
  <2>7. Noted'
    BY <1>7, <2>1 DEF DoSetNonBlock, SetUserNonBlock, Ends, Noted
  <2> QED BY <2>2, <2>3, <2>4, <2>5, <2>6, <2>7
<1>8. ASSUME NEW t \in Threads, NoteTimeout(t) PROVE IInv'
  <2>1. /\ op'[t] = [op[t] EXCEPT !.at = "kernel"]
        /\ \A u \in Threads \ {t} : op'[u] = op[u]
    BY <1>8 DEF NoteTimeout, SetRecvOrSendTimeout
  <2>2. FilesTypeOK'
    BY <1>8, <2>1 DEF NoteTimeout, SetRecvOrSendTimeout
  <2>3. ASSUME NEW u \in Threads PROVE CallOK(u)'
    <3>1. /\ op[t].kind = "timeout" /\ op[t].at = "call"
          /\ op[t].fd \in Fds /\ Open(op[t].fd) /\ op[t].arg \in Times
          /\ ctx[op[t].fd] \in Contexts /\ ctx[op[t].fd] # None
      BY <1>8 DEF NoteTimeout
    <3>2. /\ ctx' = [ctx EXCEPT ![op[t].fd].timeo = Millis[op[t].arg]]
          /\ UNCHANGED <<file, want>>
      BY <1>8 DEF NoteTimeout, SetRecvOrSendTimeout
    <3>3. /\ ctx'[op[t].fd].timeo = Millis[op[t].arg] /\ ctx'[op[t].fd] # None
          /\ \A g \in Fds \ {op[t].fd} : ctx'[g] = ctx[g]
      BY <2>2, <3>1, <3>2
    <3>4. CASE u = t
      BY <2>1, <3>1, <3>2, <3>3, <3>4
    <3>5. CASE u # t
      <4>1. op'[u] = op[u] /\ CallOK(u)
        BY <2>1, <3>5
      <4>2. op[u].fd = op[t].fd => ~At(u, "accept", "kernel") /\ op[u].kind \in Kinds \ {"timeout"}
        BY <3>1, <3>5
      <4>3. op[u].kind = "dup2" => op[u].arg # op[t].fd
        BY <3>1, <3>5
      <4> QED BY <3>1, <3>2, <3>3, <3>5, <4>1, <4>2, <4>3
    <3> QED BY <3>4, <3>5
  <2>4. Polite'
    BY <1>8, <2>1 DEF NoteTimeout, SetRecvOrSendTimeout
  <2>5. Unshared'
    BY <1>8, <2>1 DEF NoteTimeout, SetRecvOrSendTimeout
  <2>6. Modes'
    BY <1>8, <2>1 DEF NoteTimeout, SetRecvOrSendTimeout, Modes, Passing
  <2>7. Noted'
    BY <1>8, <2>1 DEF NoteTimeout, SetRecvOrSendTimeout, Noted
  <2> QED BY <2>2, <2>3, <2>4, <2>5, <2>6, <2>7
<1>9. ASSUME NEW t \in Threads, DoSetTimeout(t) PROVE IInv'
  <2>1. /\ op'[t] = NoOp
        /\ \A u \in Threads \ {t} : op'[u] = op[u]
    BY <1>9 DEF DoSetTimeout, Ends
  <2>2. FilesTypeOK'
    BY <1>9, <2>1 DEF DoSetTimeout, Ends
  <2>3. ASSUME NEW u \in Threads PROVE CallOK(u)'
    BY <1>9, <2>1 DEF DoSetTimeout, Ends, Modes
  <2>4. Polite'
    BY <1>9, <2>1 DEF DoSetTimeout, Ends
  <2>5. Unshared'
    BY <1>9, <2>1 DEF DoSetTimeout, Ends
  <2>6. Modes'
    BY <1>9, <2>1 DEF DoSetTimeout, Ends, Modes, Passing
  <2>7. Noted'
    BY <1>9, <2>1 DEF DoSetTimeout, Ends, Noted
  <2> QED BY <2>2, <2>3, <2>4, <2>5, <2>6, <2>7
<1>10. ASSUME NEW t \in Threads, NEW fd \in Fds, Close(t, fd) PROVE IInv'
  <2>1. /\ op'[t] = [kind |-> "close", at |-> "kernel", fd |-> fd, arg |-> None]
        /\ \A u \in Threads \ {t} : op'[u] = op[u]
    BY <1>10 DEF Close, Dropped
  <2>2. FilesTypeOK'
    BY <1>10, <2>1 DEF Close, Dropped
  <2>3. ASSUME NEW u \in Threads PROVE CallOK(u)'
    BY <1>10, <2>1 DEF Close, Dropped, Modes
  <2>4. Polite'
    BY <1>10, <2>1 DEF Close, Dropped
  <2>5. Unshared'
    BY <1>10, <2>1 DEF Close, Dropped
  <2>6. Modes'
    BY <1>10, <2>1 DEF Close, Dropped, Modes, Passing
  <2>7. Noted'
    BY <1>10, <2>1 DEF Close, Dropped, Noted
  <2> QED BY <2>2, <2>3, <2>4, <2>5, <2>6, <2>7
<1>11. ASSUME NEW t \in Threads, DoClose(t) PROVE IInv'
  <2>1. /\ op'[t] = NoOp
        /\ \A u \in Threads \ {t} : op'[u] = op[u]
    BY <1>11 DEF DoClose, Ends
  <2>2. FilesTypeOK'
    BY <1>11, <2>1 DEF DoClose, Ends
  <2>3. ASSUME NEW u \in Threads PROVE CallOK(u)'
    BY <1>11, <2>1 DEF DoClose, Ends, Modes
  <2>4. Polite'
    BY <1>11, <2>1 DEF DoClose, Ends
  <2>5. Unshared'
    BY <1>11, <2>1 DEF DoClose, Ends
  <2>6. Modes'
    BY <1>11, <2>1 DEF DoClose, Ends, Modes, Passing
  <2>7. Noted'
    BY <1>11, <2>1 DEF DoClose, Ends, Noted
  <2> QED BY <2>2, <2>3, <2>4, <2>5, <2>6, <2>7
<1>12. ASSUME NEW t \in Threads, NEW old \in Fds, NEW fd \in Fds, Dup2(t, old, fd) PROVE IInv'
  <2>1. /\ op'[t] = [kind |-> "dup2", at |-> "kernel", fd |-> fd, arg |-> old]
        /\ \A u \in Threads \ {t} : op'[u] = op[u]
    BY <1>12 DEF Dup2, DroppedByDup, Dropped
  <2>2. FilesTypeOK'
    BY <1>12, <2>1 DEF Dup2, DroppedByDup, Dropped
  <2>3. ASSUME NEW u \in Threads PROVE CallOK(u)'
    BY <1>12, <2>1 DEF Dup2, DroppedByDup, Dropped, Modes
  <2>4. Polite'
    BY <1>12, <2>1 DEF Dup2, DroppedByDup, Dropped
  <2>5. Unshared'
    BY <1>12, <2>1 DEF Dup2, DroppedByDup, Dropped
  <2>6. Modes'
    BY <1>12, <2>1 DEF Dup2, DroppedByDup, Dropped, Modes, Passing
  <2>7. Noted'
    BY <1>12, <2>1 DEF Dup2, DroppedByDup, Dropped, Noted
  <2> QED BY <2>2, <2>3, <2>4, <2>5, <2>6, <2>7
<1>13. ASSUME NEW t \in Threads, DoDup2(t) PROVE IInv'
  <2>1. /\ op'[t] = NoOp
        /\ \A u \in Threads \ {t} : op'[u] = op[u]
    BY <1>13 DEF DoDup2, Ends
  <2>2. FilesTypeOK'
    BY <1>13, <2>1 DEF DoDup2, Ends
  <2>3. ASSUME NEW u \in Threads PROVE CallOK(u)'
    BY <1>13, <2>1 DEF DoDup2, Ends, Modes
  <2>4. Polite'
    BY <1>13, <2>1 DEF DoDup2, Ends
  <2>5. Unshared'
    BY <1>13, <2>1 DEF DoDup2, Ends
  <2>6. Modes'
    BY <1>13, <2>1 DEF DoDup2, Ends, Modes, Passing
  <2>7. Noted'
    <3>1. \A g \in Fds : ctx[g] # None => file'[g] = file[g]
      BY <1>13 DEF DoDup2
    <3>2. UNCHANGED <<ctx, timeo, refused>>
      BY <1>13 DEF DoDup2
    <3>3. ASSUME NEW u \in Threads, At(u, "timeout", "kernel") PROVE op'[u] = op[u]
      BY <1>13, <2>1, <3>3 DEF DoDup2
    <3> QED BY <3>1, <3>2, <3>3 DEF Noted
  <2> QED BY <2>2, <2>3, <2>4, <2>5, <2>6, <2>7
<1>14. ASSUME Clear PROVE IInv'
  <2>1. FilesTypeOK'
    BY <1>14 DEF Clear, Restored
  <2>2. ASSUME NEW u \in Threads PROVE CallOK(u)'
    BY <1>14 DEF Clear, Restored, Modes
  <2>3. Polite'
    BY <1>14 DEF Clear, Restored
  <2>4. Unshared'
    BY <1>14 DEF Clear, Restored
  <2>5. Modes'
    BY <1>14 DEF Clear, Restored, Modes, Passing
  <2>6. Noted'
    BY <1>14 DEF Clear, Restored, Noted
  <2> QED BY <2>1, <2>2, <2>3, <2>4, <2>5, <2>6
<1>15. ASSUME NEW t \in Threads, NEW fd \in Fds,
          \/ Io(t, fd) \/ Accept(t, fd)
          \/ \E on \in BOOLEAN : SetNonBlock(t, fd, on)
          \/ \E time \in Times : SetTimeout(t, fd, time)
      PROVE  IInv'
  BY <1>15, <1>2 DEF Io, Accept, SetNonBlock, SetTimeout, Kinds
<1>16. CASE UNCHANGED vars
  BY <1>16 DEF vars, Modes, Passing, Noted
<1> HIDE DEF kernelVars, ghostVars, Asked, IInv, FilesTypeOK, Open, Contexts, Calls, Kinds, NoOp, CallOK, Polite,
        Together, Unshared, Alone, At, Idle, Accepted, Using
<1> QED
  BY <1>1, <1>3, <1>4, <1>5, <1>6, <1>7, <1>8, <1>9, <1>10, <1>11, <1>12, <1>13, <1>14, <1>15, <1>16
  DEF Next

LEMMA Invariant == Spec => []IInv
<1> QED BY InitIInv, NextIInv, PTL DEF Spec

-----------------------------------------------------------------------------
(* Types, for every system: src/inc/EFileContext.hh.                       *)
THEOREM FilesTypeCorrect == Spec => []FilesTypeOK
<1>1. IInv => FilesTypeOK
  BY DEF IInv
<1> QED BY <1>1, Invariant, PTL

(* A system call a fiber makes for a blocking program finds its file       *)
(* non-blocking: EFileContextManager::get made it so, and nobody has reset *)
(* it or replaced the file since.                                          *)
THEOREM NeverBlocksHolds == Spec => []NeverBlocks
<1>1. IInv => NeverBlocks
  <2> SUFFICES ASSUME IInv, NEW t \in Threads, op[t].at = "call", op[t].kind \in {"io", "accept"}
               PROVE  nonblock[file[op[t].fd]]
    BY DEF NeverBlocks
  <2>1. op[t].fd \in Fds /\ Open(op[t].fd) /\ ctx[op[t].fd] # None
    BY DEF IInv, CallOK
  <2> QED BY <2>1 DEF IInv, Modes
<1> QED BY <1>1, Invariant, PTL

(* The context keeps the mode the program asked for, and a file without    *)
(* one, used by no call, has that mode.                                    *)
THEOREM ModeFaithfulHolds == Spec => []ModeFaithful
<1>1. IInv => ModeFaithful
  <2> SUFFICES ASSUME IInv, NEW fd \in Fds, Open(fd)
               PROVE  /\ ctx[fd] # None => ctx[fd].user = want[file[fd]]
                      /\ (\A g \in Fds : file[g] = file[fd] => ctx[g] = None) /\ Using(fd) = {}
                             => nonblock[file[fd]] = want[file[fd]]
    BY DEF ModeFaithful
  <2>1. Using(fd) = {} => ~Passing(fd)
    BY DEF Using, Passing
  <2> QED BY <2>1 DEF IInv, Modes
<1> QED BY <1>1, Invariant, PTL

(* The timeout in the context is what becomes of the socket's in whole     *)
(* milliseconds, or of a later one that setsockopt() stored before the     *)
(* kernel refused it, but while that call is between the two.              *)
THEOREM TimeoutCurrentHolds == Spec => []TimeoutCurrent
<1>1. IInv => TimeoutCurrent
  <2> SUFFICES ASSUME IInv, NEW fd \in Fds, ctx[fd] # None,
                      \A t \in Using(fd) : ~At(t, "timeout", "kernel")
               PROVE  ctx[fd].timeo = Millis[Asked(fd)]
    BY DEF TimeoutCurrent
  <2>1. \A t \in Threads : op[t].fd = fd => t \in Using(fd)
    BY DEF Using
  <2> QED BY <2>1 DEF IInv, Noted
<1> QED BY <1>1, Invariant, PTL

=============================================================================
