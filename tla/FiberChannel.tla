---------------------------- MODULE FiberChannel ----------------------------
(***************************************************************************)
(* EFiberChannel: two blockers and a queue.  `writer' counts the writes    *)
(* that may go ahead: the capacity, and one more for every reader that has *)
(* come; `reader' counts the elements written.  tryRead takes its offer to *)
(* the writers back when there is nothing to read.  Built on Semaphore;    *)
(* tryRead may yield(), so it is for `Steady' callers only: on several     *)
(* threads a fiber that swapOut() gave a permit to is still BLOCKED, and   *)
(* the yield would take another permit of the blocker it last waited on.   *)
(***************************************************************************)
EXTENDS Semaphore, FiniteSets

CONSTANTS
    ChannelCapacity,    \* constructor argument `capacity'
    writer, reader      \* the two blockers

\* The limit of the two blockers is `unlimited' in the code: more than what
\* the capacity and every caller at once can release.
ASSUME FiberChannelAssumption ==
    /\ ChannelCapacity \in Nat
    /\ writer # reader
    /\ {writer, reader} \subseteq Blockers
    /\ Capacity[writer] = ChannelCapacity /\ Capacity[reader] = 0
    /\ IsFiniteSet(Callers)
    /\ \A b \in {writer, reader} : Limit[b] >= ChannelCapacity + Cardinality(Callers)

VARIABLES
    pc,         \* pc[c]: where c is in read, write, tryRead or tryWrite
    stored      \* how many elements dataQueue has

channelVars == <<vars, pc, stored>>

ChannelTypeOK ==
    /\ TypeOK
    /\ pc \in [Callers -> {"idle", "read", "poll", "write", "add", "announce",
                           "tryRead", "tryBack", "false"}]
    /\ stored \in Nat

ChannelInit == Init /\ pc = [c \in Callers |-> "idle"] /\ stored = 0

Goto(c, from, to) == pc[c] = from /\ pc' = [pc EXCEPT ![c] = to]

\* wait() takes a permit or begins to wait; waiting, it looks once more.
Wait(c, b) == Acquire(c, b) \/ Enter(c, b, FALSE)
ChannelTake(c) == waitsOn[c] \in {writer, reader} /\ Take(c) /\ UNCHANGED <<pc, stored>>

-----------------------------------------------------------------------------
(* read(): let one more writer in, wait for an element, take it.           *)

LetInNot(b) == UNCHANGED vars
LetIn(b) == WakeUp(b)

ReadBegin(c) == Goto(c, "idle", "read") /\ LetIn(writer) /\ UNCHANGED stored

ReadWait(c) == pc[c] = "read" /\ Wait(c, reader) /\ UNCHANGED <<pc, stored>>

ReadWaited(c) == Goto(c, "read", "poll") /\ Return(c) /\ UNCHANGED stored

Stored(n) == n + 1

\* dataQueue.poll() of an empty queue is null and leaves it empty.
ReadPoll(c) ==
    /\ Goto(c, "poll", "idle")
    /\ stored' = IF stored = 0 THEN 0 ELSE stored - 1
    /\ UNCHANGED vars

(* tryRead(): let one more writer in, and take an element if there is one. *)
(* If not, withdraw the offer and return false; when a writer has already  *)
(* taken it up, yield and look again.  A Steady caller's yield changes     *)
(* nothing: other callers run, and it comes back.                          *)

TryReadBegin(c) ==
    c \in Steady /\ Goto(c, "idle", "tryRead") /\ LetIn(writer) /\ UNCHANGED stored

TryReadTake(c) == Goto(c, "tryRead", "read") /\ Acquire(c, reader) /\ UNCHANGED stored

TryReadNone(c) ==
    Goto(c, "tryRead", "tryBack") /\ permits[reader] = 0 /\ UNCHANGED <<vars, stored>>

OfferPassed(c) ==
    /\ waitsOn' = [waitsOn EXCEPT ![c] = writer]
    /\ granted' = [granted EXCEPT ![c] = TRUE]
    /\ UNCHANGED timed
OfferKept(c) == OfferPassed(c) /\ UNCHANGED permits
OfferWithdrawn(c) == Acquire(c, writer)

TryReadBack(c) == Goto(c, "tryBack", "false") /\ OfferWithdrawn(c) /\ UNCHANGED stored

TryReadFalse(c) == Goto(c, "false", "idle") /\ Return(c) /\ UNCHANGED stored

TryReadYield(c) ==
    Goto(c, "tryBack", "tryRead") /\ permits[writer] = 0 /\ UNCHANGED <<vars, stored>>

-----------------------------------------------------------------------------
(* write(): wait to be let in, add the element, announce it.  tryWrite()   *)
(* does the same when the permit is there, and nothing otherwise.          *)

WriteWait(c) == Goto(c, "idle", "write") /\ Wait(c, writer) /\ UNCHANGED stored

TryWrite(c) == Goto(c, "idle", "write") /\ Acquire(c, writer) /\ UNCHANGED stored

WriteWaited(c) == Goto(c, "write", "add") /\ Return(c) /\ UNCHANGED stored

WriteAdd(c) == Goto(c, "add", "announce") /\ stored' = Stored(stored) /\ UNCHANGED vars

AnnouncedNot(b) == UNCHANGED vars
Announced(b) == WakeUp(b)

WriteAnnounce(c) == Goto(c, "announce", "idle") /\ Announced(reader) /\ UNCHANGED stored

-----------------------------------------------------------------------------

ReadStep(c) ==
    \/ ReadBegin(c) \/ ReadWait(c) \/ ReadWaited(c) \/ ReadPoll(c)
    \/ TryReadBegin(c) \/ TryReadTake(c) \/ TryReadNone(c) \/ TryReadBack(c)
    \/ TryReadFalse(c) \/ TryReadYield(c)

WriteStep(c) ==
    WriteWait(c) \/ TryWrite(c) \/ WriteWaited(c) \/ WriteAdd(c) \/ WriteAnnounce(c)

ChannelStep(c) == ChannelTake(c) \/ ReadStep(c) \/ WriteStep(c)

ChannelNext == \E c \in Callers : ChannelStep(c)

ChannelSpec == ChannelInit /\ [][ChannelNext]_channelVars

-----------------------------------------------------------------------------
At(p) == {c \in Callers : pc[c] = p}

\* Reads that have let a writer in and have not taken an element.
Offers == At("read") \union At("poll") \union At("tryRead") \union At("tryBack")
\* Writes that have been let in and have not added their element.
Admitted == {c \in At("write") : granted[c]} \union At("add")
\* Reads that have been promised an element and have not taken it.
Promised == {c \in At("read") : granted[c]} \union At("poll")

(* Every write is let in by the capacity or by one reader that is still    *)
(* there: the writers' permits, the writes under way and the queue add up  *)
(* to the capacity and the readers, also after a Steady caller's tryRead   *)
(* that returned false.  So the queue never exceeds the capacity by more   *)
(* than the reads.                                                         *)
WritesBalanced ==
    permits[writer] + Cardinality(Admitted) + stored = ChannelCapacity + Cardinality(Offers)

(* Every element in the queue is announced once and promised to one read,  *)
(* so that dataQueue.poll() in read() and tryRead() never returns null.    *)
ReadsBalanced ==
    permits[reader] + Cardinality(Promised) + Cardinality(At("announce")) = stored

(* Both balances of read(), write(), tryWrite() on any number of threads,  *)
(* and of tryRead() where its callers are Steady.                          *)
Balanced == WritesBalanced /\ ReadsBalanced

Stuck(c, b) == waitsOn[c] = b /\ ~granted[c] /\ permits[b] = 0

(* Readers and writers do not wait for each other: with one stuck in       *)
(* read() and one in write(), some call is still under way.                *)
NoStandoff ==
    ~ /\ \E c \in Callers : Stuck(c, reader)
      /\ \E c \in Callers : Stuck(c, writer)
      /\ \A c \in Callers : pc[c] = "idle" \/ Stuck(c, reader) \/ Stuck(c, writer)

=============================================================================
