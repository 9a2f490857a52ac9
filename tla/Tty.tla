-------------------------------- MODULE Tty --------------------------------
(***************************************************************************)
(* The interrupt driven terminal driver (drivers/tty.c): tty_read and      *)
(* tty_write, the two branches of the interrupt handler, and the two ring  *)
(* buffers between them.  What is done under the driver's spinlock, up to  *)
(* a thread_switch, is one action.                                         *)
(*                                                                         *)
(* The n-th character typed is n, counted modulo Serials.  The terminal    *)
(* raises its flag for writing whenever it becomes able to take a          *)
(* character, and the flag stays until the driver resets it.               *)
(***************************************************************************)
EXTENDS Integers, Sequences, FiniteSets

CONSTANTS
    Users,      \* threads that use the terminal
    BufSize,    \* TTY_BUF_SIZE
    Serials,    \* typed characters are told apart by their number modulo this
    MaxLength,  \* bound on the length of a read or a write
    MaxWrites   \* bound on the number of calls of tty_write

ASSUME TtyAssumption ==
    /\ BufSize \in Nat \ {0} /\ MaxLength \in Nat \ {0} /\ MaxWrites \in Nat
    /\ Serials \in Nat /\ Serials > BufSize + 1

VARIABLES
    readBuf, readHead, readCount,   \* the ring of typed characters
    typed,         \* number of the next character typed (ghost)
    writeBuf,      \* write_buf from write_head on, a sequence of writers
    wbusy, wirq,   \* the terminal is printing a character; it has raised its flag
    readHandler,   \* the handler is about to wake the readers
    tAt,           \* where u is
    toWrite,       \* len - i of u's tty_write
    printed,       \* how many of u's characters have gone to the terminal (ghost)
    asked,         \* how many u has asked for (ghost)
    writes         \* the number of calls of tty_write

readVars == <<readBuf, readHead, readCount, typed, readHandler>>
writeVars == <<writeBuf, wbusy, wirq, toWrite, printed, asked, writes>>
ttyVars == <<readVars, writeVars, tAt>>

Ring == 0 .. BufSize - 1
Modulo(n) == n % Serials

\* tty_init
TtyInit ==
    /\ readBuf = [k \in Ring |-> 0] /\ readHead = 0 /\ readCount = 0
    /\ typed = 0
    /\ writeBuf = <<>>
    /\ wbusy = FALSE /\ wirq = FALSE
    /\ readHandler = FALSE
    /\ tAt = [u \in Users |-> "user"]
    /\ toWrite = [u \in Users |-> 0]
    /\ printed = [u \in Users |-> 0] /\ asked = [u \in Users |-> 0]
    /\ writes = 0

-----------------------------------------------------------------------------
\* tty_write is called with len characters.
WriteCall(u, len) ==
    /\ tAt[u] = "user" /\ writes < MaxWrites
    /\ writes' = writes + 1
    /\ toWrite' = [toWrite EXCEPT ![u] = len]
    /\ asked' = [asked EXCEPT ![u] = @ + len]
    /\ tAt' = [tAt EXCEPT ![u] = "write"]
    /\ UNCHANGED <<readVars, writeBuf, wbusy, wirq, printed>>

\* The buffer contains data: wait until it is empty.
WriteSleep(u) ==
    /\ tAt[u] = "write" /\ writeBuf # <<>>
    /\ tAt' = [tAt EXCEPT ![u] = "writeAsleep"]
    /\ UNCHANGED <<readVars, writeVars>>

\* Mutant of StartsTerminal: the printing is left to the interrupt handler.
NeverStarts == FALSE

\* One character is written to cause an interrupt, unless one will come by itself.
StartsTerminal == ~wbusy

\* The buffer is filled.  With the lock still held, the loop then finds the buffer
\* full and the writer sleeps, unless it is done (or the buffer is for one character).
Fill(u) ==
    LET n == IF toWrite[u] < BufSize THEN toWrite[u] ELSE BufSize
        filled == [k \in 1 .. n |-> u]
        left == IF StartsTerminal THEN Tail(filled) ELSE filled
    IN /\ tAt[u] = "write" /\ writeBuf = <<>>
       /\ toWrite' = [toWrite EXCEPT ![u] = @ - n]
       /\ writeBuf' = left
       /\ printed' = [printed EXCEPT ![u] = @ + (n - Len(left))]
       /\ wbusy' = (wbusy \/ StartsTerminal)
       /\ tAt' = [tAt EXCEPT ![u] = IF n = toWrite[u] THEN "user"
                                    ELSE IF left # <<>> THEN "writeAsleep" ELSE "write"]
       /\ UNCHANGED <<readVars, wirq, asked, writes>>

WakeAll(place, woken) ==
    tAt' = [u \in Users |-> IF tAt[u] = place THEN woken ELSE tAt[u]]

\* The branch of tty_interrupt_handle for writing.  A terminal that is ready takes
\* as many characters as it can (one at least, and it is busy again in the end),
\* and the writers are woken when the buffer is empty.
WriteInterrupt ==
    /\ wirq
    /\ wirq' = FALSE
    /\ \E n \in 0 .. Len(writeBuf) :
           /\ n = 0 <=> wbusy \/ writeBuf = <<>>
           /\ writeBuf' = SubSeq(writeBuf, n + 1, Len(writeBuf))
           /\ printed' = [u \in Users |->
                  printed[u] + Cardinality({k \in 1 .. n : writeBuf[k] = u})]
           /\ wbusy' = (wbusy \/ n > 0)
           /\ IF n = Len(writeBuf) THEN WakeAll("writeAsleep", "write") ELSE UNCHANGED tAt
    /\ UNCHANGED <<readVars, toWrite, asked, writes>>

\* The terminal has printed a character.
TerminalReady ==
    /\ wbusy
    /\ wbusy' = FALSE
    /\ wirq' = TRUE
    /\ UNCHANGED <<readVars, writeBuf, toWrite, printed, asked, writes, tAt>>

-----------------------------------------------------------------------------
\* Mutant of Full: the buffer is never full.
NeverFull == FALSE

\* The handler's test for a full buffer, which lets one character too many in.
Full == readCount > BufSize

\* The branch of tty_interrupt_handle for reading: a character is read from the
\* terminal, and stored unless the buffer is full.  (Several characters in one
\* interrupt are as many interrupts with nothing in between.)
ReadInterrupt ==
    /\ ~readHandler
    /\ IF Full THEN UNCHANGED <<readBuf, readCount, typed>>
               ELSE /\ readBuf' = [readBuf EXCEPT ![(readHead + readCount) % BufSize] = typed]
                    /\ readCount' = readCount + 1
                    /\ typed' = Modulo(typed + 1)
    /\ readHandler' = TRUE
    /\ UNCHANGED <<readHead, writeVars, tAt>>

\* The lock has been released; the readers are woken.
ReadWake ==
    /\ readHandler
    /\ readHandler' = FALSE
    /\ WakeAll("readAsleep", "read")
    /\ UNCHANGED <<readBuf, readHead, readCount, typed, writeVars>>

ReadCall(u) ==
    /\ tAt[u] = "user"
    /\ tAt' = [tAt EXCEPT ![u] = "read"]
    /\ UNCHANGED <<readVars, writeVars>>

\* tty_read: the buffer is empty...
ReadSleep(u) ==
    /\ tAt[u] = "read" /\ readCount = 0
    /\ tAt' = [tAt EXCEPT ![u] = "readAsleep"]
    /\ UNCHANGED <<readVars, writeVars>>

\* ... or there are characters, and the call returns at most len of them.
ReadTake(u, len) ==
    LET n == IF readCount < len THEN readCount ELSE len
    IN /\ tAt[u] = "read" /\ readCount > 0
       /\ readHead' = (readHead + n) % BufSize
       /\ readCount' = readCount - n
       /\ tAt' = [tAt EXCEPT ![u] = "user"]
       /\ UNCHANGED <<readBuf, typed, readHandler, writeVars>>

TtyCall(u) ==
    \/ \E len \in 1 .. MaxLength : WriteCall(u, len)
    \/ ReadCall(u)

TtyStep(u) ==
    \/ WriteSleep(u) \/ Fill(u)
    \/ ReadSleep(u) \/ \E len \in 1 .. MaxLength : ReadTake(u, len)

TtyNext ==
    \/ \E u \in Users : TtyCall(u) \/ TtyStep(u)
    \/ WriteInterrupt \/ TerminalReady \/ ReadInterrupt \/ ReadWake

\* A thread in a call is scheduled, the terminal gets ready again, its interrupt is
\* handled, and the handler comes to its end.  Nobody has to type, or to call.
TtyFairness ==
    /\ \A u \in Users : WF_ttyVars(TtyStep(u))
    /\ WF_ttyVars(TerminalReady \/ WriteInterrupt)
    /\ WF_ttyVars(ReadWake)

-----------------------------------------------------------------------------
\* The ring holds the characters that were typed and not read yet, in their order.
\* When the handler has let one in too many, the oldest one, and no other, has been
\* lost: its place holds the newest, which a reader gets twice.
RingHoldsTyped ==
    /\ readCount <= BufSize + 1
    /\ \A k \in 0 .. readCount - 1 :
           (k > 0 \/ readCount <= BufSize) =>
               readBuf[(readHead + k) % BufSize] = Modulo(typed - readCount + k)

\* No call of the terminal is forgotten: what is written is printed to the end, a
\* writer that sleeps goes on and returns, and a reader does not sleep while there
\* are characters.
CallsServed ==
    \A u \in Users :
        /\ printed[u] # asked[u] ~> printed[u] = asked[u]
        /\ tAt[u] = "writeAsleep" ~> tAt[u] = "user"
        /\ (tAt[u] = "readAsleep" /\ readCount > 0) ~> tAt[u] # "readAsleep"
=============================================================================
