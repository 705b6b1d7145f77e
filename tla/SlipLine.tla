------------------------------ MODULE SlipLine ------------------------------
(***************************************************************************)
(* The serial line from the master node to the laptop: slip_tx of the node *)
(* puts a payload in a SLIP frame, the SLIPstream server takes frames      *)
(* apart byte by byte and hands the payloads to its UDP client.  The line  *)
(* can lose bytes and, since the node prints on it from interrupt handlers *)
(* too, can carry text in the middle of a frame.  The line keeps the order *)
(* of bytes and nothing goes back over it, so the next frame begins when   *)
(* the server has read the one before.                                     *)
(***************************************************************************)
EXTENDS Naturals, SequencesExt

CONSTANTS
    END, START, ESC, ESC_END, ESC_ESC,   \* the control bytes
    CheckMod,      \* the checksum is kept below this, 128 in the code
    MaxSize,       \* the largest payload slip_tx accepts, 128
    BufSize,       \* MAX_SLIP_BUF of the server, 1023
    Payload,       \* the payloads rx_task hands to slip_tx
    Text,          \* the bytes of printed messages
    MaxFaults      \* bytes lost from, or printed into, one frame

ASSUME SlipAssumption ==
    /\ {END, START, ESC, ESC_END, ESC_ESC} \subseteq Nat
    /\ IsInjective(<<END, START, ESC, ESC_END, ESC_ESC>>)
    /\ CheckMod \in Nat \ {0} /\ MaxSize \in Nat /\ BufSize \in Nat
    /\ \A c \in {END, ESC} : CheckMod <= c /\ MaxSize < c   \* neither acts as a control byte
    /\ MaxSize + 2 <= BufSize
    /\ Payload \subseteq Seq(Nat) \ {<<>>}
    /\ Text \subseteq Nat \ {END, START, ESC}
    /\ MaxFaults \in Nat

VARIABLES
    line,        \* the bytes of the frame the server has not read yet
    mode,        \* "ASCII", "SLIP", or "ESC" between an ESC and its code
    slipBuf,     \* slip_buf[0 .. received - 1], empty outside slip_rx
    connected,   \* got_connection
    sent,        \* the payload of the last frame ...
    before,      \* ... and of the one before it
    faults,      \* bytes of the last frame that were lost or printed into it
    flushable,   \* when it began, a client was known and no ESC was pending
    got          \* the payloads sent to the client since it began

rxVars    == <<mode, slipBuf, connected>>
frameVars == <<sent, before, faults, flushable>>
vars      == <<line, rxVars, frameVars, got>>

-----------------------------------------------------------------------------
(* The sender.                                                             *)

Sum(bytes) ==
    LET sum[i \in 0..Len(bytes)] == IF i = 0 THEN 0 ELSE sum[i - 1] + bytes[i]
    IN  sum[Len(bytes)]
Checksum(bytes) == Sum(bytes) % CheckMod

Stuff(b) ==
    IF b = END THEN <<ESC, ESC_END>>
    ELSE IF b = ESC THEN <<ESC, ESC_ESC>>
    ELSE <<b>>

Stuffed(p) == FlattenSeq([i \in DOMAIN p |-> Stuff(p[i])])

\* Faulty variant: the accumulated data is not flushed.
FramedWithoutEnd(p) == <<START, Len(p)>> \o Stuffed(p) \o <<Checksum(p), END>>

Framed(p) == <<END, START, Len(p)>> \o Stuffed(p) \o <<Checksum(p), END>>

\* slip_tx, which refuses a longer payload.
SlipTx(p) ==
    /\ line = <<>> /\ Len(p) <= MaxSize
    /\ line' = Framed(p)
    /\ sent' = p /\ before' = sent
    /\ faults' = 0
    /\ flushable' = (connected /\ mode # "ESC")
    /\ got' = <<>>
    /\ UNCHANGED rxVars

-----------------------------------------------------------------------------
(* The server: main's loop looks for a START, slip_rx reads up to an END.  *)

\* server_tx
ToClient(p) == got' = IF connected THEN Append(got, p) ELSE got

\* Faulty variant: the end of the buffer is not looked at.
StoreUnchecked(b) == slipBuf' = Append(slipBuf, b)

Store(b) == slipBuf' = IF Len(slipBuf) < BufSize THEN Append(slipBuf, b) ELSE slipBuf

Contents == SubSeq(slipBuf, 2, Len(slipBuf) - 1)

\* Faulty variant of the test at an END: without the checksum.
ValidUnsummed == Len(slipBuf) >= 2 /\ Len(slipBuf) - 2 = slipBuf[1]

Valid ==
    /\ Len(slipBuf) >= 2
    /\ Len(slipBuf) - 2 = slipBuf[1]
    /\ Checksum(Contents) = Last(slipBuf)

ReadAscii(b) ==
    /\ mode = "ASCII"
    /\ mode' = IF b = START THEN "SLIP" ELSE "ASCII"
    /\ UNCHANGED <<slipBuf, got>>

ReadEnd(b) ==
    /\ mode = "SLIP" /\ b = END
    /\ mode' = "ASCII"
    /\ IF Valid THEN ToClient(Contents) ELSE UNCHANGED got
    /\ slipBuf' = <<>>

ReadEsc(b) ==
    /\ mode = "SLIP" /\ b = ESC
    /\ mode' = "ESC"
    /\ UNCHANGED <<slipBuf, got>>

\* Anything but a code is left alone and stored.
Unescaped(b) == IF b = ESC_END THEN END ELSE IF b = ESC_ESC THEN ESC ELSE b

ReadEscaped(b) ==
    /\ mode = "ESC"
    /\ mode' = "SLIP"
    /\ Store(Unescaped(b))
    /\ UNCHANGED got

ReadData(b) ==
    /\ mode = "SLIP" /\ b \notin {END, ESC}
    /\ Store(b)
    /\ UNCHANGED <<mode, got>>

Read(b) == ReadAscii(b) \/ ReadEnd(b) \/ ReadEsc(b) \/ ReadEscaped(b) \/ ReadData(b)

ReadByte ==
    /\ line # <<>>
    /\ line' = Tail(line)
    /\ Read(Head(line))
    /\ UNCHANGED <<connected, frameVars>>

\* server_non_blocking_rx: a first datagram makes its sender the client.
ClientConnects ==
    /\ ~connected
    /\ connected' = TRUE
    /\ UNCHANGED <<line, mode, slipBuf, frameVars, got>>

-----------------------------------------------------------------------------
(* The line.                                                               *)

LoseByte ==
    /\ line # <<>> /\ faults < MaxFaults
    /\ line' = Tail(line)
    /\ faults' = faults + 1
    /\ UNCHANGED <<rxVars, sent, before, flushable, got>>

PrintByte ==
    /\ line # <<>> /\ faults < MaxFaults
    /\ \E b \in Text : Read(b)
    /\ faults' = faults + 1
    /\ UNCHANGED <<line, connected, sent, before, flushable>>

Init ==
    /\ line = <<>>
    /\ mode = "ASCII" /\ slipBuf = <<>> /\ connected = FALSE
    /\ sent = <<>> /\ before = <<>>
    /\ faults = 0 /\ flushable = FALSE
    /\ got = <<>>

Next ==
    \/ \E p \in Payload : SlipTx(p)
    \/ ReadByte
    \/ ClientConnects
    \/ LoseByte
    \/ PrintByte

Spec == Init /\ [][Next]_vars

-----------------------------------------------------------------------------
\* Types; a buffer never outgrows slip_buf (SLIPstream-server/main.c:187-271).
TypeOK ==
    /\ line \in Seq(Nat)
    /\ mode \in {"ASCII", "SLIP", "ESC"}
    /\ slipBuf \in Seq(Nat) /\ Len(slipBuf) <= BufSize
    /\ connected \in BOOLEAN /\ flushable \in BOOLEAN
    /\ {sent, before} \subseteq Payload \cup {<<>>}
    /\ faults \in 0..MaxFaults

\* A frame that arrives as it was sent is handed to the client, once and
\* unchanged, whatever its bytes are and whatever became of the frames
\* before it, whose rest its first END flushes: all but a frame cut off
\* right behind an ESC (slip.c:99-132, SLIPstream-server/main.c:203-262).
IntactIsDelivered ==
    line = <<>> /\ faults = 0 /\ flushable => Last(<<<<>>>> \o got) = sent

\* A byte lost from a frame, or printed into it, never makes the server hand
\* over anything but the payload of one frame, or a part of it, and at most
\* two in the time of one frame: a payload whose own END was lost comes with
\* the next (SLIPstream-server/main.c:224-248).
NothingInvented ==
    /\ Len(got) <= 2
    /\ \A i \in DOMAIN got : got[i] \in SubSeqs(sent) \cup SubSeqs(before)
=============================================================================
