----------------------------- MODULE TdmaSender -----------------------------
(***************************************************************************)
(* What a node promises to those who listen to it: in a life it counts its *)
(* samples, and each frame it puts on the air is one sample, whole, the    *)
(* newest when it was handed over; it may be sent more than once.          *)
(* The promise has one exception: a frame may go out before its sample has *)
(* been copied, and then the node is mute until it restarts.               *)
(***************************************************************************)
EXTENDS Naturals

CONSTANT SeqMod     \* sequence numbers are counted modulo this

VARIABLES
    current,    \* the newest sample, or NoSample
    buffer,     \* the frame handed over last, or Empty
    loaded,     \* it has not been sent yet
    mute,       \* nothing more is sent in this life
    air         \* the last frame on the air

senderVars == <<current, buffer, loaded, mute, air>>

NoSample  == SeqMod
Empty     == [seq |-> 0, data |-> 0, length |-> "none"]
Packed(n) == [seq |-> n, data |-> n, length |-> "full"]

Init ==
    /\ current = NoSample
    /\ buffer = Empty /\ loaded = FALSE /\ mute = FALSE
    /\ air = Empty

NewSample ==
    /\ current' = IF current = NoSample THEN 0 ELSE (current + 1) % SeqMod
    /\ UNCHANGED <<buffer, loaded, mute, air>>

Load ==
    /\ ~loaded /\ ~mute /\ current # NoSample
    /\ buffer' = Packed(current) /\ loaded' = TRUE
    /\ UNCHANGED <<current, mute, air>>

\* The sender may miss that its frame has gone.
Send ==
    /\ loaded
    /\ air' = buffer
    /\ loaded' = FALSE
    /\ \/ UNCHANGED <<buffer, mute>>
       \/ mute' = TRUE /\ buffer' = Empty
    /\ UNCHANGED current

\* A frame that went out too early is the last one again, its number that
\* of the new sample or not.
SendUnfilled ==
    /\ ~loaded /\ ~mute /\ current # NoSample
    /\ air' \in {buffer, [buffer EXCEPT !.seq = current]}
    /\ mute' = TRUE /\ buffer' = Empty
    /\ UNCHANGED <<current, loaded>>

Restart ==
    /\ current' = NoSample
    /\ buffer' = Empty /\ loaded' = FALSE /\ mute' = FALSE
    /\ UNCHANGED air

Next == NewSample \/ Load \/ Send \/ SendUnfilled \/ Restart

Spec == Init /\ [][Next]_senderVars
=============================================================================
