----------------------------- MODULE ByteChannel -----------------------------
(***************************************************************************)
(* What a channel of the BPS gadget promises its reader: while the         *)
(* character device is open, the host hands over packets of at most        *)
(* MaxPacket bytes, one at a time (the next only once the reader has       *)
(* taken all of the previous one), and the bytes leave the device only by   *)
(* being returned from read(), in order and in pieces the reader chooses.  *)
(* Opening and closing the device start a fresh stream.                    *)
(***************************************************************************)
EXTENDS Naturals

CONSTANTS Channels, MaxPacket

VARIABLES
    isOpen,    \* the channel's character device is open
    buffered,  \* bytes the host handed over that read() has not returned
    reading    \* a read() has taken bytes and is returning them

vars == <<isOpen, buffered, reading>>

Init ==
    /\ isOpen = [c \in Channels |-> FALSE]
    /\ buffered = [c \in Channels |-> 0]
    /\ reading = [c \in Channels |-> FALSE]

Open(c) ==
    /\ ~isOpen[c]
    /\ isOpen' = [isOpen EXCEPT ![c] = TRUE]
    /\ buffered' = [buffered EXCEPT ![c] = 0]
    /\ UNCHANGED reading

Close(c) ==
    /\ isOpen[c] /\ ~reading[c]
    /\ isOpen' = [isOpen EXCEPT ![c] = FALSE]
    /\ buffered' = [buffered EXCEPT ![c] = 0]
    /\ UNCHANGED reading

\* The host's packet is accepted only into an empty channel.
Deliver(c) ==
    /\ isOpen[c] /\ buffered[c] = 0
    /\ \E n \in 1..MaxPacket : buffered' = [buffered EXCEPT ![c] = n]
    /\ UNCHANGED <<isOpen, reading>>

StartRead(c) ==
    /\ isOpen[c] /\ ~reading[c]
    /\ reading' = [reading EXCEPT ![c] = TRUE]
    /\ UNCHANGED <<isOpen, buffered>>

\* The read returns n of the buffered bytes (none for a zero-length packet).
Consume(c) ==
    /\ reading[c]
    /\ \E n \in 0..buffered[c] : buffered' = [buffered EXCEPT ![c] = @ - n]
    /\ reading' = [reading EXCEPT ![c] = FALSE]
    /\ UNCHANGED isOpen

Next == \E c \in Channels :
          Open(c) \/ Close(c) \/ Deliver(c) \/ StartRead(c) \/ Consume(c)

Spec == Init /\ [][Next]_vars
=============================================================================
