----------------------------- MODULE CmdChannel -----------------------------
(***************************************************************************)
(* What the command manager promises the firmware and the callers: accepted*)
(* commands are handed over one at a time in the order of acceptance, and  *)
(* the next one only when the previous one is answered.  The promise ends  *)
(* the first time a command is given up or the device disappears.          *)
(***************************************************************************)
EXTENDS Naturals, Sequences

CONSTANT Commands

VARIABLES
    queue,      \* accepted and not yet answered, oldest first
    handed,     \* the oldest one has been handed to the firmware
    broken      \* the channel has been given up

channelVars == <<queue, handed, broken>>

ChannelInit == queue = <<>> /\ handed = FALSE /\ broken = FALSE

Accept(c) ==
    /\ ~broken
    /\ \A i \in DOMAIN queue : queue[i] # c
    /\ queue' = Append(queue, c)
    /\ UNCHANGED <<handed, broken>>

HandOver ==
    /\ ~broken /\ queue # <<>> /\ ~handed
    /\ handed' = TRUE
    /\ UNCHANGED <<queue, broken>>

Answer ==
    /\ ~broken /\ handed
    /\ queue' = Tail(queue)
    /\ handed' = FALSE
    /\ UNCHANGED broken

Break ==
    /\ ~broken
    /\ broken' = TRUE /\ queue' = <<>> /\ handed' = FALSE

ChannelNext == (\E c \in Commands : Accept(c)) \/ HandOver \/ Answer \/ Break

ChannelSpec == ChannelInit /\ [][ChannelNext]_channelVars
=============================================================================
