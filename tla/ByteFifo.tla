------------------------------ MODULE ByteFifo ------------------------------
(***************************************************************************)
(* What the receive ring of uart.c promises: bytes come out once and in    *)
(* the order they went in; a byte that finds no room is lost; the byte a   *)
(* reader has taken out stays what it was until the reader has used it.    *)
(***************************************************************************)
EXTENDS Naturals, Sequences

CONSTANTS Bytes, Room, NoByte

VARIABLES fifo, taken

fifoVars == <<fifo, taken>>

FifoInit == fifo = <<>> /\ taken = NoByte

Put(c) == Len(fifo) < Room /\ fifo' = Append(fifo, c) /\ UNCHANGED taken

TakeOut ==
  /\ taken = NoByte /\ fifo # <<>>
  /\ taken' = Head(fifo) /\ fifo' = Tail(fifo)

Use == taken # NoByte /\ taken' = NoByte /\ UNCHANGED fifo

FifoNext == (\E c \in Bytes : Put(c)) \/ TakeOut \/ Use

FifoSpec == FifoInit /\ [][FifoNext]_fifoVars
=============================================================================
