------------------------------- MODULE Buffer -------------------------------
(***************************************************************************)
(* The receive buffer of a connection (net/Buffer.cpp): a vector, the      *)
(* index readIndex_ of the first cell not yet taken and the index          *)
(* writeIndex_ behind the last one received. A vector of n cells is a      *)
(* sequence; cell i of the code is element i + 1 here.                     *)
(***************************************************************************)
EXTENDS Naturals, Sequences

CONSTANT Junk \* what a cell holds that was never written

NewBuffer(size) == [data |-> [i \in 1..size |-> Junk], read |-> 0, write |-> 0]

Readable(b) == b.write - b.read
Writable(b) == Len(b.data) - b.write

\* What the buffer stands for: the cells from peek() on.
Contents(b) == SubSeq(b.data, b.read + 1, b.write)

IsBuffer(b, Values) ==
    /\ b \in [data : Seq(Values), read : Nat, write : Nat]
    /\ b.read <= b.write /\ b.write <= Len(b.data)

RetrieveAll(b) == [b EXCEPT !.read = 0, !.write = 0]

\* Bug: a part that is taken stays.
RetrieveOnlyAll(b, n) == IF n < Readable(b) THEN b ELSE RetrieveAll(b)

\* Taking everything starts again at the front.
Retrieve(b, n) == IF n < Readable(b) THEN [b EXCEPT !.read = @ + n] ELSE RetrieveAll(b)

\* resize: the cells stay where they are.
Grow(b, n) ==
    [b EXCEPT !.data = [i \in 1 .. b.write + n |->
                           IF i <= Len(b.data) THEN b.data[i] ELSE Junk]]

\* The readable cells move to the front; those behind them keep their old values.
Compact(b) ==
    [data  |-> [i \in 1 .. Len(b.data) |->
                   IF i <= Readable(b) THEN b.data[b.read + i] ELSE b.data[i]],
     read  |-> 0,
     write |-> Readable(b)]

MakeSpace(b, n) == IF Writable(b) + b.read < n THEN Grow(b, n) ELSE Compact(b)

\* std::copy to beginWrite().
Store(b, s) ==
    [b EXCEPT !.data = [i \in 1 .. Len(b.data) |->
                           IF i \in b.write + 1 .. b.write + Len(s) THEN s[i - b.write]
                           ELSE b.data[i]],
              !.write = @ + Len(s)]

Appended(b, s) == Store(IF Writable(b) < Len(s) THEN MakeSpace(b, Len(s)) ELSE b, s)

\* What readv takes at once: the free cells, and extra cells on the stack if
\* those are more.
ReadRoom(b, extra) == Writable(b) + IF Writable(b) < extra THEN extra ELSE 0

\* readFd when readv returned the cells s: the free cells are filled first, what
\* is left is in extrabuf and appended.
ReadFd(b, s) ==
    IF Len(s) <= Writable(b) THEN Store(b, s)
    ELSE Appended(Store(b, SubSeq(s, 1, Writable(b))), SubSeq(s, Writable(b) + 1, Len(s)))
=============================================================================
