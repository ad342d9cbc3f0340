----------------------------- MODULE Snowflake -----------------------------
(***************************************************************************)
(* Snowflake::nextId, by which each client process numbers the messages it *)
(* sends: milliseconds, a worker id and a sequence number in one integer.  *)
(* Clocks are the clients' own: they may be set back and need not agree.   *)
(***************************************************************************)
EXTENDS Integers

CONSTANTS
    Clients,
    WorkerSize,  \* worker ids (2^10 in the code)
    SeqSize,     \* sequence numbers in a millisecond (2^12 in the code)
    MaxClock,    \* bound on the clocks
    MaxSetBacks, \* bound on how often a clock is set back
    MaxRestarts  \* bound on restarts of client processes

ASSUME SizesAssumption == WorkerSize \in Nat \ {0, 1} /\ SeqSize \in Nat \ {0}
ASSUME ClockAssumption == MaxClock \in Nat \ {0} /\ MaxSetBacks \in Nat /\ MaxRestarts \in Nat

\* The same in every client.
kWorkerId == 1

VARIABLES
    clock,         \* clock[c]: currentTimestamp() of c, less kEpoch
    lastTimestamp, \* lastTimestamp_, -1 in a new process
    sequence,      \* sequence_
    waiting,       \* waiting[c]: c is in waitNextMillis
    lastId,        \* ghost: the last id of c's running process, -1 if none
    issued,        \* ghost: issued[c], every id c ever gave a message
    setBacks, restarts

idVars == <<clock, lastTimestamp, sequence, waiting, lastId, issued, setBacks, restarts>>

IdInit ==
    /\ clock \in [Clients -> 0..1]
    /\ lastTimestamp = [c \in Clients |-> -1]
    /\ sequence = [c \in Clients |-> 0]
    /\ waiting = [c \in Clients |-> FALSE]
    /\ lastId = [c \in Clients |-> -1] /\ issued = [c \in Clients |-> {}]
    /\ setBacks = 0 /\ restarts = 0

Tick(c) ==
    /\ clock[c] < MaxClock
    /\ clock' = [clock EXCEPT ![c] = @ + 1]
    /\ UNCHANGED <<lastTimestamp, sequence, waiting, lastId, issued, setBacks, restarts>>

\* The clock of c is set back.
SetBack(c) ==
    /\ setBacks < MaxSetBacks
    /\ \E t \in 0..MaxClock : t < clock[c] /\ clock' = [clock EXCEPT ![c] = t]
    /\ setBacks' = setBacks + 1
    /\ UNCHANGED <<lastTimestamp, sequence, waiting, lastId, issued, restarts>>

\* Bug: the sequence is or-ed in without shifting the rest past it.
ComposeUnshifted(t, seq) == t * WorkerSize + kWorkerId + seq

\* The shifts and ors: 42 bits of time, 10 of worker id, 12 of sequence.
Compose(t, seq) == (t * WorkerSize + kWorkerId) * SeqSize + seq

\* nextId stores the timestamp and returns.
Issue(c, t, seq) ==
    /\ lastTimestamp' = [lastTimestamp EXCEPT ![c] = t]
    /\ lastId' = [lastId EXCEPT ![c] = Compose(t, seq)]
    /\ issued' = [issued EXCEPT ![c] = @ \cup {Compose(t, seq)}]

\* Bug: a clock that went back is believed.
TimeAsRead(c) == clock[c]

\* A clock that went back counts as not having moved.
Time(c) == IF clock[c] < lastTimestamp[c] THEN lastTimestamp[c] ELSE clock[c]

NextSeq(c) == (sequence[c] + 1) % SeqSize

\* A new millisecond starts a new sequence.
NewMilli(c) ==
    /\ ~waiting[c] /\ Time(c) # lastTimestamp[c]
    /\ sequence' = [sequence EXCEPT ![c] = 0]
    /\ Issue(c, Time(c), 0)
    /\ UNCHANGED <<clock, waiting, setBacks, restarts>>

SameMilli(c) ==
    /\ ~waiting[c] /\ Time(c) = lastTimestamp[c]
    /\ NextSeq(c) # 0
    /\ sequence' = [sequence EXCEPT ![c] = NextSeq(c)]
    /\ Issue(c, Time(c), NextSeq(c))
    /\ UNCHANGED <<clock, waiting, setBacks, restarts>>

\* The sequence of this millisecond is used up.
Exhausted(c) ==
    /\ ~waiting[c] /\ Time(c) = lastTimestamp[c]
    /\ NextSeq(c) = 0
    /\ sequence' = [sequence EXCEPT ![c] = 0]
    /\ waiting' = [waiting EXCEPT ![c] = TRUE]
    /\ UNCHANGED <<clock, lastTimestamp, lastId, issued, setBacks, restarts>>

\* waitNextMillis spins with the generator's mutex held.
Waited(c) ==
    /\ waiting[c] /\ clock[c] > lastTimestamp[c]
    /\ waiting' = [waiting EXCEPT ![c] = FALSE]
    /\ Issue(c, clock[c], 0)
    /\ UNCHANGED <<clock, sequence, setBacks, restarts>>

\* A new process starts with a new generator, later than in the millisecond of
\* the last id by any clock that was not set back.
Restart(c) ==
    /\ restarts < MaxRestarts
    /\ clock[c] > lastTimestamp[c] \/ setBacks > 0
    /\ restarts' = restarts + 1
    /\ lastTimestamp' = [lastTimestamp EXCEPT ![c] = -1]
    /\ sequence' = [sequence EXCEPT ![c] = 0]
    /\ waiting' = [waiting EXCEPT ![c] = FALSE]
    /\ lastId' = [lastId EXCEPT ![c] = -1]
    /\ UNCHANGED <<clock, issued, setBacks>>

IdNext ==
    \E c \in Clients :
        \/ Tick(c) \/ SetBack(c) \/ Restart(c)
        \/ NewMilli(c) \/ SameMilli(c) \/ Exhausted(c) \/ Waited(c)

IdSpec == IdInit /\ [][IdNext]_idVars

----------------------------------------------------------------------------
\* Every variable has its type; a sequence number fits its field.
IdTypeOK ==
    /\ clock \in [Clients -> 0..MaxClock]
    /\ lastTimestamp \in [Clients -> {-1} \cup 0..MaxClock]
    /\ sequence \in [Clients -> 0..(SeqSize - 1)]
    /\ waiting \in [Clients -> BOOLEAN]
    /\ lastId \in [Clients -> Int]
    /\ issued \in [Clients -> SUBSET Int]
    /\ setBacks \in 0..MaxSetBacks /\ restarts \in 0..MaxRestarts

\* While a client runs, each id is larger than the one before, whatever its
\* clock does and however fast it asks (nextId: clock set back, sequence wrap).
IdsIncrease ==
    [][\A c \in Clients :
          lastId'[c] # lastId[c] => lastId'[c] > lastId[c] \/ lastId'[c] = -1]_idVars

\* Not even across restarts does a client number two messages alike, as long as
\* its clock is not set back.
NoIdTwice ==
    [][\A c \in Clients :
          setBacks = 0 /\ lastId'[c] \notin {lastId[c], -1} => lastId'[c] \notin issued[c]]_idVars
=============================================================================
