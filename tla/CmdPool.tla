------------------------------ MODULE CmdPool ------------------------------
(***************************************************************************)
(* What the command queue promises its clients, without slots, trackers or *)
(* the network: a pool of at most Capacity open commands.  Every command   *)
(* has a number of its own, enters the pool at most once and is refused    *)
(* only when the pool is full or the command is too long for it; its       *)
(* client either settles it, which takes it out of the pool, or abandons   *)
(* it, which leaves it there for good.                                     *)
(***************************************************************************)
EXTENDS Integers, FiniteSets

CONSTANTS Clients, Capacity, LongCmds, MaxCmds

VARIABLES issued,  \* commands numbered so far
          phase,   \* of the client's current command
          number,  \* of the client's current or last command
          open     \* commands in the pool

poolVars == <<issued, phase, number, open>>

PoolInit ==
    /\ issued = 0
    /\ phase = [c \in Clients |-> "idle"]
    /\ number = [c \in Clients |-> 0]
    /\ open = {}

\* A new command; it may fail at once because there is nobody to send it to.
Ask(c) ==
    /\ phase[c] = "idle"
    /\ issued < MaxCmds
    /\ issued' = issued + 1
    /\ number' = [number EXCEPT ![c] = issued + 1]
    /\ phase' \in {phase, [phase EXCEPT ![c] = "asked"]}
    /\ UNCHANGED open

Refuse(c) ==
    /\ phase[c] = "asked"
    /\ number[c] \in LongCmds \/ Cardinality(open) = Capacity
    /\ phase' = [phase EXCEPT ![c] = "idle"]
    /\ UNCHANGED <<issued, number, open>>

Open(c) ==
    /\ phase[c] = "asked"
    /\ number[c] \notin open \cup LongCmds
    /\ Cardinality(open) < Capacity
    /\ open' = open \cup {number[c]}
    /\ phase' = [phase EXCEPT ![c] = "open"]
    /\ UNCHANGED <<issued, number>>

Settle(c) ==
    /\ phase[c] = "open"
    /\ number[c] \in open
    /\ open' = open \ {number[c]}
    /\ phase' = [phase EXCEPT ![c] = "idle"]
    /\ UNCHANGED <<issued, number>>

Abandon(c) ==
    /\ phase[c] = "open"
    /\ number[c] \in open
    /\ phase' = [phase EXCEPT ![c] = "idle"]
    /\ UNCHANGED <<issued, number, open>>

PoolNext ==
    \E c \in Clients : Ask(c) \/ Refuse(c) \/ Open(c) \/ Settle(c) \/ Abandon(c)

PoolSpec == PoolInit /\ [][PoolNext]_poolVars
=============================================================================
