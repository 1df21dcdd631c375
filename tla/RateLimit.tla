----------------------------- MODULE RateLimit ------------------------------
(***************************************************************************)
(* How often Google is asked for addresses (src/src/geoloc.c): calls are   *)
(* spaced by geocode_rlimit_ms, and after repeated answers "over quota" no *)
(* call is made for 24 hours.  Threads share the time of the last call and *)
(* the state of the block without a mutex.  The copies of these variables  *)
(* for static maps differ in one point: nothing ever sets                  *)
(* staticmap_rate_24h_exceeded, so only the spacing acts.                  *)
(*                                                                         *)
(* One clock stands for the milliseconds of the spacing and the seconds of *)
(* the block.                                                              *)
(***************************************************************************)
EXTENDS Integers

CONSTANTS LimitThreads,  \* threads that ask for addresses
          RLimit,        \* geocode_rlimit_ms
          BlockTime,     \* 24 hours
          MaxTime,       \* bound: the clock
          MaxAsks        \* bound: requests of all threads

ASSUME RateLimitAssumption == {RLimit, BlockTime, MaxTime, MaxAsks} \subseteq Nat

\* FAILED_API_CALLS_BEFORE_BLOCKING_24H
FailedCallsBeforeBlocking == 2

VARIABLES
    now,       \* the clock
    last,      \* last_geocode_api_call
    exceeded,  \* geocode_rate_24h_exceeded
    until,     \* geocode_rate_24h_wait_until
    try,       \* geocode_rate_24h_try
    rpc,       \* where each thread is
    wake,      \* when its usleep ends
    attempt,   \* first or second lookup of the request
    asks,      \* requests so far
    mails,     \* mails about the block
    overs,     \* history: requests over quota since the block was lifted
    spaced,    \* history: every call was made RLimit after the one before
    alone      \* history: no two threads were ever active at once

blockVars == <<exceeded, until, try>>
rateVars  == <<now, last, blockVars, rpc, wake, attempt, asks, mails, overs, spaced, alone>>

RateInit ==
    /\ now = 0 /\ last = 0
    /\ exceeded = FALSE /\ until = 0 /\ try = 0
    /\ rpc = [t \in LimitThreads |-> "idle"]
    /\ wake = [t \in LimitThreads |-> 0]
    /\ attempt = [t \in LimitThreads |-> 1]
    /\ asks = 0 /\ mails = 0 /\ overs = 0
    /\ spaced = TRUE /\ alone = TRUE

RGoto(t, pc) == rpc' = [rpc EXCEPT ![t] = pc]

Tick ==
    /\ now < MaxTime
    /\ now' = now + 1
    /\ UNCHANGED <<last, blockVars, rpc, wake, attempt, asks, mails, overs, spaced, alone>>

\* The block is checked on entry.  When its time is over it is lifted.
get_address_from_latlon(t) ==
    /\ rpc[t] = "idle"
    /\ asks < MaxAsks
    /\ asks' = asks + 1
    /\ alone' = (alone /\ \A u \in LimitThreads : rpc[u] = "idle")
    /\ attempt' = [attempt EXCEPT ![t] = 1]
    /\ \/ exceeded /\ now < until /\ RGoto(t, "idle") /\ UNCHANGED <<exceeded, try, overs>>
       \/ /\ exceeded /\ now >= until
          /\ exceeded' = FALSE /\ try' = 0 /\ overs' = 0
          /\ RGoto(t, "limit")
       \/ ~exceeded /\ RGoto(t, "limit") /\ UNCHANGED <<exceeded, try, overs>>
    /\ UNCHANGED <<now, last, until, wake, mails, spaced>>

\* An address in the cache needs no call (Geocode).
in_address_cache(t) ==
    /\ rpc[t] = "limit"
    /\ RGoto(t, "idle")
    /\ UNCHANGED <<now, last, blockVars, wake, attempt, asks, mails, overs, spaced, alone>>

\* The time since the last call is taken once, before the sleep.
geocode_rate_limit(t) ==
    /\ rpc[t] = "limit"
    /\ wake' = [wake EXCEPT ![t] = IF now - last < RLimit THEN last + RLimit ELSE now]
    /\ RGoto(t, "sleep")
    /\ UNCHANGED <<now, last, blockVars, attempt, asks, mails, overs, spaced, alone>>

StampLast(t) ==
    /\ rpc[t] = "sleep"
    /\ now >= wake[t]
    /\ last' = now
    /\ spaced' = (spaced /\ now - last >= RLimit)
    /\ RGoto(t, "call")
    /\ UNCHANGED <<now, blockVars, wake, attempt, asks, mails, overs, alone>>

\* An address, or an error that is not about the quota ("?").
ReplyEnds(t) ==
    /\ rpc[t] = "call"
    /\ RGoto(t, "idle")
    /\ UNCHANGED <<now, last, blockVars, wake, attempt, asks, mails, overs, spaced, alone>>

\* GOOGLE_STATUS_OVERQUOTA: a second lookup two seconds later, then the failure counts.
ReplyOverQuota(t) ==
    /\ rpc[t] = "call"
    /\ \/ attempt[t] = 1 /\ RGoto(t, "limit") /\ attempt' = [attempt EXCEPT ![t] = 2]
       \/ attempt[t] = 2 /\ RGoto(t, "over") /\ UNCHANGED attempt
    /\ UNCHANGED <<now, last, blockVars, wake, asks, mails, overs, spaced, alone>>

ExhaustedEarly == FailedCallsBeforeBlocking <= try + 1
Exhausted == FailedCallsBeforeBlocking <= try

CountFailure(t) ==
    /\ rpc[t] = "over"
    /\ overs' = overs + 1
    /\ \/ ~Exhausted /\ try' = try + 1 /\ RGoto(t, "idle") /\ UNCHANGED <<exceeded, until>>
       \/ /\ Exhausted
          /\ exceeded' = TRUE /\ until' = now + BlockTime
          /\ RGoto(t, "mail")
          /\ UNCHANGED try
    /\ UNCHANGED <<now, last, wake, attempt, asks, mails, spaced, alone>>

send_mail_quotalimit(t) ==
    /\ rpc[t] = "mail"
    /\ mails' = mails + 1
    /\ RGoto(t, "idle")
    /\ UNCHANGED <<now, last, blockVars, wake, attempt, asks, overs, spaced, alone>>

\* The command .ratereset.
geocode_rate_limit_reset ==
    /\ exceeded \/ try > 0
    /\ exceeded' = FALSE /\ until' = 0 /\ try' = 0 /\ overs' = 0
    /\ alone' = (alone /\ \A u \in LimitThreads : rpc[u] = "idle")
    /\ UNCHANGED <<now, last, rpc, wake, attempt, asks, mails, spaced>>

RateNext ==
    \/ Tick
    \/ geocode_rate_limit_reset
    \/ \E t \in LimitThreads :
          \/ get_address_from_latlon(t) \/ in_address_cache(t) \/ geocode_rate_limit(t)
          \/ StampLast(t) \/ ReplyEnds(t) \/ ReplyOverQuota(t) \/ CountFailure(t)
          \/ send_mail_quotalimit(t)

RateSpec == RateInit /\ [][RateNext]_rateVars

-----------------------------------------------------------------------------
RateTypeOK ==
    /\ {now, last, until, try, asks, mails, overs} \subseteq Nat
    /\ rpc \in [LimitThreads -> {"idle", "limit", "sleep", "call", "over", "mail"}]
    /\ wake \in [LimitThreads -> Nat]
    /\ attempt \in [LimitThreads -> {1, 2}]
    /\ exceeded \in BOOLEAN /\ spaced \in BOOLEAN /\ alone \in BOOLEAN

\* As long as one thread at a time asks for addresses, its calls are spaced
\* (geocode_rate_limit), a block of 24 hours takes three requests that were over quota twice
\* since the last block or reset (get_address_from_latlon), and nothing is counted
\* during a block.
AloneIsPolite ==
    alone => /\ spaced
             /\ exceeded <=> overs = FailedCallsBeforeBlocking + 1
             /\ ~exceeded => overs = try
=============================================================================
