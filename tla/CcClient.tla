------------------------------ MODULE CcClient ------------------------------
(* The client of the CartonCloud API that every request of the backend       *)
(* shares (ccClient.ts): its two token buckets, the cached OAuth2 token and  *)
(* the authenticated fetch that retries once on a 401.  Calls run            *)
(* concurrently; time passes in ticks; CartonCloud may be slow, never answer *)
(* and revoke tokens.                                                        *)
EXTENDS Integers

CONSTANTS Calls,    \* callers that may be in the client at once
          Capacity, \* [Buckets -> calls a full bucket allows]: 40 and 20
          Minute,   \* ticks in a minute, in which a bucket fills up again
          Timeout,  \* CC_TIMEOUT_MS
          Skew,     \* TOKEN_REFRESH_SKEW_MS
          Life,     \* expires_in of the tokens CartonCloud issues
          MaxTime,  \* BOUND: ticks
          MaxRevocations \* BOUND: times CartonCloud revokes its tokens

Buckets == {"sync", "seed"}

ASSUME CapacityAssumption == Capacity \in [Buckets -> Nat]
ASSUME TimeAssumption ==
    /\ Minute \in Nat \ {0}
    /\ {Timeout, Skew, Life, MaxTime, MaxRevocations} \subseteq Nat
(* 12 s, 60 s and an hour.                                                   *)
ASSUME SkewAssumption == 2 * Timeout <= Skew /\ Skew < Life

VARIABLES
    now,
    bucket,   \* [Buckets -> content]: a call costs Minute units, a tick
              \* brings Capacity units
    cache,    \* this.token: the token and when the client lets it expire
    gen,      \* CartonCloud: how often it has revoked what it had issued
    call,     \* [Calls -> what the caller is doing]
    opened,   \* observer: when the window looked at began
    admitted  \* observer: [Buckets -> calls admitted in it]

window == <<opened, admitted>>
vars == <<now, bucket, cache, gen, call, window>>

Full(b) == Capacity[b] * Minute

(* A token: when it was issued and after how many revocations.               *)
Tokens == [at : 0..MaxTime, gen : 0..MaxRevocations]
NoToken == [at |-> 0, gen |-> 0]
Valid(t) == t.gen = gen /\ now < t.at + Life

Pcs == {"idle", "ensure", "asking", "issued", "fetching"}

(* left: fetches still to make; retried: after a 401; since: when the fetch  *)
(* began; refused and struck, for the observer: it ended with a 401, and     *)
(* tokens were revoked after its first one.                                  *)
CallRecords == [pc : Pcs, left : 0..3, retried : BOOLEAN, tok : Tokens, since : 0..MaxTime,
                struck : BOOLEAN, refused : BOOLEAN]

Idle == [pc |-> "idle", left |-> 0, retried |-> FALSE, tok |-> NoToken, since |-> 0,
         struck |-> FALSE, refused |-> FALSE]

InFlight(c) == call[c].pc \in {"asking", "issued", "fetching"}

-----------------------------------------------------------------------------
MutantRefill(b) == bucket[b] + Capacity[b]

(* TokenBucket.refill: it is continuous, so it may as well happen as time    *)
(* passes.                                                                   *)
Refill(b) ==
    IF bucket[b] + Capacity[b] > Full(b) THEN Full(b) ELSE bucket[b] + Capacity[b]

(* A tick passes; what a caller does without awaiting takes no time, and a   *)
(* fetch takes no longer than its timeout.                                   *)
Tick ==
    /\ now < MaxTime
    /\ \A c \in Calls : /\ call[c].pc # "ensure"
                        /\ InFlight(c) => now < call[c].since + Timeout
    /\ now' = now + 1
    /\ bucket' = [b \in Buckets |-> Refill(b)]
    /\ UNCHANGED <<cache, gen, call, window>>

MutantTake(b) == UNCHANGED bucket

(* TokenBucket.take.                                                         *)
Take(b) == bucket' = [bucket EXCEPT ![b] = @ - Minute]

(* guard: one token for a listing or lookup page, which is one fetch, and    *)
(* one for patchProductDims, which is up to three: GET, PATCH, GET.  On a    *)
(* CcRateLimitError nothing is sent and nothing changes: it is no step.      *)
Begin(c, b, fetches) ==
    /\ call[c].pc = "idle"
    /\ bucket[b] >= Minute
    /\ Take(b)
    /\ call' = [call EXCEPT ![c] = [Idle EXCEPT !.pc = "ensure", !.left = fetches]]
    /\ admitted' = [admitted EXCEPT ![b] = @ + 1]
    /\ UNCHANGED <<now, cache, gen, opened>>

-----------------------------------------------------------------------------
(* ensureToken and authedFetch.                                              *)

MutantFresh == now < cache.expires

(* The cached token is used until 60 s before it expires.                    *)
Fresh == now < cache.expires - Skew

Fetch(c, t) ==
    call' = [call EXCEPT ![c] = [@ EXCEPT !.pc = "fetching", !.tok = t, !.since = now]]

UseCached(c) ==
    /\ call[c].pc = "ensure" /\ Fresh
    /\ Fetch(c, cache.tok)
    /\ UNCHANGED <<now, bucket, cache, gen, window>>

AskToken(c) ==
    /\ call[c].pc = "ensure" /\ ~Fresh
    /\ call' = [call EXCEPT ![c] = [@ EXCEPT !.pc = "asking", !.since = now]]
    /\ UNCHANGED <<now, bucket, cache, gen, window>>

(* CartonCloud issues a token; its answer is on the way.                     *)
Issue(c) ==
    /\ call[c].pc = "asking"
    /\ call' = [call EXCEPT ![c] = [@ EXCEPT !.pc = "issued", !.tok = [at |-> now, gen |-> gen]]]
    /\ UNCHANGED <<now, bucket, cache, gen, window>>

(* The answer arrives: whoever is last is what the cache holds.  The caller  *)
(* goes on with the token it was given; the one that was asked for after a   *)
(* 401 is read back from the cache before anything else can run.             *)
ReceiveToken(c) ==
    /\ call[c].pc = "issued"
    /\ cache' = [tok |-> call[c].tok, expires |-> now + Life]
    /\ Fetch(c, call[c].tok)
    /\ UNCHANGED <<now, bucket, gen, window>>

(* The call returns, or throws; "refused" and "struck" tell a 401 and what   *)
(* led to it.                                                                *)
End(c) == call' = [call EXCEPT ![c] = Idle]

(* The token endpoint answers with an error: CcAuthError.                    *)
TokenRefused(c) ==
    /\ call[c].pc = "asking"
    /\ End(c)
    /\ UNCHANGED <<now, bucket, cache, gen, window>>

(* CartonCloud answers; the caller goes on with its next fetch, or is done:  *)
(* a page, an error, a no-op, a refusal, or the read-back.                   *)
Answered(c) ==
    /\ call[c].pc = "fetching" /\ Valid(call[c].tok)
    /\ \/ End(c)
       \/ /\ call[c].left > 1
          /\ call' = [call EXCEPT ![c] = [Idle EXCEPT !.pc = "ensure", !.left = call[c].left - 1]]
    /\ UNCHANGED <<now, bucket, cache, gen, window>>

MutantRetry(c) ==
    call' = [call EXCEPT ![c] = [@ EXCEPT !.pc = "fetching", !.since = now,
                       !.retried = TRUE, !.struck = FALSE, !.tok = cache.tok]]

(* A 401: the refresh is forced, whatever is cached.                         *)
Retry(c) ==
    call' = [call EXCEPT ![c] = [@ EXCEPT !.pc = "asking", !.since = now,
                       !.retried = TRUE, !.struck = FALSE, !.tok = NoToken]]

Unauthorized(c) ==
    /\ call[c].pc = "fetching" /\ ~Valid(call[c].tok)
    /\ \/ ~call[c].retried /\ Retry(c)
       \/ /\ call[c].retried
          /\ call' = [call EXCEPT ![c] = [Idle EXCEPT !.refused = TRUE, !.struck = call[c].struck]]
    /\ UNCHANGED <<now, bucket, cache, gen, window>>

(* AbortSignal.timeout: CcTimeoutError.                                      *)
TimesOut(c) ==
    /\ InFlight(c) /\ now >= call[c].since + Timeout
    /\ End(c)
    /\ UNCHANGED <<now, bucket, cache, gen, window>>

(* CartonCloud revokes the tokens it has issued.                             *)
Revoke ==
    /\ gen < MaxRevocations
    /\ gen' = gen + 1
    /\ call' = [c \in Calls |-> [call[c] EXCEPT !.struck = @ \/ call[c].retried]]
    /\ UNCHANGED <<now, bucket, cache, window>>

(* Any moment may be the beginning of the window the properties look at;     *)
(* the first is the start of the process.                                    *)
LookFromHere ==
    /\ opened = 0 /\ opened' = now
    /\ admitted' = [b \in Buckets |-> 0]
    /\ UNCHANGED <<now, bucket, cache, gen, call>>

-----------------------------------------------------------------------------
Init ==
    /\ now = 0
    /\ bucket = [b \in Buckets |-> Full(b)]
    /\ cache = [tok |-> NoToken, expires |-> 0]
    /\ gen = 0
    /\ call = [c \in Calls |-> Idle]
    /\ opened = 0 /\ admitted = [b \in Buckets |-> 0]

Start(c) ==
    Begin(c, "seed", 1) \/ Begin(c, "sync", 1) \/ Begin(c, "sync", 3)

Step(c) ==
    \/ UseCached(c) \/ AskToken(c) \/ Issue(c) \/ ReceiveToken(c) \/ TokenRefused(c)
    \/ Answered(c) \/ Unauthorized(c) \/ TimesOut(c)

Next == Tick \/ Revoke \/ LookFromHere \/ \E c \in Calls : Start(c) \/ Step(c)

Spec == Init /\ [][Next]_vars

-----------------------------------------------------------------------------
(* The buckets are never below empty nor above full, and the cache, the      *)
(* calls and the observer have their types.                                  *)
TypeOK ==
    /\ now \in 0..MaxTime
    /\ bucket \in [Buckets -> Nat]
    /\ \A b \in Buckets : bucket[b] <= Full(b)
    /\ cache \in [tok : Tokens, expires : Nat]
    /\ gen \in 0..MaxRevocations
    /\ call \in [Calls -> CallRecords]
    /\ opened \in 0..MaxTime
    /\ admitted \in [Buckets -> Nat]

(* Whatever window is looked at, a bucket admits no more calls in it than it *)
(* held when full and has been refilled with since.                          *)
AdmittedWithinBudget ==
    \A b \in Buckets :
        admitted[b] * Minute <= Full(b) + Capacity[b] * (now - opened)

(* No request carries a token past its life, however slowly the token came   *)
(* and the request is served: the 60 s of skew cover both.                   *)
NeverExpiredInFlight ==
    \A c \in Calls : call[c].pc = "fetching" => now < call[c].tok.at + Life

(* A call fails for want of authorisation only if CartonCloud revoked its    *)
(* tokens again after the call's first 401: one revocation costs a retry and *)
(* never a failure, whichever of the concurrent refreshes the cache ends up  *)
(* with.                                                                     *)
UnauthorizedOnlyIfStruck ==
    \A c \in Calls : call[c].refused => call[c].struck
=============================================================================
