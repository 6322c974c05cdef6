--------------------------- MODULE CcClientProofs ---------------------------
(* Theorems about CcClient, for any number of callers, any capacities and    *)
(* any times with SkewAssumption.                                            *)
EXTENDS CcClient, TLAPS

-----------------------------------------------------------------------------
(* Types of the constants and of what the actions are built from.            *)

LEMMA Constants ==
    /\ \A b \in Buckets : Capacity[b] \in Nat /\ Full(b) \in Nat
    /\ Minute \in Nat /\ Minute > 0
    /\ Timeout \in Nat /\ Skew \in Nat /\ Life \in Nat /\ MaxTime \in Nat
    /\ MaxRevocations \in Nat
    /\ NoToken \in Tokens
    /\ Idle \in CallRecords
  <1>1. /\ Minute \in Nat /\ Minute > 0
        /\ Timeout \in Nat /\ Skew \in Nat /\ Life \in Nat /\ MaxTime \in Nat
        /\ MaxRevocations \in Nat
    BY TimeAssumption
  <1>2. \A b \in Buckets : Capacity[b] \in Nat /\ Full(b) \in Nat
    BY <1>1, CapacityAssumption DEF Full
  <1>3. NoToken \in Tokens
    BY <1>1 DEF NoToken, Tokens
  <1>4. Idle \in CallRecords
    BY <1>1, <1>3 DEF Idle, CallRecords, Pcs
  <1> QED
    BY <1>1, <1>2, <1>3, <1>4

(* What the forms of a caller's step do to its record.                       *)
LEMMA FetchTypes ==
    ASSUME TypeOK, NEW c \in Calls, NEW t \in Tokens, Fetch(c, t)
    PROVE  call' \in [Calls -> CallRecords]
  <1> DEFINE new == [call[c] EXCEPT !.pc = "fetching", !.tok = t, !.since = now]
  <1>1. call[c] \in CallRecords /\ now \in 0..MaxTime /\ call \in [Calls -> CallRecords]
    BY DEF TypeOK
  <1>2. new \in CallRecords
    BY <1>1 DEF CallRecords, Pcs
  <1>3. call' = [call EXCEPT ![c] = new]
    BY DEF Fetch
  <1> QED
    BY <1>1, <1>2, <1>3

LEMMA AskTypes ==
    ASSUME TypeOK, NEW c \in Calls,
           \/ call' = [call EXCEPT ![c] = [@ EXCEPT !.pc = "asking", !.since = now]]
           \/ Retry(c)
    PROVE  call' \in [Calls -> CallRecords]
  <1> DEFINE first == [call[c] EXCEPT !.pc = "asking", !.since = now]
             again == [call[c] EXCEPT !.pc = "asking", !.since = now,
                         !.retried = TRUE, !.struck = FALSE, !.tok = NoToken]
  <1>1. call[c] \in CallRecords /\ now \in 0..MaxTime /\ call \in [Calls -> CallRecords]
    BY DEF TypeOK
  <1>2. first \in CallRecords
    BY <1>1 DEF CallRecords, Pcs
  <1>3. again \in CallRecords
    BY <1>1, Constants DEF CallRecords, Pcs
  <1>4. call' \in {[call EXCEPT ![c] = first], [call EXCEPT ![c] = again]}
    BY DEF Retry
  <1> QED
    BY <1>1, <1>2, <1>3, <1>4

LEMMA UpdateTypes ==
    ASSUME TypeOK, NEW c \in Calls, NEW rec \in CallRecords, call' = [call EXCEPT ![c] = rec]
    PROVE  call' \in [Calls -> CallRecords]
  BY DEF TypeOK

LEMMA Fields ==
    ASSUME TypeOK, NEW c \in Calls
    PROVE  /\ call[c] \in CallRecords
           /\ call[c].left \in 0..3 /\ call[c].since \in 0..MaxTime /\ call[c].tok \in Tokens
           /\ call[c].retried \in BOOLEAN /\ call[c].struck \in BOOLEAN
  <1>1. call[c] \in CallRecords
    BY DEF TypeOK
  <1> QED
    BY <1>1 DEF CallRecords

-----------------------------------------------------------------------------
LEMMA TypeInit == Init => TypeOK
  BY Constants DEF Init, TypeOK

LEMMA TypeBegin ==
    ASSUME TypeOK, NEW c \in Calls, NEW b \in Buckets, NEW n \in {1, 3}, Begin(c, b, n)
    PROVE  TypeOK'
  <1>1. [Idle EXCEPT !.pc = "ensure", !.left = n] \in CallRecords
    <2>1. n \in 0..3
      OBVIOUS
    <2>2. Idle \in CallRecords
      BY Constants
    <2> QED
      BY <2>1, <2>2 DEF CallRecords, Pcs
  <1>2. call' \in [Calls -> CallRecords]
    BY <1>1, UpdateTypes DEF Begin
  <1>3. bucket' \in [Buckets -> Nat] /\ \A d \in Buckets : bucket'[d] <= Full(d)
    <2>1. bucket[b] \in Nat /\ bucket[b] <= Full(b) /\ Full(b) \in Nat
      BY Constants DEF TypeOK
    <2>2. bucket[b] - Minute \in Nat /\ bucket[b] - Minute <= Full(b)
      BY <2>1, Constants DEF Begin
    <2>3. bucket' = [bucket EXCEPT ![b] = bucket[b] - Minute]
      BY DEF Begin, Take
    <2> QED
      BY <2>2, <2>3 DEF TypeOK
  <1>4. admitted' \in [Buckets -> Nat]
    BY DEF TypeOK, Begin
  <1> QED
    BY <1>2, <1>3, <1>4 DEF TypeOK, Begin

LEMMA TypeStep ==
    ASSUME TypeOK, NEW c \in Calls, Step(c)
    PROVE  TypeOK'
  <1>0. CASE UNCHANGED <<now, bucket, cache, gen, window>> /\ End(c)
    BY <1>0, Constants, UpdateTypes DEF End, TypeOK, window
  <1>1. CASE UseCached(c)
    <2>1. cache.tok \in Tokens
      BY DEF TypeOK
    <2> QED
      BY <1>1, <2>1, FetchTypes DEF UseCached, TypeOK, window
  <1>2. CASE AskToken(c)
    BY <1>2, AskTypes DEF AskToken, TypeOK, window
  <1>3. CASE Issue(c)
    <2>1. [at |-> now, gen |-> gen] \in Tokens
      BY DEF TypeOK, Tokens
    <2>2. [call[c] EXCEPT !.pc = "issued", !.tok = [at |-> now, gen |-> gen]] \in CallRecords
      BY <2>1, Fields DEF CallRecords, Pcs
    <2>3. call' \in [Calls -> CallRecords]
      BY <1>3, <2>2, UpdateTypes DEF Issue
    <2> QED
      BY <1>3, <2>3 DEF Issue, TypeOK, window
  <1>4. CASE ReceiveToken(c)
    <2>1. call[c].tok \in Tokens /\ now + Life \in Nat
      BY Constants, Fields DEF TypeOK
    <2>2. cache' \in [tok : Tokens, expires : Nat]
      BY <1>4, <2>1 DEF ReceiveToken
    <2> QED
      BY <1>4, <2>1, <2>2, FetchTypes DEF ReceiveToken, TypeOK, window
  <1>5. CASE TokenRefused(c)
    BY <1>5, <1>0 DEF TokenRefused
  <1>6. CASE Answered(c)
    <2>1. CASE End(c)
      BY <1>6, <2>1, <1>0 DEF Answered
    <2>2. CASE call[c].left > 1
               /\ call' = [call EXCEPT ![c] = [Idle EXCEPT !.pc = "ensure", !.left = call[c].left - 1]]
      <3>1. call[c].left - 1 \in 0..3
        BY <2>2, Fields
      <3>2. [Idle EXCEPT !.pc = "ensure", !.left = call[c].left - 1] \in CallRecords
        BY <3>1, Constants DEF CallRecords, Pcs
      <3>3. call' \in [Calls -> CallRecords]
        BY <2>2, <3>2, UpdateTypes
      <3> QED
        BY <1>6, <3>3 DEF Answered, TypeOK, window
    <2> QED
      BY <1>6, <2>1, <2>2 DEF Answered
  <1>7. CASE Unauthorized(c)
    <2>1. CASE Retry(c)
      BY <1>7, <2>1, AskTypes DEF Unauthorized, TypeOK, Retry, window
    <2>2. CASE call' = [call EXCEPT ![c] = [Idle EXCEPT !.refused = TRUE, !.struck = call[c].struck]]
      <3>1. [Idle EXCEPT !.refused = TRUE, !.struck = call[c].struck] \in CallRecords
        BY Constants, Fields DEF CallRecords
      <3>2. call' \in [Calls -> CallRecords]
        BY <2>2, <3>1, UpdateTypes
      <3> QED
        BY <1>7, <2>2, <3>2 DEF Unauthorized, TypeOK, window
    <2> QED
      BY <1>7, <2>1, <2>2 DEF Unauthorized
  <1>8. CASE TimesOut(c)
    BY <1>8, <1>0 DEF TimesOut
  <1> QED
    BY <1>1, <1>2, <1>3, <1>4, <1>5, <1>6, <1>7, <1>8 DEF Step

LEMMA TypeNext == TypeOK /\ [Next]_vars => TypeOK'
  <1> SUFFICES ASSUME TypeOK, [Next]_vars PROVE TypeOK'
    OBVIOUS
  <1>1. CASE Tick
    <2>1. bucket' \in [Buckets -> Nat] /\ \A b \in Buckets : bucket'[b] <= Full(b)
      BY <1>1, Constants DEF Tick, TypeOK, Refill
    <2>2. now' \in 0..MaxTime
      BY <1>1, Constants DEF Tick, TypeOK
    <2> QED
      BY <1>1, <2>1, <2>2 DEF Tick, TypeOK, window
  <1>2. CASE Revoke
    <2>1. ASSUME NEW c \in Calls
          PROVE  [call[c] EXCEPT !.struck = @ \/ call[c].retried] \in CallRecords
      <3>1. (call[c].struck \/ call[c].retried) \in BOOLEAN
        OBVIOUS
      <3> QED
        BY <3>1, Fields DEF CallRecords
    <2>2. call' \in [Calls -> CallRecords]
      BY <1>2, <2>1 DEF Revoke
    <2>3. gen' \in 0..MaxRevocations
      BY <1>2, Constants DEF Revoke, TypeOK
    <2> QED
      BY <1>2, <2>2, <2>3 DEF Revoke, TypeOK, window
  <1>3. CASE LookFromHere
    BY <1>3, Constants DEF LookFromHere, TypeOK
  <1>4. ASSUME NEW c \in Calls, Start(c) PROVE TypeOK'
    BY <1>4, TypeBegin DEF Start, Buckets
  <1>5. ASSUME NEW c \in Calls, Step(c) PROVE TypeOK'
    BY <1>5, TypeStep
  <1>6. CASE UNCHANGED vars
    BY <1>6 DEF vars, window, TypeOK
  <1> QED
    BY <1>1, <1>2, <1>3, <1>4, <1>5, <1>6 DEF Next

(* The client's state keeps its types; the buckets stay between empty and    *)
(* full whatever order callers and time come in.                             *)
THEOREM TypeCorrect == Spec => []TypeOK
  BY TypeInit, TypeNext, PTL DEF Spec

-----------------------------------------------------------------------------
(* The budget: what a bucket has admitted since the window was opened, and   *)
(* what it still holds, came from a full bucket and its refills.             *)

Budget ==
    /\ opened <= now
    /\ \A b \in Buckets :
         admitted[b] * Minute + bucket[b] <= Full(b) + Capacity[b] * (now - opened)

LEMMA BudgetTick ==
    ASSUME TypeOK, Budget, Tick
    PROVE  Budget'
  <1>1. now \in Nat /\ opened \in Nat /\ now' = now + 1 /\ UNCHANGED <<opened, admitted>>
    BY Constants DEF Tick, TypeOK, window
  <1>2. ASSUME NEW b \in Buckets
        PROVE  admitted[b] * Minute + bucket'[b] <= Full(b) + Capacity[b] * (now' - opened)
    <2>1. bucket'[b] <= bucket[b] + Capacity[b] /\ bucket'[b] \in Nat
      BY Constants DEF Tick, Refill, TypeOK
    <2>2. bucket[b] \in Nat /\ admitted[b] \in Nat /\ Capacity[b] \in Nat /\ Full(b) \in Nat
      BY Constants DEF TypeOK
    <2>3. Capacity[b] * (now' - opened) = Capacity[b] * (now - opened) + Capacity[b]
      BY <1>1, <2>2
    <2>4. admitted[b] * Minute + bucket[b] <= Full(b) + Capacity[b] * (now - opened)
      BY DEF Budget
    <2>5. admitted[b] * Minute \in Int /\ Capacity[b] * (now - opened) \in Int
      BY <1>1, <2>2, Constants
    <2> QED
      BY <2>1, <2>2, <2>3, <2>4, <2>5
  <1> QED
    BY <1>1, <1>2 DEF Budget, Full

LEMMA BudgetBegin ==
    ASSUME TypeOK, Budget, NEW c \in Calls, NEW b \in Buckets, NEW n \in {1, 3}, Begin(c, b, n)
    PROVE  Budget'
  <1>1. UNCHANGED <<now, opened>>
    BY DEF Begin
  <1>2. ASSUME NEW d \in Buckets
        PROVE  admitted'[d] * Minute + bucket'[d] = admitted[d] * Minute + bucket[d]
    <2>1. bucket[d] \in Nat /\ admitted[d] \in Nat /\ Minute \in Nat
      BY Constants DEF TypeOK
    <2>2. CASE d = b
      <3>1. admitted'[d] = admitted[d] + 1 /\ bucket'[d] = bucket[d] - Minute
        BY <2>2 DEF Begin, Take, TypeOK
      <3>2. (admitted[d] + 1) * Minute = admitted[d] * Minute + Minute
        BY <2>1
      <3> QED
        BY <2>1, <3>1, <3>2
    <2>3. CASE d # b
      BY <2>3 DEF Begin, Take, TypeOK
    <2> QED
      BY <2>2, <2>3
  <1> QED
    BY <1>1, <1>2 DEF Budget, Full

LEMMA BudgetLook ==
    ASSUME TypeOK, LookFromHere
    PROVE  Budget'
  <1>1. opened' = now /\ now' = now /\ bucket' = bucket /\ now \in Int
    BY DEF LookFromHere, TypeOK
  <1>2. ASSUME NEW b \in Buckets
        PROVE  admitted'[b] * Minute + bucket'[b] <= Full(b) + Capacity[b] * (now' - opened')
    <2>1. admitted'[b] = 0 /\ bucket[b] \in Nat /\ bucket[b] <= Full(b)
      BY DEF LookFromHere, TypeOK
    <2>2. 0 * Minute = 0 /\ Capacity[b] * 0 = 0 /\ now - now = 0 /\ Full(b) \in Nat
      BY <1>1, Constants
    <2> QED
      BY <1>1, <2>1, <2>2
  <1> QED
    BY <1>1, <1>2 DEF Budget, Full

LEMMA BudgetNext == TypeOK /\ Budget /\ [Next]_vars => Budget'
  <1> SUFFICES ASSUME TypeOK, Budget, [Next]_vars PROVE Budget'
    OBVIOUS
  <1>1. CASE UNCHANGED <<now, bucket, opened, admitted>>
    BY <1>1 DEF Budget, Full
  <1>2. ASSUME NEW c \in Calls, Step(c)
        PROVE  UNCHANGED <<now, bucket, opened, admitted>>
    BY <1>2 DEF Step, UseCached, AskToken, Issue, ReceiveToken, TokenRefused, Answered,
                Unauthorized, TimesOut, window
  <1>3. ASSUME NEW c \in Calls, Start(c)
        PROVE  Budget'
    BY <1>3, BudgetBegin DEF Start, Buckets
  <1> QED
    BY <1>1, <1>2, <1>3, BudgetTick, BudgetLook DEF Next, Revoke, vars, window

LEMMA BudgetSuffices == TypeOK /\ Budget => AdmittedWithinBudget
  <1> SUFFICES ASSUME TypeOK, Budget, NEW b \in Buckets
               PROVE  admitted[b] * Minute <= Full(b) + Capacity[b] * (now - opened)
    BY DEF AdmittedWithinBudget
  <1>1. /\ bucket[b] \in Nat /\ admitted[b] * Minute \in Int
        /\ Full(b) + Capacity[b] * (now - opened) \in Int
    BY Constants DEF TypeOK
  <1>2. admitted[b] * Minute + bucket[b] <= Full(b) + Capacity[b] * (now - opened)
    BY DEF Budget
  <1> QED
    BY <1>1, <1>2

LEMMA BudgetInit == Init => Budget
  <1> SUFFICES ASSUME Init PROVE Budget
    OBVIOUS
  <1>1. now = 0 /\ opened = 0 /\ \A b \in Buckets : admitted[b] = 0 /\ bucket[b] = Full(b)
    BY DEF Init
  <1>2. \A b \in Buckets : 0 * Minute = 0 /\ Capacity[b] * (0 - 0) = 0 /\ Full(b) \in Nat
    BY Constants
  <1> QED
    BY <1>1, <1>2 DEF Budget

(* In no window does a bucket admit more calls than a full one and what has  *)
(* been refilled since allow.                                                *)
THEOREM BudgetKept == Spec => []AdmittedWithinBudget
  BY TypeInit, TypeNext, BudgetInit, BudgetNext, BudgetSuffices, PTL DEF Spec

-----------------------------------------------------------------------------
(* Ages: a request is over when its timeout is, a token was issued while it  *)
(* was being asked for, and so what the client believes of the cached        *)
(* token's expiry is late by no more than that request took.                 *)

Aged(c) ==
    /\ InFlight(c) => call[c].since <= now /\ now <= call[c].since + Timeout
    /\ call[c].pc = "issued" => call[c].since <= call[c].tok.at
    /\ call[c].pc = "fetching" => call[c].since + Timeout < call[c].tok.at + Life

Ages ==
    /\ cache.expires <= cache.tok.at + Life + Timeout
    /\ \A c \in Calls : Aged(c)

LEMMA Numbers ==
    ASSUME TypeOK, NEW c \in Calls
    PROVE  /\ now \in Nat /\ call[c].since \in Nat /\ call[c].tok.at \in Nat
           /\ cache.tok.at \in Nat /\ cache.expires \in Nat /\ cache.tok \in Tokens
           /\ Timeout \in Nat /\ Life \in Nat /\ Skew \in Nat
           /\ 2 * Timeout <= Skew /\ Skew < Life
  <1>1. cache.tok \in Tokens /\ cache.expires \in Nat /\ now \in Nat
    BY Constants DEF TypeOK
  <1>2. call[c].tok \in Tokens /\ call[c].since \in Nat
    BY Fields, Constants
  <1> QED
    BY <1>1, <1>2, Constants, SkewAssumption DEF Tokens

(* A step of one caller leaves the others as they are.                       *)
LEMMA OthersAged ==
    ASSUME TypeOK, Ages, UNCHANGED now, NEW c \in Calls, NEW rec,
           call' = [call EXCEPT ![c] = rec],
           cache'.expires <= cache'.tok.at + Life + Timeout,
           Aged(c)'
    PROVE  Ages'
  <1>1. ASSUME NEW d \in Calls PROVE Aged(d)'
    <2>1. CASE d = c
      BY <2>1
    <2>2. CASE d # c
      <3>1. call'[d] = call[d]
        BY <2>2 DEF TypeOK
      <3> QED
        BY <3>1 DEF Ages, Aged, InFlight
    <2> QED
      BY <2>1, <2>2
  <1> QED
    BY <1>1 DEF Ages, Aged, InFlight

LEMMA QuietAged ==
    ASSUME TypeOK, Ages, UNCHANGED <<now, cache>>, NEW c \in Calls, NEW rec \in CallRecords,
           rec.pc \in {"idle", "ensure"}, call' = [call EXCEPT ![c] = rec]
    PROVE  Ages'
  <1>1. call'[c] = rec
    BY DEF TypeOK
  <1>2. Aged(c)'
    BY <1>1 DEF Aged, InFlight
  <1> QED
    BY <1>2, OthersAged DEF Ages, Aged

LEMMA AskAged ==
    ASSUME TypeOK, Ages, UNCHANGED <<now, cache>>, NEW c \in Calls, NEW rec,
           rec.pc = "asking", rec.since = now, call' = [call EXCEPT ![c] = rec]
    PROVE  Ages'
  <1>1. call'[c] = rec
    BY DEF TypeOK
  <1>2. Aged(c)'
    BY <1>1, Numbers DEF Aged, InFlight
  <1> QED
    BY <1>2, OthersAged DEF Ages, Aged

LEMMA FetchAged ==
    ASSUME TypeOK, Ages, UNCHANGED now, NEW c \in Calls, NEW t, Fetch(c, t),
           t.at \in Nat, now + Timeout < t.at + Life,
           cache'.expires <= cache'.tok.at + Life + Timeout
    PROVE  Ages'
  <1> DEFINE rec == [call[c] EXCEPT !.pc = "fetching", !.tok = t, !.since = now]
  <1>1. call' = [call EXCEPT ![c] = rec] /\ call'[c] = rec
    BY DEF TypeOK, Fetch
  <1>2. rec.pc = "fetching" /\ rec.tok = t /\ rec.since = now
    BY Fields DEF CallRecords
  <1>3. Aged(c)'
    <2> HIDE DEF rec
    <2> QED
      BY <1>1, <1>2, Numbers DEF Aged, InFlight
  <1> QED
    BY <1>1, <1>3, OthersAged

LEMMA AgesStep ==
    ASSUME TypeOK, Ages, NEW c \in Calls, Step(c)
    PROVE  Ages'
  <1>0. CASE End(c) /\ UNCHANGED <<now, cache>>
    BY <1>0, Constants, QuietAged DEF End, Idle
  <1>1. CASE UseCached(c)
    <2>1. now < cache.expires - Skew /\ cache.expires <= cache.tok.at + Life + Timeout
      BY <1>1 DEF UseCached, Fresh, Ages, Aged
    <2>2. now + Timeout < cache.tok.at + Life
      BY <2>1, Numbers
    <2> QED
      BY <1>1, <2>2, Numbers, FetchAged DEF UseCached, Ages, Aged
  <1>2. CASE AskToken(c)
    <2> DEFINE rec == [call[c] EXCEPT !.pc = "asking", !.since = now]
    <2>1. rec.pc = "asking" /\ rec.since = now
      BY Fields DEF CallRecords
    <2> QED
      BY <1>2, <2>1, AskAged DEF AskToken
  <1>3. CASE Issue(c)
    <2> DEFINE rec == [call[c] EXCEPT !.pc = "issued", !.tok = [at |-> now, gen |-> gen]]
    <2>1. rec.pc = "issued" /\ rec.tok.at = now /\ rec.since = call[c].since
      BY Fields DEF CallRecords
    <2>2. call' = [call EXCEPT ![c] = rec] /\ call'[c] = rec /\ UNCHANGED <<now, cache>>
      BY <1>3 DEF Issue, TypeOK
    <2>3. call[c].since <= now /\ now <= call[c].since + Timeout
      BY <1>3 DEF Issue, Ages, Aged, InFlight
    <2>4. Aged(c)'
      <3> HIDE DEF rec
      <3> QED
        BY <2>1, <2>2, <2>3 DEF Aged, InFlight
    <2> QED
      BY <2>2, <2>4, OthersAged DEF Ages, Aged
  <1>4. CASE ReceiveToken(c)
    <2>1. call[c].since <= call[c].tok.at /\ now <= call[c].since + Timeout
      BY <1>4 DEF ReceiveToken, Ages, Aged, InFlight
    <2>2. now + Timeout < call[c].tok.at + Life /\ now + Life <= call[c].tok.at + Life + Timeout
      BY <2>1, Numbers
    <2>3. cache'.expires <= cache'.tok.at + Life + Timeout
      BY <1>4, <2>2 DEF ReceiveToken
    <2> QED
      BY <1>4, <2>2, <2>3, Numbers, FetchAged DEF ReceiveToken
  <1>5. CASE TokenRefused(c)
    BY <1>5, <1>0 DEF TokenRefused
  <1>6. CASE Answered(c)
    <2>1. CASE End(c)
      BY <1>6, <2>1, <1>0 DEF Answered
    <2>2. CASE call[c].left > 1
               /\ call' = [call EXCEPT ![c] = [Idle EXCEPT !.pc = "ensure", !.left = call[c].left - 1]]
      <3> DEFINE rec == [Idle EXCEPT !.pc = "ensure", !.left = call[c].left - 1]
      <3>1. call[c].left - 1 \in 0..3
        BY <2>2, Fields
      <3>2. rec \in CallRecords /\ rec.pc = "ensure"
        BY <3>1, Constants DEF CallRecords, Pcs
      <3> QED
        BY <1>6, <2>2, <3>2, QuietAged DEF Answered
    <2> QED
      BY <1>6, <2>1, <2>2 DEF Answered
  <1>7. CASE Unauthorized(c)
    <2>1. CASE Retry(c)
      <3> DEFINE rec == [call[c] EXCEPT !.pc = "asking", !.since = now,
                           !.retried = TRUE, !.struck = FALSE, !.tok = NoToken]
      <3>1. rec.pc = "asking" /\ rec.since = now
        BY Fields DEF CallRecords
      <3> QED
        BY <1>7, <2>1, <3>1, AskAged DEF Unauthorized, Retry
    <2>2. CASE call' = [call EXCEPT ![c] = [Idle EXCEPT !.refused = TRUE, !.struck = call[c].struck]]
      <3> DEFINE rec == [Idle EXCEPT !.refused = TRUE, !.struck = call[c].struck]
      <3>1. rec \in CallRecords /\ rec.pc = "idle"
        BY Constants, Fields DEF CallRecords, Idle
      <3> QED
        BY <1>7, <2>2, <3>1, QuietAged DEF Unauthorized
    <2> QED
      BY <1>7, <2>1, <2>2 DEF Unauthorized
  <1>8. CASE TimesOut(c)
    BY <1>8, <1>0 DEF TimesOut
  <1> QED
    BY <1>1, <1>2, <1>3, <1>4, <1>5, <1>6, <1>7, <1>8 DEF Step

LEMMA AgesNext == TypeOK /\ Ages /\ [Next]_vars => Ages'
  <1> SUFFICES ASSUME TypeOK, Ages, [Next]_vars PROVE Ages'
    OBVIOUS
  <1>1. CASE Tick
    <2>1. ASSUME NEW c \in Calls PROVE Aged(c)'
      <3>1. now' = now + 1 /\ call' = call /\ (InFlight(c) => now < call[c].since + Timeout)
        BY <1>1 DEF Tick
      <3> QED
        BY <3>1, Numbers DEF Aged, Ages, InFlight
    <2> QED
      BY <1>1, <2>1 DEF Tick, Ages, Aged, InFlight
  <1>2. CASE Revoke
    <2>1. ASSUME NEW c \in Calls
          PROVE  /\ call'[c].pc = call[c].pc /\ call'[c].tok = call[c].tok
                 /\ call'[c].since = call[c].since
      BY <1>2, Fields DEF Revoke, CallRecords
    <2> QED
      BY <1>2, <2>1 DEF Revoke, Ages, Aged, InFlight
  <1>3. CASE UNCHANGED <<now, cache, call>>
    BY <1>3 DEF Ages, Aged, InFlight
  <1>4. ASSUME NEW c \in Calls, Start(c) PROVE Ages'
    <2>1. PICK b \in Buckets, n \in {1, 3} : Begin(c, b, n)
      BY <1>4 DEF Start, Buckets
    <2> DEFINE rec == [Idle EXCEPT !.pc = "ensure", !.left = n]
    <2>2. n \in 0..3
      OBVIOUS
    <2>3. rec \in CallRecords /\ rec.pc = "ensure"
      BY <2>2, Constants DEF CallRecords, Pcs
    <2> QED
      BY <2>1, <2>3, QuietAged DEF Begin
  <1> QED
    BY <1>1, <1>2, <1>3, <1>4, AgesStep DEF Next, LookFromHere, vars

LEMMA AgesInit == Init => Ages
  BY Constants DEF Init, Ages, Aged, InFlight, Idle, NoToken

LEMMA AgesSuffice == TypeOK /\ Ages => NeverExpiredInFlight
  <1> SUFFICES ASSUME TypeOK, Ages, NEW c \in Calls, call[c].pc = "fetching"
               PROVE  now < call[c].tok.at + Life
    BY DEF NeverExpiredInFlight
  <1> QED
    BY Numbers DEF Ages, Aged, InFlight

(* No request carries a token past its life.                                 *)
THEOREM TokensOutliveRequests == Spec => []NeverExpiredInFlight
  BY TypeInit, TypeNext, AgesInit, AgesNext, AgesSuffice, PTL DEF Spec

-----------------------------------------------------------------------------
(* Earned: what a retry gets is a token issued after the last revocation,    *)
(* unless tokens are revoked again, and then the observer has seen it.       *)

Earned(c) ==
    /\ call[c].retried => InFlight(c)
    /\ call[c].retried /\ ~call[c].struck /\ call[c].pc \in {"issued", "fetching"}
         => call[c].tok.gen = gen
    /\ call[c].refused => call[c].pc = "idle" /\ call[c].struck

LEMMA OthersEarned ==
    ASSUME TypeOK, \A d \in Calls : Earned(d), UNCHANGED gen, NEW c \in Calls, NEW rec,
           call' = [call EXCEPT ![c] = rec],
           Earned(c)'
    PROVE  \A d \in Calls : Earned(d)'
  <1> SUFFICES ASSUME NEW d \in Calls PROVE Earned(d)'
    OBVIOUS
  <1>1. CASE d = c
    BY <1>1
  <1>2. CASE d # c
    <2>1. call'[d] = call[d]
      BY <1>2 DEF TypeOK
    <2> QED
      BY <2>1 DEF Earned, InFlight
  <1> QED
    BY <1>1, <1>2

(* A record of no retry has nothing to earn, one that is refused has.        *)
LEMMA FirstEarned ==
    ASSUME TypeOK, \A d \in Calls : Earned(d), UNCHANGED gen, NEW c \in Calls,
           NEW rec, ~rec.retried, rec.refused => rec.pc = "idle" /\ rec.struck,
           call' = [call EXCEPT ![c] = rec]
    PROVE  \A d \in Calls : Earned(d)'
  <1>1. call'[c] = rec
    BY DEF TypeOK
  <1>2. Earned(c)'
    BY <1>1 DEF Earned
  <1> QED
    BY <1>2, OthersEarned

LEMMA EarnedStep ==
    ASSUME TypeOK, NeverExpiredInFlight, \A d \in Calls : Earned(d), NEW c \in Calls, Step(c)
    PROVE  \A d \in Calls : Earned(d)'
  <1>0. CASE End(c) /\ UNCHANGED gen
    <2>1. ~Idle.retried /\ ~Idle.refused
      BY DEF Idle
    <2> QED
      BY <1>0, <2>1, FirstEarned DEF End
  <1>1. CASE UseCached(c)
    <2> DEFINE rec == [call[c] EXCEPT !.pc = "fetching", !.tok = cache.tok, !.since = now]
    <2>1. ~rec.retried /\ ~rec.refused
      BY <1>1, Fields DEF CallRecords, UseCached, Earned, InFlight
    <2> QED
      BY <1>1, <2>1, FirstEarned DEF UseCached, Fetch
  <1>2. CASE AskToken(c)
    <2> DEFINE rec == [call[c] EXCEPT !.pc = "asking", !.since = now]
    <2>1. ~rec.retried /\ ~rec.refused
      BY <1>2, Fields DEF CallRecords, AskToken, Earned, InFlight
    <2> QED
      BY <1>2, <2>1, FirstEarned DEF AskToken
  <1>3. CASE Issue(c)
    <2> DEFINE rec == [call[c] EXCEPT !.pc = "issued", !.tok = [at |-> now, gen |-> gen]]
    <2>1. /\ rec.pc = "issued" /\ rec.tok.gen = gen /\ rec.retried = call[c].retried
          /\ rec.refused = call[c].refused /\ rec.struck = call[c].struck
      BY Fields DEF CallRecords
    <2>2. call' = [call EXCEPT ![c] = rec] /\ call'[c] = rec /\ UNCHANGED gen
      BY <1>3 DEF Issue, TypeOK
    <2>3. Earned(c)'
      <3> HIDE DEF rec
      <3> QED
        BY <1>3, <2>1, <2>2 DEF Issue, Earned, InFlight
    <2> QED
      BY <2>2, <2>3, OthersEarned
  <1>4. CASE ReceiveToken(c)
    <2> DEFINE rec == [call[c] EXCEPT !.pc = "fetching", !.tok = call[c].tok, !.since = now]
    <2>1. /\ rec.pc = "fetching" /\ rec.tok = call[c].tok /\ rec.retried = call[c].retried
          /\ rec.refused = call[c].refused /\ rec.struck = call[c].struck
      BY Fields DEF CallRecords
    <2>2. call' = [call EXCEPT ![c] = rec] /\ call'[c] = rec /\ UNCHANGED gen
      BY <1>4 DEF ReceiveToken, Fetch, TypeOK
    <2>3. Earned(c)'
      <3> HIDE DEF rec
      <3> QED
        BY <1>4, <2>1, <2>2 DEF ReceiveToken, Earned, InFlight
    <2> QED
      BY <2>2, <2>3, OthersEarned
  <1>5. CASE TokenRefused(c)
    BY <1>5, <1>0 DEF TokenRefused
  <1>6. CASE Answered(c)
    <2>1. CASE End(c)
      BY <1>6, <2>1, <1>0 DEF Answered
    <2>2. CASE call' = [call EXCEPT ![c] = [Idle EXCEPT !.pc = "ensure", !.left = call[c].left - 1]]
      <3> DEFINE rec == [Idle EXCEPT !.pc = "ensure", !.left = call[c].left - 1]
      <3>1. ~rec.retried /\ ~rec.refused
        BY DEF Idle
      <3> QED
        BY <1>6, <2>2, <3>1, FirstEarned DEF Answered
    <2> QED
      BY <1>6, <2>1, <2>2 DEF Answered
  <1>7. CASE Unauthorized(c)
    <2>1. CASE Retry(c)
      <3> DEFINE rec == [call[c] EXCEPT !.pc = "asking", !.since = now,
                           !.retried = TRUE, !.struck = FALSE, !.tok = NoToken]
      <3>1. rec.pc = "asking" /\ rec.refused = call[c].refused
        BY Fields DEF CallRecords
      <3>2. call' = [call EXCEPT ![c] = rec] /\ call'[c] = rec /\ UNCHANGED gen
        BY <1>7, <2>1 DEF Unauthorized, Retry, TypeOK
      <3>3. ~call[c].refused
        BY <1>7 DEF Unauthorized, Earned
      <3>4. Earned(c)'
        <4> HIDE DEF rec
        <4> QED
          BY <3>1, <3>2, <3>3 DEF Earned, InFlight
      <3> QED
        BY <3>2, <3>4, OthersEarned
    <2>2. CASE call[c].retried
               /\ call' = [call EXCEPT ![c] = [Idle EXCEPT !.refused = TRUE, !.struck = call[c].struck]]
      <3>1. now < call[c].tok.at + Life /\ call[c].tok.gen # gen
        BY <1>7 DEF Unauthorized, Valid, NeverExpiredInFlight
      <3>2. call[c].struck
        BY <1>7, <2>2, <3>1 DEF Unauthorized, Earned
      <3> DEFINE rec == [Idle EXCEPT !.refused = TRUE, !.struck = call[c].struck]
      <3>3. ~rec.retried /\ rec.pc = "idle" /\ rec.struck
        BY <3>2 DEF Idle
      <3> QED
        BY <1>7, <2>2, <3>3, FirstEarned DEF Unauthorized
    <2> QED
      BY <1>7, <2>1, <2>2 DEF Unauthorized
  <1>8. CASE TimesOut(c)
    BY <1>8, <1>0 DEF TimesOut
  <1> QED
    BY <1>1, <1>2, <1>3, <1>4, <1>5, <1>6, <1>7, <1>8 DEF Step

LEMMA EarnedNext ==
    ASSUME TypeOK, NeverExpiredInFlight, \A c \in Calls : Earned(c), [Next]_vars
    PROVE  \A c \in Calls : Earned(c)'
  <1>1. CASE UNCHANGED <<gen, call>>
    BY <1>1 DEF Earned, InFlight
  <1>2. CASE Revoke
    <2>1. ASSUME NEW c \in Calls PROVE Earned(c)'
      <3> DEFINE rec == [call[c] EXCEPT !.struck = @ \/ call[c].retried]
      <3>1. call'[c] = rec
        BY <1>2 DEF Revoke
      <3>2. /\ rec.pc = call[c].pc /\ rec.retried = call[c].retried
            /\ rec.refused = call[c].refused /\ rec.struck = (call[c].struck \/ call[c].retried)
        BY Fields DEF CallRecords
      <3>3. /\ rec.retried => rec.pc \in {"asking", "issued", "fetching"} /\ rec.struck
            /\ rec.refused => rec.pc = "idle" /\ rec.struck
        BY <3>2 DEF Earned, InFlight
      <3> HIDE DEF rec
      <3> QED
        BY <3>1, <3>3 DEF Earned, InFlight
    <2> QED
      BY <2>1
  <1>3. ASSUME NEW c \in Calls, Start(c) PROVE \A d \in Calls : Earned(d)'
    <2>1. PICK b \in Buckets, n \in {1, 3} : Begin(c, b, n)
      BY <1>3 DEF Start, Buckets
    <2> DEFINE rec == [Idle EXCEPT !.pc = "ensure", !.left = n]
    <2>2. ~rec.retried /\ ~rec.refused
      BY DEF Idle
    <2> QED
      BY <2>1, <2>2, FirstEarned DEF Begin
  <1> QED
    BY <1>1, <1>2, <1>3, EarnedStep DEF Next, Tick, LookFromHere, vars

LEMMA EarnedInit == Init => \A c \in Calls : Earned(c)
  <1> SUFFICES ASSUME Init, NEW c \in Calls PROVE Earned(c)
    OBVIOUS
  <1>1. call[c] = Idle /\ ~Idle.retried /\ ~Idle.refused
    BY DEF Init, Idle
  <1> QED
    BY <1>1 DEF Earned

LEMMA EarnedSuffices == (\A c \in Calls : Earned(c)) => UnauthorizedOnlyIfStruck
  BY DEF Earned, UnauthorizedOnlyIfStruck

(* A call fails with a 401 only if tokens were revoked after its first one.  *)
THEOREM OneRevocationOneRetry == Spec => []UnauthorizedOnlyIfStruck
  <1> DEFINE AllEarned == \A c \in Calls : Earned(c)
  <1>1. Init => TypeOK /\ Ages /\ AllEarned
    BY TypeInit, AgesInit, EarnedInit
  <1>2. TypeOK /\ Ages /\ AllEarned /\ [Next]_vars => (TypeOK /\ Ages /\ AllEarned)'
    BY TypeNext, AgesNext, AgesSuffice, EarnedNext
  <1>3. AllEarned => UnauthorizedOnlyIfStruck
    BY EarnedSuffices
  <1> QED
    BY <1>1, <1>2, <1>3, PTL DEF Spec
=============================================================================
