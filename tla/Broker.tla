------------------------------- MODULE Broker -------------------------------
(***************************************************************************)
(* A remote execution: CloudRunExecutor (executors/cloud_run.py), the Cloud *)
(* Run platform in front of the service, and the service itself            *)
(* (cloud/service.py).                                                     *)
(*                                                                         *)
(* The caller makes one call at a time.  Each call computes in a thread of *)
(* its own (asyncio.to_thread), and a cancelled call returns at once while *)
(* its thread lives on: the next call then shares the executor, its token  *)
(* cache and the service with a thread that nobody waits for.              *)
(*                                                                         *)
(* Time passes in units, by Tick, while every thread waits for something.  *)
(* What the code keeps as an absolute time is kept as the time left.       *)
(***************************************************************************)
EXTENDS Integers, Sequences, FiniteSets

CONSTANTS
  NumCalls,      \* calls of execute(), for one candidate each
  Auth,          \* config.auth is not "none"
  Retries,       \* config.throttle_retries
  Budget,        \* limits.timeout_seconds + config.transport_overhead_seconds
  Delay,         \* config.throttle_retry_seconds
  Margin,        \* the 60 seconds a cached token must have left
  Fallback,      \* the 300 seconds given to a token that names no expiry
  Lifetime,      \* the longest life of a token
  OverrunLimit,  \* bound: a request this late has no slow lookup or restart more
  CancelLimit    \* bound: calls cancelled by their caller

ASSUME BrokerAssumption ==
  /\ NumCalls \in Nat /\ Auth \in BOOLEAN
  /\ Retries \in Nat /\ Budget \in Nat \ {0}
  /\ Delay \in Nat /\ \A n \in 0..Retries : Delay * 2^n \in Nat
  /\ Margin \in Nat /\ Fallback \in Nat /\ Lifetime \in Nat /\ Fallback <= Lifetime
  /\ OverrunLimit \in Nat /\ CancelLimit \in Nat

VARIABLES
  pc,           \* where each call's thread is
  outcome,      \* what its caller was told, "pending" until then
  attempt,      \* of the loop over throttled requests
  left,         \* deadline - time.monotonic()
  granted,      \* the timeout the transport was last given
  timer,        \* what is left of the socket's timeout, or of a nap
  overrun,      \* history: time the last request took before that began
  reply,        \* the response that has arrived, "none" without
  token,        \* life left of the token fetched, and the life assumed for it
  cachedLife,   \* life left of _cached_token
  assumedLife,  \* _token_expiry - time.time()
  overlapped,   \* history: two threads were in _identity_token at once
  posted,       \* requests <<call, attempt>> that the platform holds
  slot,         \* those it gave the instance and awaits an answer for
  backlog,      \* requests at the instance, the one served first
  serving,      \* the executor of the service runs for the first
  executions    \* how often the service executed each call's candidate

request == <<granted, overrun>>
thread == <<pc, outcome, attempt, left, timer, request, reply>>
cache == <<token, cachedLife, assumedLife, overlapped>>
service == <<posted, slot, backlog, serving, executions>>
vars == <<thread, cache, service>>

Calls == 1..NumCalls  \* in the order in which the caller makes them
Max0(n) == IF n > 0 THEN n ELSE 0
Lesser(m, n) == IF m < n THEN m ELSE n
Requests == Calls \X (0..Retries)
InToken == {"token", "fetch", "store", "expiry"}
InTransport == {"send", "lookup", "connect", "wait", "sleep"}
NoToken == [life |-> 0, assumed |-> 0]
Failures == {"unavailable", "raised"}
Bodies == {"result", "mismatch", "malformed"}

Init ==
  /\ pc = [c \in Calls |-> "idle"] /\ outcome = [c \in Calls |-> "pending"]
  /\ attempt = [c \in Calls |-> 0] /\ left = [c \in Calls |-> 0]
  /\ granted = [c \in Calls |-> 0] /\ overrun = [c \in Calls |-> 0]
  /\ timer = [c \in Calls |-> 0] /\ reply = [c \in Calls |-> "none"]
  /\ token = [c \in Calls |-> NoToken]
  /\ cachedLife = 0 /\ assumedLife = 0 /\ overlapped = FALSE
  /\ posted = {} /\ slot = {} /\ backlog = <<>> /\ serving = FALSE
  /\ executions = [c \in Calls |-> 0]

-----------------------------------------------------------------------------
(* execute() and _execute_sync(), one call.                                *)

(* The caller makes its next call when it waits for no other. *)
NextCall(c) == pc[c] = "idle" /\ \A d \in 1..(c - 1) : outcome[d] # "pending"

(* The thread is over and its locals are gone; a caller still there is told. *)
End(c, verdict) ==
  /\ pc' = [pc EXCEPT ![c] = "over"]
  /\ outcome' = [outcome EXCEPT ![c] = IF @ = "pending" THEN verdict ELSE @]
  /\ left' = [left EXCEPT ![c] = 0] /\ timer' = [timer EXCEPT ![c] = 0]
  /\ attempt' = [attempt EXCEPT ![c] = 0] /\ reply' = [reply EXCEPT ![c] = "none"]
  /\ granted' = [granted EXCEPT ![c] = 0] /\ overrun' = [overrun EXCEPT ![c] = 0]

(* The candidate's source is invalid: nothing is sent. *)
Refuse(c) ==
  /\ NextCall(c)
  /\ End(c, "invalid")
  /\ UNCHANGED <<cache, service>>

(* The headers are complete: the deadline starts. *)
SetDeadline(c) ==
  /\ pc' = [pc EXCEPT ![c] = "send"]
  /\ left' = [left EXCEPT ![c] = Budget]
  /\ UNCHANGED <<outcome, attempt, timer, request, reply>>

GoTo(c, state) ==
  /\ pc' = [pc EXCEPT ![c] = state]
  /\ UNCHANGED <<outcome, attempt, left, timer, request, reply>>

Begin(c) ==
  /\ NextCall(c)
  /\ IF Auth THEN GoTo(c, "token") ELSE SetDeadline(c)
  /\ overlapped' = (overlapped \/ \E d \in Calls : pc[d] \in InToken)
  /\ UNCHANGED <<token, cachedLife, assumedLife, service>>

(* Mutant: a cached token is used until it expires. *)
UseCachedToTheEnd(c) ==
  /\ pc[c] = "token" /\ assumedLife > 0
  /\ SetDeadline(c)
  /\ UNCHANGED <<cache, service>>

(* An expiry is set only after a token, so a fresh one implies a token. *)
UseCached(c) ==
  /\ pc[c] = "token" /\ assumedLife > Margin
  /\ SetDeadline(c)
  /\ UNCHANGED <<cache, service>>

(* now is read before the provider is called. *)
StartFetch(c) ==
  /\ pc[c] = "token" /\ assumedLife <= Margin
  /\ GoTo(c, "fetch")
  /\ token' = [token EXCEPT ![c] = [life |-> 0, assumed |-> Fallback]]
  /\ UNCHANGED <<cachedLife, assumedLife, overlapped, service>>

(* The provider returns a token that names its expiry, or one that does    *)
(* not, which lives for at least the fallback.                             *)
Fetch(c) ==
  /\ pc[c] = "fetch"
  /\ GoTo(c, "store")
  /\ \/ \E life \in 0..Lifetime :
          token' = [token EXCEPT ![c] = [life |-> life, assumed |-> life]]
     \/ \E life \in Fallback..Lifetime :
          token' = [token EXCEPT ![c] = [life |-> life, assumed |-> @.assumed]]
  /\ UNCHANGED <<cachedLife, assumedLife, overlapped, service>>

(* It raises RuntimeError or returns nothing; subprocess.TimeoutExpired and *)
(* the errors of google.auth are not among those execute() catches.        *)
FetchFails(c) ==
  /\ pc[c] = "fetch"
  /\ \E failure \in Failures : End(c, failure)
  /\ token' = [token EXCEPT ![c] = NoToken]
  /\ UNCHANGED <<cachedLife, assumedLife, overlapped, service>>

StoreToken(c) ==
  /\ pc[c] = "store"
  /\ GoTo(c, "expiry")
  /\ cachedLife' = token[c].life
  /\ UNCHANGED <<token, assumedLife, overlapped, service>>

StoreExpiry(c) ==
  /\ pc[c] = "expiry"
  /\ SetDeadline(c)
  /\ assumedLife' = token[c].assumed
  /\ token' = [token EXCEPT ![c] = NoToken]
  /\ UNCHANGED <<cachedLife, overlapped, service>>

(* The token's payload is no object: AttributeError out of _jwt_expiry, with *)
(* the new token and the old expiry in the cache.                          *)
ExpiryUnreadable(c) ==
  /\ pc[c] = "expiry"
  /\ End(c, "raised")
  /\ token' = [token EXCEPT ![c] = NoToken]
  /\ UNCHANGED <<cachedLife, assumedLife, overlapped, service>>

(* The transport begins with the lookup of the host. *)
Grant(c, timeout) ==
  /\ pc' = [pc EXCEPT ![c] = "lookup"]
  /\ granted' = [granted EXCEPT ![c] = timeout]
  /\ timer' = [timer EXCEPT ![c] = timeout]
  /\ overrun' = [overrun EXCEPT ![c] = 0]
  /\ UNCHANGED <<outcome, attempt, left, reply, cache, service>>

(* Mutant: every request has a timeout of its own. *)
SendAfresh(c) == pc[c] = "send" /\ left[c] > 0 /\ Grant(c, Budget)

Send(c) == pc[c] = "send" /\ left[c] > 0 /\ Grant(c, left[c])

DeadlineExpired(c) ==
  /\ pc[c] = "send" /\ left[c] <= 0
  /\ End(c, "unavailable")
  /\ UNCHANGED <<cache, service>>

(* A body that is no result is unavailable, one for another program a      *)
(* protocol error.                                                         *)
ReceiveBody(c) ==
  /\ pc[c] = "wait"
  /\ \/ reply[c] = "result" /\ End(c, "result")
     \/ reply[c] = "mismatch" /\ End(c, "protocol")
     \/ reply[c] = "malformed" /\ End(c, "unavailable")
  /\ UNCHANGED <<cache, service>>

(* Sleep, then try again, with naps that grow and stop at the deadline. *)
Nap(c, length) ==
  /\ pc' = [pc EXCEPT ![c] = "sleep"]
  /\ timer' = [timer EXCEPT ![c] = length]
  /\ attempt' = [attempt EXCEPT ![c] = @ + 1]
  /\ reply' = [reply EXCEPT ![c] = "none"]
  /\ granted' = [granted EXCEPT ![c] = 0]
  /\ UNCHANGED <<outcome, left, overrun>>

(* Mutant: one retry too many. *)
RetryOnceMore(c) ==
  /\ pc[c] = "wait" /\ reply[c] = "throttled" /\ attempt[c] <= Retries
  /\ Nap(c, Lesser(Delay * 2^attempt[c], Max0(left[c])))
  /\ UNCHANGED <<cache, service>>

(* Mutant: any HTTP error is retried. *)
RetryAnyError(c) ==
  /\ pc[c] = "wait" /\ reply[c] \in {"throttled", "error"} /\ attempt[c] < Retries
  /\ Nap(c, Lesser(Delay * 2^attempt[c], Max0(left[c])))
  /\ UNCHANGED <<cache, service>>

(* HTTP 429 alone is retried. *)
Retry(c) ==
  /\ pc[c] = "wait" /\ reply[c] = "throttled" /\ attempt[c] < Retries
  /\ Nap(c, Lesser(Delay * 2^attempt[c], Max0(left[c])))
  /\ UNCHANGED <<cache, service>>

(* A redirect that is not followed is an error as well. *)
ReceiveError(c) ==
  /\ pc[c] = "wait"
  /\ reply[c] \in {"error", "redirect"} \/ (reply[c] = "throttled" /\ attempt[c] = Retries)
  /\ End(c, "unavailable")
  /\ UNCHANGED <<cache, service>>

Wake(c) ==
  /\ pc[c] = "sleep" /\ timer[c] = 0
  /\ GoTo(c, "send")
  /\ UNCHANGED <<cache, service>>

-----------------------------------------------------------------------------
(* urlopen(timeout=granted), through http.client and socket.               *)

(* The lookup is under no timeout. *)
LookupEnds(c) ==
  /\ pc[c] = "lookup"
  /\ GoTo(c, "connect")
  /\ UNCHANGED <<cache, service>>

(* Every operation on a socket has the whole timeout, not what the ones     *)
(* before it left.                                                         *)
Restart(c) ==
  /\ timer[c] = granted[c] \/ overrun[c] < OverrunLimit
  /\ timer' = [timer EXCEPT ![c] = granted[c]]
  /\ overrun' = [overrun EXCEPT ![c] = @ + (granted[c] - timer[c])]

(* An address of the host fails or times out, and there is another one; or *)
(* the connection is there and the handshake of TLS follows.               *)
NextAddress(c) ==
  /\ pc[c] = "connect" /\ Restart(c)
  /\ UNCHANGED <<pc, outcome, attempt, left, granted, reply, cache, service>>

(* A POST that was redirected is repeated as a GET, which executes nothing. *)
Connected(c) ==
  /\ pc[c] = "connect" /\ Restart(c)
  /\ pc' = [pc EXCEPT ![c] = "wait"]
  /\ posted' = IF reply[c] = "followed" THEN posted ELSE posted \union {<<c, attempt[c]>>}
  /\ UNCHANGED <<outcome, attempt, left, granted, reply>>
  /\ UNCHANGED <<cache, slot, backlog, serving, executions>>

(* An operation on the socket succeeds, but it was not the last. *)
Trickle(c) ==
  /\ pc[c] = "wait" /\ Restart(c)
  /\ UNCHANGED <<pc, outcome, attempt, left, granted, reply, cache, service>>

(* urllib follows a redirect, with a lookup and a connection of its own;   *)
(* bound: one for each request.                                            *)
Redirect(c) ==
  /\ pc[c] = "wait" /\ reply[c] = "redirect" /\ Restart(c)
  /\ pc' = [pc EXCEPT ![c] = "lookup"] /\ reply' = [reply EXCEPT ![c] = "followed"]
  /\ UNCHANGED <<outcome, attempt, left, granted, cache, service>>

(* There is nothing for a GET at that path. *)
RedirectAnswered(c) ==
  /\ pc[c] = "wait" /\ reply[c] = "followed"
  /\ \E response \in {"throttled", "error"} : reply' = [reply EXCEPT ![c] = response]
  /\ UNCHANGED <<pc, outcome, attempt, left, timer, request, cache, service>>

(* No address, or none that can be connected to, is an OSError.  So is a   *)
(* connection that breaks, but for http.client's own exceptions, which     *)
(* execute() does not catch.                                               *)
ConnectionFails(c) ==
  /\ \/ pc[c] \in {"lookup", "connect"} /\ End(c, "unavailable")
     \/ pc[c] = "wait" /\ \E failure \in Failures : End(c, failure)
  /\ UNCHANGED <<cache, service>>

(* Mutant: a timeout is retried under a deadline of its own. *)
TimesOutAfresh(c) ==
  /\ pc[c] \in {"connect", "wait"} /\ timer[c] = 0
  /\ SetDeadline(c)
  /\ UNCHANGED <<cache, service>>

(* One operation on the socket took all of its timeout, a connect to the   *)
(* last address included.                                                  *)
TimesOut(c) ==
  /\ pc[c] \in {"connect", "wait"} /\ timer[c] = 0
  /\ End(c, "unavailable")
  /\ UNCHANGED <<cache, service>>

-----------------------------------------------------------------------------
(* The await on the thread is cancelled: the call ends, the thread does not. *)
Cancel(c) ==
  /\ pc[c] \in InToken \union InTransport /\ outcome[c] = "pending"
  /\ Cardinality({d \in Calls : outcome[d] = "cancelled"}) < CancelLimit
  /\ outcome' = [outcome EXCEPT ![c] = "cancelled"]
  /\ UNCHANGED <<pc, attempt, left, timer, request, reply, cache, service>>

-----------------------------------------------------------------------------
(* The platform: one instance, one request at a time.                      *)

(* A response reaches the client if it still waits for that request. *)
Deliver(q, response) ==
  reply' = IF pc[q[1]] = "wait" /\ attempt[q[1]] = q[2]
           THEN [reply EXCEPT ![q[1]] = response] ELSE reply

Replies == <<pc, outcome, attempt, left, timer, request>>

(* HTTP 429 before dispatch, a redirect (to https, for an http URL),       *)
(* another error, or nothing at all because the client has gone.           *)
PlatformRefuses(q) ==
  /\ q \in posted /\ posted' = posted \ {q}
  /\ \E response \in {"throttled", "redirect", "error", "none"} : Deliver(q, response)
  /\ UNCHANGED <<Replies, cache, slot, backlog, serving, executions>>

Dispatch(q) ==
  /\ q \in posted /\ slot = {}
  /\ posted' = posted \ {q} /\ slot' = {q} /\ backlog' = Append(backlog, q)
  /\ UNCHANGED <<thread, cache, serving, executions>>

(* The platform's own timeout, or the client has gone.  The instance goes  *)
(* on with a request that the platform no longer awaits.                   *)
PlatformGivesUp(q) ==
  /\ q \in slot /\ slot' = {}
  /\ Deliver(q, "error")
  /\ UNCHANGED <<Replies, cache, posted, backlog, serving, executions>>

InstanceDies ==
  /\ backlog # <<>>
  /\ backlog' = <<>> /\ serving' = FALSE /\ slot' = {}
  /\ IF slot = {} THEN UNCHANGED reply ELSE \E q \in slot : Deliver(q, "error")
  /\ UNCHANGED <<Replies, cache, posted, executions>>

-----------------------------------------------------------------------------
(* The service: HTTPServer serves one connection after the other.          *)

(* The response goes to whoever still awaits it; the connection is closed. *)
Respond(q, response) ==
  /\ backlog' = Tail(backlog) /\ serving' = FALSE
  /\ slot' = slot \ {q}
  /\ IF q \in slot THEN Deliver(q, response) ELSE UNCHANGED reply
  /\ UNCHANGED <<Replies, cache, posted, executions>>

(* Too long, no length, or not a valid request. *)
ServiceRejects ==
  /\ backlog # <<>> /\ ~serving
  /\ Respond(Head(backlog), "error")

ServiceExecutes ==
  /\ backlog # <<>> /\ ~serving
  /\ serving' = TRUE
  /\ executions' = [executions EXCEPT ![Head(backlog)[1]] = @ + 1]
  /\ UNCHANGED <<thread, cache, posted, slot, backlog>>

(* 200 with the result, or 500 when the executor raised. *)
ServiceAnswers ==
  /\ backlog # <<>> /\ serving
  /\ \E response \in Bodies \union {"error"} : Respond(Head(backlog), response)

-----------------------------------------------------------------------------
(* Time passes while no thread has anything to do, and no timer is late.   *)

Ready(c) == pc[c] \in {"token", "store", "expiry", "send"}
Counting(c) == pc[c] \in {"connect", "wait", "sleep"}
Passed(c) == IF Counting(c) \/ pc[c] = "lookup" THEN 1 ELSE 0

Tick ==
  /\ \A c \in Calls :
       /\ ~Ready(c) /\ (Counting(c) => timer[c] > 0)
       /\ pc[c] = "lookup" => overrun[c] < OverrunLimit
  /\ timer' = [c \in Calls |-> IF Counting(c) THEN timer[c] - 1 ELSE timer[c]]
  /\ overrun' = [c \in Calls |-> IF pc[c] = "lookup" THEN overrun[c] + 1 ELSE overrun[c]]
  /\ left' = [c \in Calls |-> left[c] - Passed(c)]
  /\ token' = [c \in Calls |-> [life |-> Max0(token[c].life - 1),
                                assumed |-> Max0(token[c].assumed - 1)]]
  /\ cachedLife' = Max0(cachedLife - 1) /\ assumedLife' = Max0(assumedLife - 1)
  /\ UNCHANGED <<pc, outcome, attempt, granted, reply, overlapped, service>>

-----------------------------------------------------------------------------
IdentityToken(c) ==
  \/ UseCached(c) \/ StartFetch(c) \/ Fetch(c) \/ FetchFails(c)
  \/ StoreToken(c) \/ StoreExpiry(c) \/ ExpiryUnreadable(c)

Transport(c) ==
  \/ Send(c) \/ DeadlineExpired(c) \/ ReceiveBody(c) \/ Retry(c)
  \/ ReceiveError(c) \/ Wake(c) \/ LookupEnds(c) \/ Redirect(c) \/ TimesOut(c)

Network(c) ==
  \/ NextAddress(c) \/ Connected(c) \/ Trickle(c) \/ RedirectAnswered(c)
  \/ ConnectionFails(c)

Client(c) ==
  \/ Refuse(c) \/ Begin(c) \/ IdentityToken(c) \/ Transport(c)
  \/ Network(c) \/ Cancel(c)

Platform ==
  \/ \E q \in Requests : PlatformRefuses(q) \/ Dispatch(q) \/ PlatformGivesUp(q)
  \/ InstanceDies

Service == ServiceRejects \/ ServiceExecutes \/ ServiceAnswers

Next == (\E c \in Calls : Client(c)) \/ Platform \/ Service \/ Tick

Spec == Init /\ [][Next]_vars

(* The thread runs, its token provider ends (gcloud is given 30 seconds),  *)
(* so does a lookup (the resolver has timeouts of its own), and time       *)
(* passes.  Nothing is assumed of the platform, the service or the         *)
(* connection, which need neither answer nor break.                        *)
FairSpec ==
  /\ Spec /\ WF_vars(Tick)
  /\ \A c \in Calls : WF_vars(IdentityToken(c) \/ Transport(c))

-----------------------------------------------------------------------------
ThreadOK ==
  /\ pc \in [Calls -> {"idle", "over"} \union InToken \union InTransport]
  /\ outcome \in [Calls -> {"pending", "cancelled", "invalid", "result", "protocol"} \union Failures]
  /\ attempt \in [Calls -> 0..Retries]
  /\ left \in [Calls -> Int] /\ overrun \in [Calls -> Int]
  /\ \A c \in Calls : left[c] <= Budget /\ overrun[c] <= OverrunLimit + Budget
  /\ granted \in [Calls -> 0..Budget] /\ timer \in [Calls -> 0..Budget]
  /\ reply \in [Calls -> Bodies \union {"none", "throttled", "redirect", "followed", "error"}]

CacheOK ==
  /\ token \in [Calls -> [life : 0..Lifetime, assumed : 0..Lifetime]]
  /\ cachedLife \in 0..Lifetime /\ assumedLife \in 0..Lifetime
  /\ overlapped \in BOOLEAN

ServiceOK ==
  /\ posted \subseteq Requests /\ slot \subseteq Requests
  /\ backlog \in Seq(Requests) /\ serving \in BOOLEAN
  /\ executions \in [Calls -> Nat]

TypeOK == ThreadOK /\ CacheOK /\ ServiceOK

(* A call never sends a token taken from the cache that has no more than   *)
(* the margin left, whatever became of the calls before it: the token and  *)
(* its expiry are stored one after the other, and a fetch may fail in      *)
(* between.  Two threads in _identity_token at once, one of a cancelled    *)
(* call, may leave one's token with the other's expiry.                    *)
TokenOutlivesMargin ==
  [][\A c \in Calls : pc[c] = "token" /\ pc'[c] = "send"
       => overlapped \/ cachedLife > Margin]_vars

(* However often it was throttled, a thread is past its deadline by no     *)
(* more than its last request took before its last operation on a socket:  *)
(* for lookups, which are under no timeout, and for connects to other      *)
(* addresses, a redirect and operations that succeeded, each of which      *)
(* leaves the whole timeout to the next.  Naps and timeouts are cut to the *)
(* time left, so that what an earlier request took is not added.           *)
LateByLastRequest ==
  \A c \in Calls : pc[c] \in InTransport => left[c] >= -overrun[c]

(* Every thread ends, also that of a cancelled call, though the platform   *)
(* or the service never answers: as the calls are finitely many, there is  *)
(* a time from which on none runs.                                         *)
EveryCallEnds == <>[](\A c \in Calls : pc[c] \in {"idle", "over"})

(* "Transport, authentication, malformed broker responses, and unavailable *)
(* sandbox launchers become typed executor results" (docs/adr/0004): no    *)
(* call ends in an exception of the provider or the transport.             *)
TypedFailures == \A c \in Calls : outcome[c] # "raised"

(* What the caller can conclude about the execution of its candidate. *)
Verdict(c) ==
  IF outcome[c] = "pending" THEN "open"
  ELSE IF outcome[c] \in {"result", "protocol"} THEN "result"
  ELSE IF outcome[c] = "invalid" THEN "refused"
  ELSE "unknown"

Promise == INSTANCE AtMostOnce WITH verdict <- [c \in Calls |-> Verdict(c)]

(* The client, the platform and the service together keep the promise of   *)
(* AtMostOnce: a candidate runs at most once per call, although throttled  *)
(* requests are sent again and late ones are still executed.               *)
KeepsAtMostOnce == Promise!Spec
=============================================================================
