---------------------------- MODULE BrokerProofs ----------------------------
(***************************************************************************)
(* Theorems about Broker, for any number of calls and any bounds: types,   *)
(* that the client, the platform and the service together keep the promise *)
(* of AtMostOnce, that the token cache is safe, and by how much a thread   *)
(* may be past its deadline.                                               *)
(***************************************************************************)
EXTENDS Broker, TLAPS

(* Nothing of the call is at the platform or the service, or ever was      *)
(* executed.                                                               *)
Quiet(c) ==
  /\ executions[c] = 0
  /\ \A q \in posted : q[1] # c
  /\ \A i \in 1..Len(backlog) : backlog[i][1] # c

(* Where a thread has not posted the request of this attempt, and the      *)
(* responses that say that it was not executed.                            *)
Sending == {"idle", "send", "lookup", "connect", "sleep"} \union InToken
Unexecuted == {"throttled", "redirect", "followed"}

(* A thread that may still send a request has none underway. *)
QuietWhileSending ==
  \A c \in Calls :
    /\ pc[c] \in Sending => Quiet(c)
    /\ pc[c] = "wait" /\ reply[c] \in Unexecuted => Quiet(c)
    /\ outcome[c] = "invalid" => Quiet(c) /\ pc[c] = "over"

(* A response is for a thread that waits, or follows the redirect, and a   *)
(* body says that the candidate was executed.                              *)
RepliesAreTrue ==
  \A c \in Calls :
    /\ reply[c] # "none" => pc[c] = "wait" \/ reply[c] = "followed"
    /\ reply[c] = "followed" => pc[c] \in {"lookup", "connect", "wait"}
    /\ reply[c] \in Bodies => executions[c] = 1
    /\ pc[c] = "idle" => outcome[c] = "pending"

(* A call has at most one request, at the platform or at the service. *)
OneRequest ==
  /\ \A p, q \in posted : p[1] = q[1] => p = q
  /\ \A i, j \in 1..Len(backlog) : backlog[i][1] = backlog[j][1] => i = j
  /\ \A q \in posted : \A i \in 1..Len(backlog) : backlog[i][1] # q[1]

(* A candidate was executed once its request is being served, not before. *)
ExecutedWhenServed ==
  /\ \A c \in Calls : executions[c] \in {0, 1}
  /\ \A q \in posted : executions[q[1]] = 0
  /\ \A i \in 1..Len(backlog) :
       executions[backlog[i][1]] = IF i = 1 /\ serving THEN 1 ELSE 0
  /\ serving => backlog # <<>>
  /\ \A q \in slot : \E i \in 1..Len(backlog) : backlog[i] = q

Underway == TypeOK /\ QuietWhileSending /\ RepliesAreTrue /\ OneRequest /\ ExecutedWhenServed

(* While one thread at a time is in _identity_token, the cache never gives *)
(* a token more life than it has, but while the pair is being replaced,    *)
(* when it gives none that can be used.                                    *)
CacheIsSafe ==
  ~overlapped =>
    /\ \A c, d \in Calls : pc[c] \in InToken /\ pc[d] \in InToken => c = d
    /\ assumedLife > Margin => cachedLife >= assumedLife
    /\ \A c \in Calls :
         /\ pc[c] \in {"fetch", "store", "expiry"} => assumedLife <= Margin
         /\ pc[c] = "fetch" => token[c].assumed <= Fallback
         /\ pc[c] \in {"store", "expiry"} => token[c].assumed <= token[c].life
         /\ pc[c] = "expiry" => cachedLife = token[c].life

(* A timer runs past the deadline by no more than what the request took    *)
(* before it, and a nap not at all.                                        *)
TimersMeetDeadline ==
  \A c \in Calls :
    /\ overrun[c] >= 0
    /\ pc[c] \in InTransport => left[c] >= -overrun[c]
    /\ pc[c] \in {"lookup", "connect", "wait"} =>
         timer[c] <= left[c] + overrun[c] /\ timer[c] <= granted[c]
    /\ pc[c] = "sleep" => timer[c] <= Max0(left[c])

-----------------------------------------------------------------------------
(* Type correctness.                                                       *)

Outcomes == {"pending", "cancelled", "invalid", "result", "protocol"} \union Failures

(* The bounds are numbers. *)
LEMMA Bounds ==
  /\ NumCalls \in Nat /\ Retries \in Nat /\ Budget \in Nat /\ Budget > 0
  /\ Margin \in Nat /\ Fallback \in Nat /\ Lifetime \in Nat /\ Fallback <= Lifetime
  /\ OverrunLimit \in Nat
  BY BrokerAssumption

(* What a thread does without a new deadline, timer or attempt. *)
LEMMA GoToTyped ==
  ASSUME ThreadOK, NEW c \in Calls,
         NEW state \in {"idle", "over"} \union InToken \union InTransport, GoTo(c, state)
  PROVE  ThreadOK'
  BY DEF GoTo, request, ThreadOK

(* The deadline is the whole budget away. *)
LEMMA DeadlineTyped ==
  ASSUME ThreadOK, NEW c \in Calls, SetDeadline(c)
  PROVE  ThreadOK'
  BY Bounds DEF SetDeadline, request, ThreadOK, InTransport

(* The end of a thread. *)
LEMMA EndTyped ==
  ASSUME ThreadOK, NEW c \in Calls, NEW verdict \in Outcomes, End(c, verdict)
  PROVE  ThreadOK'
  BY Bounds DEF End, ThreadOK, Outcomes

(* A nap ends by the deadline. *)
LEMMA RetryTyped ==
  ASSUME ThreadOK, NEW c \in Calls, Retry(c)
  PROVE  ThreadOK'
<1> DEFINE d == Delay * 2^attempt[c]
           nap == Lesser(d, Max0(left[c]))
<1>1. attempt[c] \in 0..Retries /\ attempt[c] < Retries /\ left[c] \in Int /\ left[c] <= Budget
  BY DEF Retry, ThreadOK
<1>2. d \in Nat
  BY <1>1, BrokerAssumption
<1>3. Nap(c, nap)
  BY DEF Retry
<1> HIDE DEF d
<1>4. nap \in 0..Budget
  BY <1>1, <1>2, Bounds DEF Lesser, Max0
<1> HIDE DEF nap
<1>5. attempt[c] + 1 \in 0..Retries
  BY <1>1, Bounds
<1> QED  BY <1>3, <1>4, <1>5, Bounds DEF Nap, ThreadOK, InTransport

(* The transport begins. *)
LEMMA SendTyped ==
  ASSUME ThreadOK, NEW c \in Calls, Send(c)
  PROVE  ThreadOK'
<1>1. left[c] \in 0..Budget
  BY DEF Send, ThreadOK
<1>2. 0 <= OverrunLimit + Budget
  BY Bounds
<1> QED  BY <1>1, <1>2 DEF Send, Grant, ThreadOK, InTransport

(* A timeout that starts again, once the request is not later than bounded. *)
LEMMA RestartTyped ==
  ASSUME ThreadOK, NEW c \in Calls, Restart(c)
  PROVE  /\ timer' \in [Calls -> 0..Budget]
         /\ overrun' \in [Calls -> Int]
         /\ \A d \in Calls : overrun'[d] <= OverrunLimit + Budget
<1>1. /\ granted[c] \in 0..Budget /\ timer[c] \in 0..Budget /\ overrun[c] \in Int
      /\ overrun[c] <= OverrunLimit + Budget
  BY DEF ThreadOK
<1>2. overrun[c] + (granted[c] - timer[c]) <= OverrunLimit + Budget
  BY <1>1, Bounds DEF Restart
<1> QED  BY <1>1, <1>2, Bounds DEF Restart, ThreadOK

(* The steps of a thread that leave the cache and the service alone. *)
LEMMA ThreadTyped ==
  ASSUME ThreadOK, NEW c \in Calls,
         \/ Refuse(c) \/ Begin(c) \/ UseCached(c) \/ IdentityToken(c) \/ Transport(c)
         \/ Network(c) \/ Cancel(c)
  PROVE  ThreadOK'
<1>1. CASE Refuse(c)
  BY <1>1, EndTyped DEF Refuse, Outcomes
<1>2. CASE Begin(c)
  BY <1>2, GoToTyped, DeadlineTyped DEF Begin, InToken
<1>3. CASE UseCached(c) \/ StoreExpiry(c)
  BY <1>3, DeadlineTyped DEF UseCached, StoreExpiry
<1>4. CASE StartFetch(c) \/ Fetch(c) \/ StoreToken(c) \/ Wake(c) \/ LookupEnds(c)
  BY <1>4, GoToTyped DEF StartFetch, Fetch, StoreToken, Wake, LookupEnds, InToken, InTransport
<1>5. CASE FetchFails(c) \/ ExpiryUnreadable(c) \/ DeadlineExpired(c) \/ ReceiveError(c)
           \/ ConnectionFails(c) \/ TimesOut(c)
  BY <1>5, EndTyped DEF FetchFails, ExpiryUnreadable, DeadlineExpired, ReceiveError,
     ConnectionFails, TimesOut, Outcomes, Failures
<1>6. CASE ReceiveBody(c)
  BY <1>6, EndTyped DEF ReceiveBody, Outcomes, Bodies, Failures
<1>7. CASE NextAddress(c) \/ Connected(c) \/ Trickle(c) \/ Redirect(c)
  <2>1. /\ Restart(c) /\ UNCHANGED <<outcome, attempt, left, granted>>
        /\ pc' \in {pc, [pc EXCEPT ![c] = "wait"], [pc EXCEPT ![c] = "lookup"]}
        /\ reply' \in {reply, [reply EXCEPT ![c] = "followed"]}
    BY <1>7 DEF NextAddress, Connected, Trickle, Redirect
  <2> QED  BY <2>1, RestartTyped DEF ThreadOK, InTransport
<1>8. CASE RedirectAnswered(c)
  BY <1>8 DEF RedirectAnswered, ThreadOK, request
<1>9. CASE Cancel(c)
  BY <1>9 DEF Cancel, ThreadOK, request
<1> QED  BY <1>1, <1>2, <1>3, <1>4, <1>5, <1>6, <1>7, <1>8, <1>9, RetryTyped, SendTyped
        DEF IdentityToken, Transport, Network

(* The cache. *)
LEMMA CacheTyped ==
  ASSUME CacheOK, NEW c \in Calls,
         Refuse(c) \/ Begin(c) \/ IdentityToken(c) \/ Transport(c)
         \/ Network(c) \/ Cancel(c)
  PROVE  CacheOK'
<1> USE Bounds DEF CacheOK, cache, NoToken
<1>1. CASE Begin(c)
  BY <1>1 DEF Begin
<1>2. CASE StartFetch(c) \/ FetchFails(c) \/ StoreExpiry(c) \/ ExpiryUnreadable(c) \/ StoreToken(c)
  BY <1>2 DEF StartFetch, FetchFails, StoreExpiry, ExpiryUnreadable, StoreToken
<1>3. CASE Fetch(c)
  <2>1. token[c] \in [life : 0..Lifetime, assumed : 0..Lifetime]
    OBVIOUS
  <2>2. CASE \E life \in 0..Lifetime :
          token' = [token EXCEPT ![c] = [life |-> life, assumed |-> life]]
    BY <1>3, <2>2 DEF Fetch
  <2>3. CASE \E life \in Fallback..Lifetime :
          token' = [token EXCEPT ![c] = [life |-> life, assumed |-> @.assumed]]
    BY <1>3, <2>1, <2>3 DEF Fetch
  <2> QED  BY <1>3, <2>2, <2>3 DEF Fetch
<1>4. CASE UNCHANGED cache
  BY <1>4
<1>5. CASE Network(c) \/ Cancel(c) \/ Refuse(c)
  BY <1>4, <1>5 DEF Network, NextAddress, Connected, Trickle, RedirectAnswered, ConnectionFails,
     Cancel, Refuse
<1>6. CASE Transport(c)
  BY <1>4, <1>6 DEF Transport, Send, Grant, DeadlineExpired, ReceiveBody, Retry, ReceiveError,
     Wake, LookupEnds, Redirect, TimesOut
<1> QED  BY <1>1, <1>2, <1>3, <1>4, <1>5, <1>6 DEF IdentityToken, UseCached

(* A response is one of those a reply may be. *)
LEMMA DeliverTyped ==
  ASSUME ThreadOK, NEW q \in Requests,
         NEW response \in Bodies \union {"none", "throttled", "redirect", "error"},
         Deliver(q, response), UNCHANGED Replies
  PROVE  ThreadOK'
<1>1. q[1] \in Calls
  BY DEF Requests
<1> QED  BY <1>1 DEF Deliver, Replies, request, ThreadOK

(* Time. *)
LEMMA TickTyped ==
  ASSUME TypeOK, Tick
  PROVE  TypeOK'
<1> USE Bounds DEF TypeOK
<1>1. ThreadOK'
  <2>1. \A c \in Calls : Counting(c) => timer[c] - 1 \in 0..Budget
    BY DEF Tick, ThreadOK
  <2>2. timer' \in [Calls -> 0..Budget]
    BY <2>1 DEF Tick, ThreadOK
  <2>3. \A c \in Calls : left[c] - Passed(c) \in Int /\ left[c] - Passed(c) <= Budget
    BY DEF Passed, ThreadOK
  <2>4. left' \in [Calls -> Int] /\ \A c \in Calls : left'[c] <= Budget
    BY <2>3 DEF Tick
  <2>5. \A c \in Calls : pc[c] = "lookup" => overrun[c] + 1 <= OverrunLimit + Budget
    BY DEF Tick, ThreadOK
  <2>6. overrun' \in [Calls -> Int] /\ \A c \in Calls : overrun'[c] <= OverrunLimit + Budget
    BY <2>5 DEF Tick, ThreadOK
  <2> QED  BY <2>2, <2>4, <2>6 DEF Tick, ThreadOK
<1>2. CacheOK'
  <2>1. \A n \in 0..Lifetime : Max0(n - 1) \in 0..Lifetime
    BY DEF Max0
  <2>2. token' \in [Calls -> [life : 0..Lifetime, assumed : 0..Lifetime]]
    BY <2>1 DEF Tick, CacheOK
  <2> QED  BY <2>1, <2>2 DEF Tick, CacheOK
<1>3. ServiceOK'
  BY DEF Tick, service, ServiceOK
<1> QED  BY <1>1, <1>2, <1>3

(* The first request of the backlog. *)
LEMMA HeadTyped ==
  ASSUME ServiceOK, backlog # <<>>
  PROVE  /\ Head(backlog) \in Requests /\ Head(backlog) = backlog[1]
         /\ Head(backlog)[1] \in Calls
         /\ Tail(backlog) \in Seq(Requests) /\ Len(Tail(backlog)) = Len(backlog) - 1
         /\ \A i \in 1..Len(Tail(backlog)) : Tail(backlog)[i] = backlog[i + 1]
         /\ Len(backlog) \in Nat /\ Len(backlog) >= 1
<1>1. /\ Head(backlog) \in Requests /\ Head(backlog) = backlog[1]
      /\ Tail(backlog) \in Seq(Requests) /\ Len(Tail(backlog)) = Len(backlog) - 1
      /\ \A i \in 1..Len(Tail(backlog)) : Tail(backlog)[i] = backlog[i + 1]
      /\ Len(backlog) \in Nat /\ Len(backlog) >= 1
  BY DEF ServiceOK
<1> QED  BY <1>1 DEF Requests

(* A response of the service. *)
LEMMA RespondTyped ==
  ASSUME TypeOK, backlog # <<>>, NEW response \in Bodies \union {"error"},
         Respond(Head(backlog), response)
  PROVE  TypeOK'
<1> DEFINE q == Head(backlog)
<1>1. q \in Requests /\ Tail(backlog) \in Seq(Requests)
  BY HeadTyped DEF TypeOK
<1>2. ThreadOK'
  <2>1. CASE q \in slot
    BY <1>1, <2>1, DeliverTyped DEF Respond, TypeOK
  <2>2. CASE q \notin slot
    BY <2>2 DEF Respond, Replies, request, TypeOK, ThreadOK
  <2> QED  BY <2>1, <2>2
<1>3. CacheOK' /\ ServiceOK'
  BY <1>1 DEF Respond, TypeOK, CacheOK, cache, ServiceOK
<1> QED  BY <1>2, <1>3 DEF TypeOK

(* The platform and the service. *)
LEMMA ServiceTyped ==
  ASSUME TypeOK, Platform \/ Service
  PROVE  TypeOK'
<1> USE DEF TypeOK
<1>1. ASSUME NEW q \in Requests, PlatformRefuses(q) PROVE TypeOK'
  <2>1. ThreadOK'
    BY <1>1, DeliverTyped DEF PlatformRefuses
  <2> QED  BY <1>1, <2>1 DEF PlatformRefuses, cache, CacheOK, ServiceOK
<1>2. ASSUME NEW q \in Requests, Dispatch(q) PROVE TypeOK'
  <2>1. Append(backlog, q) \in Seq(Requests)
    BY <1>2 DEF ServiceOK
  <2> QED  BY <1>2, <2>1 DEF Dispatch, thread, request, ThreadOK, cache, CacheOK, ServiceOK
<1>3. ASSUME NEW q \in Requests, PlatformGivesUp(q) PROVE TypeOK'
  <2>1. ThreadOK'
    BY <1>3, DeliverTyped DEF PlatformGivesUp
  <2> QED  BY <1>3, <2>1 DEF PlatformGivesUp, cache, CacheOK, ServiceOK
<1>4. CASE InstanceDies
  <2>1. ThreadOK'
    <3>1. CASE slot = {}
      BY <1>4, <3>1 DEF InstanceDies, Replies, request, ThreadOK
    <3>2. CASE slot # {}
      <4>1. PICK q \in slot : Deliver(q, "error")
        BY <1>4, <3>2 DEF InstanceDies
      <4> QED  BY <1>4, <4>1, DeliverTyped DEF InstanceDies, ServiceOK
    <3> QED  BY <3>1, <3>2
  <2>2. <<>> \in Seq(Requests)
    OBVIOUS
  <2> QED  BY <1>4, <2>1, <2>2 DEF InstanceDies, cache, CacheOK, ServiceOK
<1>5. CASE ServiceRejects
  BY <1>5, RespondTyped DEF ServiceRejects
<1>6. CASE ServiceExecutes
  <2>1. Head(backlog)[1] \in Calls
    BY <1>6, HeadTyped DEF ServiceExecutes
  <2>2. executions' \in [Calls -> Nat]
    BY <1>6, <2>1 DEF ServiceExecutes, ServiceOK
  <2>3. ThreadOK' /\ CacheOK'
    BY <1>6 DEF ServiceExecutes, thread, request, ThreadOK, cache, CacheOK
  <2>4. UNCHANGED <<posted, slot, backlog>> /\ serving' \in BOOLEAN
    BY <1>6 DEF ServiceExecutes
  <2> QED  BY <2>2, <2>3, <2>4 DEF ServiceOK
<1>7. CASE ServiceAnswers
  BY <1>7, RespondTyped DEF ServiceAnswers
<1> QED  BY <1>1, <1>2, <1>3, <1>4, <1>5, <1>6, <1>7 DEF Platform, Service

(* The steps of the client leave the service alone, but for a request posted. *)
LEMMA ClientServes ==
  ASSUME NEW c \in Calls, Client(c)
  PROVE  Connected(c) \/ UNCHANGED service
<1>1. CASE Refuse(c) \/ Begin(c) \/ IdentityToken(c)
  BY <1>1 DEF Refuse, Begin, IdentityToken, UseCached, StartFetch, Fetch, FetchFails,
     StoreToken, StoreExpiry, ExpiryUnreadable
<1>2. CASE Transport(c)
  BY <1>2 DEF Transport, Send, Grant, DeadlineExpired, ReceiveBody, Retry, ReceiveError,
     Wake, LookupEnds, Redirect, TimesOut
<1>3. CASE Network(c) \/ Cancel(c)
  BY <1>3 DEF Network, NextAddress, Trickle, RedirectAnswered, ConnectionFails, Cancel
<1> QED  BY <1>1, <1>2, <1>3 DEF Client

(* Every action of a client keeps the types. *)
LEMMA ClientTyped ==
  ASSUME TypeOK, NEW c \in Calls, Client(c)
  PROVE  TypeOK'
<1>1. ThreadOK' /\ CacheOK'
  BY ThreadTyped, CacheTyped DEF TypeOK, Client
<1>2. ServiceOK'
  <2>1. CASE Connected(c)
    <3>1. <<c, attempt[c]>> \in Requests
      BY DEF TypeOK, ThreadOK, Requests
    <3> QED  BY <2>1, <3>1 DEF Connected, TypeOK, ServiceOK
  <2>2. CASE UNCHANGED service
    BY <2>2 DEF service, TypeOK, ServiceOK
  <2> QED  BY <2>1, <2>2, ClientServes
<1> QED  BY <1>1, <1>2 DEF TypeOK

(* The types hold at the start. *)
LEMMA InitTyped == Init => TypeOK
<1> SUFFICES ASSUME Init PROVE TypeOK
  OBVIOUS
<1>1. <<>> \in Seq(Requests)
  OBVIOUS
<1>2. ServiceOK
  BY <1>1 DEF Init, ServiceOK
<1>3. NoToken \in [life : 0..Lifetime, assumed : 0..Lifetime]
  BY Bounds DEF NoToken
<1>4. CacheOK
  <2>1. token \in [Calls -> [life : 0..Lifetime, assumed : 0..Lifetime]]
    BY <1>3 DEF Init
  <2>2. cachedLife \in 0..Lifetime /\ assumedLife \in 0..Lifetime
    BY Bounds DEF Init
  <2>3. overlapped \in BOOLEAN
    BY DEF Init
  <2> QED  BY <2>1, <2>2, <2>3 DEF CacheOK
<1>5. ThreadOK
  <2>1. 0 \in 0..Budget /\ 0 \in 0..Retries /\ 0 <= Budget /\ 0 <= OverrunLimit + Budget
    BY Bounds
  <2>2. /\ attempt \in [Calls -> 0..Retries] /\ left \in [Calls -> Int]
        /\ granted \in [Calls -> 0..Budget] /\ timer \in [Calls -> 0..Budget]
        /\ overrun \in [Calls -> Int]
        /\ \A c \in Calls : left[c] <= Budget /\ overrun[c] <= OverrunLimit + Budget
    BY <2>1 DEF Init
  <2> QED  BY <2>2 DEF Init, ThreadOK
<1> QED  BY <1>2, <1>4, <1>5 DEF TypeOK

(* Every step keeps the types. *)
LEMMA NextTyped == TypeOK /\ [Next]_vars => TypeOK'
<1> SUFFICES ASSUME TypeOK, [Next]_vars PROVE TypeOK'
  OBVIOUS
<1>1. CASE Next
  BY <1>1, ClientTyped, ServiceTyped, TickTyped DEF Next
<1>2. CASE UNCHANGED vars
  BY <1>2 DEF vars, thread, request, cache, service, TypeOK, ThreadOK, CacheOK, ServiceOK
<1> QED  BY <1>1, <1>2

(* Every variable keeps its kind, for any number of calls and any bounds:  *)
(* attempts stay within the retries, naps and timeouts within the budget.  *)
THEOREM TypeCorrect == Spec => []TypeOK
  BY InitTyped, NextTyped, PTL DEF Spec

-----------------------------------------------------------------------------
(* Where the request of a call is.                                         *)

(* A step of one client leaves the others alone. *)
LEMMA ClientLocal ==
  ASSUME TypeOK, NEW c \in Calls, Client(c), NEW d \in Calls, d # c
  PROVE  pc'[d] = pc[d] /\ outcome'[d] = outcome[d] /\ reply'[d] = reply[d]
         /\ overrun'[d] = overrun[d] /\ timer'[d] = timer[d] /\ left'[d] = left[d]
         /\ granted'[d] = granted[d]
<1> USE DEF TypeOK, ThreadOK
<1>1. CASE Refuse(c) \/ FetchFails(c) \/ ExpiryUnreadable(c) \/ DeadlineExpired(c)
           \/ ReceiveBody(c) \/ ReceiveError(c) \/ TimesOut(c) \/ ConnectionFails(c)
  <2>1. \E verdict : End(c, verdict)
    BY <1>1 DEF Refuse, FetchFails, ExpiryUnreadable, DeadlineExpired, ReceiveBody,
       ReceiveError, TimesOut, ConnectionFails
  <2> QED  BY <2>1 DEF End
<1>2. CASE Begin(c) \/ UseCached(c) \/ StartFetch(c) \/ Fetch(c) \/ StoreToken(c)
           \/ StoreExpiry(c) \/ Wake(c) \/ LookupEnds(c)
  <2>1. SetDeadline(c) \/ \E state : GoTo(c, state)
    BY <1>2 DEF Begin, UseCached, StartFetch, Fetch, StoreToken, StoreExpiry, Wake, LookupEnds
  <2> QED  BY <2>1 DEF SetDeadline, GoTo, request
<1>3. CASE Send(c)
  BY <1>3 DEF Send, Grant
<1>4. CASE Retry(c)
  <2>1. \E length : Nap(c, length)
    BY <1>4 DEF Retry
  <2> QED  BY <2>1 DEF Nap
<1>5. CASE NextAddress(c) \/ Connected(c) \/ Trickle(c) \/ Redirect(c)
  BY <1>5 DEF NextAddress, Connected, Trickle, Redirect, Restart
<1>6. CASE RedirectAnswered(c) \/ Cancel(c)
  BY <1>6 DEF RedirectAnswered, Cancel, request
<1> QED  BY <1>1, <1>2, <1>3, <1>4, <1>5, <1>6 DEF Client, IdentityToken, Transport, Network

(* What a step of a client that posts nothing makes of its own thread. *)
ThreadStep(c) ==
  /\ pc'[c] \in Sending => Quiet(c)
  /\ pc'[c] = "wait" /\ reply'[c] \in Unexecuted => Quiet(c)
  /\ reply'[c] # "none" => pc'[c] = "wait" \/ reply'[c] = "followed"
  /\ reply'[c] = "followed" => pc'[c] \in {"lookup", "connect", "wait"}
  /\ reply'[c] \in Bodies => reply'[c] = reply[c]
  /\ outcome'[c] = "invalid" => Quiet(c) /\ pc'[c] = "over"
  /\ pc'[c] # "idle"

(* What ThreadStep asks holds of a client's own steps, but for a request posted. *)
LEMMA ClientOwn ==
  ASSUME Underway, NEW c \in Calls, Client(c), ~Connected(c)
  PROVE  ThreadStep(c)
<1>1. /\ pc[c] \in Sending => Quiet(c)
      /\ pc[c] = "wait" /\ reply[c] \in Unexecuted => Quiet(c)
      /\ outcome[c] = "invalid" => Quiet(c) /\ pc[c] = "over"
      /\ reply[c] # "none" => pc[c] = "wait" \/ reply[c] = "followed"
      /\ reply[c] = "followed" => pc[c] \in {"lookup", "connect", "wait"}
  BY DEF Underway, QuietWhileSending, RepliesAreTrue
<1>2. /\ pc \in [Calls -> {"idle", "over"} \union InToken \union InTransport]
      /\ DOMAIN outcome = Calls /\ DOMAIN reply = Calls
  BY DEF Underway, TypeOK, ThreadOK
<1>3. ASSUME NEW verdict, End(c, verdict), pc[c] # "over", verdict = "invalid" => pc[c] = "idle"
      PROVE  ThreadStep(c)
  BY <1>1, <1>2, <1>3 DEF ThreadStep, End, Sending, Unexecuted, Bodies, InToken
<1>4. CASE Refuse(c)
  BY <1>3, <1>4 DEF Refuse, NextCall
<1>5. CASE FetchFails(c) \/ ExpiryUnreadable(c) \/ DeadlineExpired(c) \/ ReceiveBody(c)
           \/ ReceiveError(c) \/ TimesOut(c) \/ ConnectionFails(c)
  BY <1>3, <1>5 DEF FetchFails, ExpiryUnreadable, DeadlineExpired, ReceiveBody, ReceiveError,
     TimesOut, ConnectionFails, Failures
<1>6. CASE Begin(c) \/ UseCached(c) \/ StartFetch(c) \/ Fetch(c) \/ StoreToken(c)
           \/ StoreExpiry(c) \/ Wake(c) \/ LookupEnds(c) \/ Send(c)
  <2>1. pc[c] \in {"idle", "send", "sleep", "lookup"} \union InToken
    BY <1>6 DEF Begin, NextCall, UseCached, StartFetch, Fetch, StoreToken, StoreExpiry, Wake,
       LookupEnds, Send, InToken
  <2>2. UNCHANGED <<outcome, reply>> /\ pc'[c] \in {"token", "fetch", "store", "expiry", "send", "connect", "lookup"}
        /\ (pc'[c] = "connect" <=> pc[c] = "lookup")
    <3>1. CASE Begin(c) \/ UseCached(c) \/ StoreExpiry(c)
      BY <1>2, <3>1 DEF Begin, NextCall, UseCached, StoreExpiry, SetDeadline, GoTo
    <3>2. CASE StartFetch(c) \/ Fetch(c) \/ StoreToken(c) \/ Wake(c) \/ LookupEnds(c) \/ Send(c)
      BY <1>2, <3>2 DEF StartFetch, Fetch, StoreToken, Wake, LookupEnds, Send, Grant, GoTo
    <3> QED  BY <1>6, <3>1, <3>2
  <2> QED  BY <1>1, <2>1, <2>2 DEF ThreadStep, Sending, InToken
<1>7. CASE Retry(c)
  <2>1. PICK length : Nap(c, length)
    BY <1>7 DEF Retry
  <2>2. pc[c] = "wait" /\ reply[c] = "throttled"
    BY <1>7 DEF Retry
  <2> QED  BY <1>1, <1>2, <2>1, <2>2 DEF Nap, ThreadStep, Unexecuted, Bodies
<1>8. CASE NextAddress(c) \/ Trickle(c)
  BY <1>1, <1>8 DEF NextAddress, Trickle, ThreadStep, Sending, InToken
<1>9. CASE Redirect(c) \/ RedirectAnswered(c)
  <2>1. Quiet(c)
    BY <1>1, <1>9 DEF Redirect, RedirectAnswered, Unexecuted
  <2>2. /\ outcome' = outcome /\ pc[c] = "wait"
        /\ \/ pc'[c] = "lookup" /\ reply'[c] = "followed"
           \/ pc'[c] = "wait" /\ reply'[c] \in {"throttled", "error"}
    BY <1>2, <1>9 DEF Redirect, RedirectAnswered
  <2> QED  BY <1>1, <2>1, <2>2 DEF ThreadStep, Bodies
<1>10. CASE Cancel(c)
  <2>1. /\ UNCHANGED <<pc, reply>> /\ outcome'[c] = "cancelled"
        /\ pc[c] \in InToken \union InTransport
    BY <1>2, <1>10 DEF Cancel
  <2> QED  BY <1>1, <2>1 DEF ThreadStep, InToken, InTransport
<1> QED  BY <1>4, <1>5, <1>6, <1>7, <1>8, <1>9, <1>10 DEF Client, IdentityToken, Transport, Network

(* What the service holds keeps its shape when it does not change. *)
LEMMA ServiceKept ==
  ASSUME UNCHANGED service
  PROVE  /\ OneRequest => OneRequest'
         /\ ExecutedWhenServed => ExecutedWhenServed'
         /\ \A c : Quiet(c) => Quiet(c)'
  BY DEF service, OneRequest, ExecutedWhenServed, Quiet

(* A client's steps that post nothing leave the service's requests as they are. *)
LEMMA ClientUnderway ==
  ASSUME Underway, NEW c \in Calls, Client(c), ~Connected(c)
  PROVE  Underway'
<1>1. TypeOK /\ TypeOK'
  BY ClientTyped DEF Underway
<1>2. UNCHANGED service
  BY ClientServes
<1>3. OneRequest' /\ ExecutedWhenServed'
  BY <1>2, ServiceKept DEF Underway
<1>4. ThreadStep(c)
  BY ClientOwn
<1>5. executions' = executions
  BY <1>2 DEF service
<1>6. ASSUME NEW d \in Calls
      PROVE  /\ pc'[d] \in Sending => Quiet(d)'
             /\ pc'[d] = "wait" /\ reply'[d] \in Unexecuted => Quiet(d)'
             /\ outcome'[d] = "invalid" => Quiet(d)' /\ pc'[d] = "over"
             /\ reply'[d] # "none" => pc'[d] = "wait" \/ reply'[d] = "followed"
             /\ reply'[d] = "followed" => pc'[d] \in {"lookup", "connect", "wait"}
             /\ reply'[d] \in Bodies => executions'[d] = 1
             /\ pc'[d] = "idle" => outcome'[d] = "pending"
  <2>1. /\ pc[d] \in Sending => Quiet(d)
        /\ pc[d] = "wait" /\ reply[d] \in Unexecuted => Quiet(d)
        /\ outcome[d] = "invalid" => Quiet(d) /\ pc[d] = "over"
        /\ reply[d] # "none" => pc[d] = "wait" \/ reply[d] = "followed"
        /\ reply[d] = "followed" => pc[d] \in {"lookup", "connect", "wait"}
        /\ reply[d] \in Bodies => executions[d] = 1
        /\ pc[d] = "idle" => outcome[d] = "pending"
    BY DEF Underway, QuietWhileSending, RepliesAreTrue
  <2>2. Quiet(d) => Quiet(d)'
    BY <1>2, ServiceKept
  <2>3. CASE d = c
    BY <1>4, <1>5, <2>1, <2>2, <2>3 DEF ThreadStep, Bodies
  <2>4. CASE d # c
    BY <1>1, <1>5, <2>1, <2>2, <2>4, ClientLocal
  <2> QED  BY <2>3, <2>4
<1> QED  BY <1>1, <1>3, <1>6 DEF Underway, QuietWhileSending, RepliesAreTrue

(* A request is posted by a thread that had none, and a redirected one not. *)
LEMMA ConnectedUnderway ==
  ASSUME Underway, NEW c \in Calls, Connected(c)
  PROVE  Underway'
<1> DEFINE q == <<c, attempt[c]>>
<1>1. TypeOK /\ TypeOK' /\ Client(c)
  BY ClientTyped DEF Underway, Client, Network
<1>2. Quiet(c)
  BY DEF Connected, Underway, QuietWhileSending, Sending
<1>3. /\ posted' = IF reply[c] = "followed" THEN posted ELSE posted \union {q}
      /\ q[1] = c /\ UNCHANGED <<slot, backlog, serving, executions, reply, outcome>>
      /\ pc' = [pc EXCEPT ![c] = "wait"] /\ pc[c] = "connect"
  BY DEF Connected
<1>4. DOMAIN pc = Calls
  BY <1>1 DEF TypeOK, ThreadOK
<1> HIDE DEF q
<1>5. OneRequest'
  BY <1>2, <1>3 DEF Underway, OneRequest, Quiet
<1>6. ExecutedWhenServed'
  <2>1. \A p \in posted' : executions'[p[1]] = 0
    BY <1>2, <1>3 DEF Underway, ExecutedWhenServed, Quiet
  <2> QED  BY <1>3, <2>1 DEF Underway, ExecutedWhenServed
<1>7. RepliesAreTrue'
  BY <1>3, <1>4 DEF Underway, RepliesAreTrue
<1>8. QuietWhileSending'
  <2> SUFFICES ASSUME NEW d \in Calls
               PROVE  /\ pc'[d] \in Sending => Quiet(d)'
                      /\ pc'[d] = "wait" /\ reply'[d] \in Unexecuted => Quiet(d)'
                      /\ outcome'[d] = "invalid" => Quiet(d)' /\ pc'[d] = "over"
    BY DEF QuietWhileSending
  <2>1. CASE d = c
    <3>1. reply[c] \in Unexecuted => reply[c] = "followed"
      BY <1>3 DEF Underway, RepliesAreTrue, Unexecuted
    <3>2. reply[c] = "followed" => Quiet(c)'
      BY <1>2, <1>3 DEF Quiet
    <3>3. pc'[c] = "wait" /\ outcome[c] # "invalid"
      BY <1>3, <1>4 DEF Underway, QuietWhileSending
    <3> QED  BY <1>3, <2>1, <3>1, <3>2, <3>3 DEF Sending, InToken
  <2>2. CASE d # c
    <3>1. pc'[d] = pc[d] /\ (Quiet(d) => Quiet(d)')
      BY <1>3, <1>4, <2>2 DEF Quiet
    <3> QED  BY <1>3, <3>1 DEF Underway, QuietWhileSending
  <2> QED  BY <2>1, <2>2
<1> QED  BY <1>1, <1>5, <1>6, <1>7, <1>8 DEF Underway

(* A response that reaches a thread: the service's own, or the platform's  *)
(* when it refused the request, or gave it up.                             *)
LEMMA DeliverUnderway ==
  ASSUME Underway, TypeOK', NEW q \in Requests,
         NEW response \in Bodies \union {"none", "throttled", "redirect", "error"},
         Deliver(q, response), UNCHANGED <<Replies, executions>>,
         response \in Bodies => executions[q[1]] = 1,
         response \in {"throttled", "redirect"} => Quiet(q[1])',
         \A c \in Calls : Quiet(c) => Quiet(c)'
  PROVE  QuietWhileSending' /\ RepliesAreTrue'
<1>1. /\ UNCHANGED <<pc, outcome>> /\ DOMAIN reply = Calls
      /\ \A c \in Calls : \/ reply'[c] = reply[c]
                          \/ c = q[1] /\ reply'[c] = response /\ pc[c] = "wait"
  BY DEF Underway, TypeOK, ThreadOK, Deliver, Replies
<1>2. QuietWhileSending'
  BY <1>1 DEF Underway, QuietWhileSending, Unexecuted, Bodies
<1>3. RepliesAreTrue'
  BY <1>1 DEF Underway, RepliesAreTrue, Bodies
<1> QED  BY <1>2, <1>3

(* A request refused before dispatch has not run, and some responses say so. *)
LEMMA RefusedUnderway ==
  ASSUME Underway, NEW q \in Requests, PlatformRefuses(q)
  PROVE  Underway'
<1>1. TypeOK'
  BY ServiceTyped DEF Underway, Platform
<1>2. /\ q \in posted /\ posted' = posted \ {q}
      /\ UNCHANGED <<slot, backlog, serving, executions, Replies>>
  BY DEF PlatformRefuses
<1>3. OneRequest' /\ ExecutedWhenServed'
  BY <1>2 DEF Underway, OneRequest, ExecutedWhenServed
<1>4. Quiet(q[1])'
  BY <1>2 DEF Underway, OneRequest, ExecutedWhenServed, Quiet
<1>5. \A c \in Calls : Quiet(c) => Quiet(c)'
  BY <1>2 DEF Quiet
<1>6. PICK response \in {"throttled", "redirect", "error", "none"} : Deliver(q, response)
  BY DEF PlatformRefuses
<1>7. QuietWhileSending' /\ RepliesAreTrue'
  BY <1>1, <1>2, <1>4, <1>5, <1>6, DeliverUnderway DEF Bodies
<1> QED  BY <1>1, <1>3, <1>7 DEF Underway

(* A dispatched request leaves those held and joins the one instance. *)
LEMMA DispatchUnderway ==
  ASSUME Underway, NEW q \in Requests, Dispatch(q)
  PROVE  Underway'
<1>1. TypeOK /\ TypeOK' /\ backlog \in Seq(Requests)
  BY ServiceTyped DEF Underway, Platform, TypeOK, ServiceOK
<1>2. /\ q \in posted /\ posted' = posted \ {q} /\ slot' = {q}
      /\ UNCHANGED <<serving, executions, pc, outcome, reply>>
  BY DEF Dispatch, thread
<1>3. /\ Len(backlog') = Len(backlog) + 1 /\ Len(backlog) \in Nat
      /\ \A i \in 1..Len(backlog) : backlog'[i] = backlog[i]
      /\ backlog'[Len(backlog) + 1] = q /\ (backlog # <<>> => Len(backlog) >= 1)
  BY <1>1 DEF Dispatch
<1>4. OneRequest'
  BY <1>2, <1>3 DEF Underway, OneRequest
<1>5. ExecutedWhenServed'
  <2>1. serving => Len(backlog) >= 1
    BY <1>3 DEF Underway, ExecutedWhenServed
  <2>2. \A i \in 1..Len(backlog') :
          executions'[backlog'[i][1]] = IF i = 1 /\ serving' THEN 1 ELSE 0
    BY <1>2, <1>3, <2>1 DEF Underway, ExecutedWhenServed
  <2>3. \A p \in slot' : \E i \in 1..Len(backlog') : backlog'[i] = p
    BY <1>2, <1>3
  <2>4. serving' => backlog' # <<>>
    BY <1>3
  <2> QED  BY <1>2, <2>2, <2>3, <2>4 DEF Underway, ExecutedWhenServed
<1>6. \A c \in Calls : Quiet(c) => Quiet(c)'
  BY <1>2, <1>3 DEF Quiet
<1>7. QuietWhileSending' /\ RepliesAreTrue'
  BY <1>2, <1>6 DEF Underway, QuietWhileSending, RepliesAreTrue
<1> QED  BY <1>1, <1>4, <1>5, <1>7 DEF Underway

(* A request that is given up is answered with an error, which is never retried. *)
LEMMA GivenUpUnderway ==
  ASSUME Underway, NEW q \in Requests, PlatformGivesUp(q)
  PROVE  Underway'
<1>1. TypeOK'
  BY ServiceTyped DEF Underway, Platform
<1>2. UNCHANGED <<posted, backlog, serving, executions, Replies>> /\ slot' = {}
  BY DEF PlatformGivesUp
<1>3. OneRequest' /\ ExecutedWhenServed'
  BY <1>2 DEF Underway, OneRequest, ExecutedWhenServed
<1>4. \A c \in Calls : Quiet(c) => Quiet(c)'
  BY <1>2 DEF Quiet
<1>5. QuietWhileSending' /\ RepliesAreTrue'
  BY <1>1, <1>2, <1>4, DeliverUnderway DEF PlatformGivesUp, Bodies
<1> QED  BY <1>1, <1>3, <1>5 DEF Underway

(* An instance that dies takes its requests with it. *)
LEMMA DeathUnderway ==
  ASSUME Underway, InstanceDies
  PROVE  Underway'
<1>1. TypeOK'
  BY ServiceTyped DEF Underway, Platform
<1>2. /\ UNCHANGED <<posted, executions, Replies>>
      /\ backlog' = <<>> /\ slot' = {} /\ serving' = FALSE
  BY DEF InstanceDies
<1>3. Len(backlog') = 0
  BY <1>2
<1>4. OneRequest' /\ ExecutedWhenServed'
  BY <1>2, <1>3 DEF Underway, OneRequest, ExecutedWhenServed
<1>5. \A c \in Calls : Quiet(c) => Quiet(c)'
  BY <1>2, <1>3 DEF Quiet
<1>6. QuietWhileSending' /\ RepliesAreTrue'
  <2>1. CASE slot = {}
    BY <1>2, <1>5, <2>1 DEF InstanceDies, Replies, Underway, QuietWhileSending, RepliesAreTrue
  <2>2. CASE slot # {}
    <3>1. PICK q \in slot : Deliver(q, "error")
      BY <2>2 DEF InstanceDies
    <3>2. q \in Requests
      BY DEF Underway, TypeOK, ServiceOK
    <3> QED  BY <1>1, <1>2, <1>5, <3>1, <3>2, DeliverUnderway DEF Bodies
  <2> QED  BY <2>1, <2>2
<1> QED  BY <1>1, <1>4, <1>6 DEF Underway

(* A candidate that was not executed is when its request comes first. *)
LEMMA ExecuteUnderway ==
  ASSUME Underway, ServiceExecutes
  PROVE  /\ Underway'
         /\ \E c \in Calls : /\ executions[c] = 0 /\ outcome[c] # "invalid"
                             /\ executions' = [executions EXCEPT ![c] = 1]
<1> DEFINE c == backlog[1][1]
<1>1. /\ TypeOK' /\ backlog \in Seq(Requests) /\ c \in Calls
      /\ Head(backlog)[1] = c /\ Len(backlog) \in Nat /\ Len(backlog) >= 1
      /\ executions \in [Calls -> Nat]
  BY ServiceTyped, HeadTyped DEF Underway, Service, TypeOK, ServiceOK, ServiceExecutes
<1> HIDE DEF c
<1>2. /\ ~serving /\ serving' = TRUE /\ executions' = [executions EXCEPT ![c] = @ + 1]
      /\ UNCHANGED <<posted, slot, backlog, pc, outcome, reply>>
  BY <1>1 DEF ServiceExecutes, thread
<1>3. executions[c] = 0
  BY <1>1, <1>2 DEF Underway, ExecutedWhenServed, c
<1>4. executions' = [executions EXCEPT ![c] = 1]
  BY <1>2, <1>3
<1>5. ~Quiet(c)
  BY <1>1 DEF Quiet, c
<1>6. OneRequest'
  BY <1>2 DEF Underway, OneRequest
<1>7. ExecutedWhenServed'
  <2>1. \A d \in Calls : executions'[d] = IF d = c THEN 1 ELSE executions[d]
    BY <1>1, <1>4
  <2>2. \A i \in 1..Len(backlog) : backlog[i][1] \in Calls /\ (backlog[i][1] = c <=> i = 1)
    BY <1>1 DEF Underway, OneRequest, Requests, c
  <2>3. \A q \in posted : q[1] \in Calls /\ q[1] # c
    BY <1>1 DEF Underway, TypeOK, ServiceOK, OneRequest, Requests, c
  <2>4. backlog # <<>>
    BY DEF ServiceExecutes
  <2> QED  BY <1>2, <2>1, <2>2, <2>3, <2>4 DEF Underway, ExecutedWhenServed
<1>8. \A d \in Calls : Quiet(d) => Quiet(d)'
  BY <1>1, <1>2, <1>4, <1>5 DEF Quiet
<1>9. QuietWhileSending' /\ RepliesAreTrue'
  <2>1. \A d \in Calls : executions[d] = 1 => executions'[d] = 1
    BY <1>1, <1>4
  <2> QED  BY <1>2, <1>8, <2>1 DEF Underway, QuietWhileSending, RepliesAreTrue
<1>10. outcome[c] # "invalid"
  BY <1>1, <1>5 DEF Underway, QuietWhileSending
<1> QED  BY <1>1, <1>3, <1>4, <1>6, <1>7, <1>9, <1>10 DEF Underway

(* The first request leaves the service with a response. *)
LEMMA RespondUnderway ==
  ASSUME Underway, backlog # <<>>, NEW response \in Bodies \union {"error"},
         response \in Bodies => serving, Respond(Head(backlog), response)
  PROVE  Underway'
<1> DEFINE q == Head(backlog)
<1>1. /\ TypeOK' /\ q \in Requests /\ q = backlog[1]
      /\ Len(backlog') = Len(backlog) - 1 /\ Len(backlog) \in Nat /\ Len(backlog) >= 1
      /\ \A i \in 1..Len(backlog') : backlog'[i] = backlog[i + 1]
  BY RespondTyped, HeadTyped DEF Underway, TypeOK, Respond
<1>2. /\ UNCHANGED <<Replies, posted, executions>> /\ serving' = FALSE /\ slot' = slot \ {q}
      /\ IF q \in slot THEN Deliver(q, response) ELSE UNCHANGED reply
  BY DEF Respond
<1> HIDE DEF q
<1>3. OneRequest'
  <2>1. \A i \in 1..Len(backlog') : i + 1 \in 1..Len(backlog) /\ i \in Nat
    BY <1>1
  <2> QED  BY <1>1, <1>2, <2>1 DEF Underway, OneRequest
<1>4. ExecutedWhenServed'
  <2>1. \A i \in 1..Len(backlog') : executions'[backlog'[i][1]] = 0
    BY <1>1, <1>2 DEF Underway, ExecutedWhenServed
  <2>2. ASSUME NEW p \in slot' PROVE \E i \in 1..Len(backlog') : backlog'[i] = p
    <3>1. PICK i \in 1..Len(backlog) : backlog[i] = p
      BY <1>2, <2>2 DEF Underway, ExecutedWhenServed
    <3>2. i # 1 /\ i - 1 \in 1..Len(backlog') /\ (i - 1) + 1 = i
      BY <1>1, <1>2, <2>2, <3>1
    <3> QED  BY <1>1, <3>1, <3>2
  <2> QED  BY <1>2, <2>1, <2>2 DEF Underway, ExecutedWhenServed
<1>5. \A c \in Calls : Quiet(c) => Quiet(c)'
  <2>1. \A i \in 1..Len(backlog') : i + 1 \in 1..Len(backlog)
    BY <1>1
  <2> QED  BY <1>1, <1>2, <2>1 DEF Quiet
<1>6. response \in Bodies => executions[q[1]] = 1
  BY <1>1 DEF Underway, ExecutedWhenServed
<1>7. QuietWhileSending' /\ RepliesAreTrue'
  <2>1. CASE q \in slot
    BY <1>1, <1>2, <1>5, <1>6, <2>1, DeliverUnderway DEF Bodies
  <2>2. CASE q \notin slot
    BY <1>2, <1>5, <2>2 DEF Replies, Underway, QuietWhileSending, RepliesAreTrue
  <2> QED  BY <2>1, <2>2
<1> QED  BY <1>1, <1>3, <1>4, <1>7 DEF Underway

(* The invariant holds at the start: nothing is under way. *)
LEMMA InitUnderway == Init => Underway
<1> SUFFICES ASSUME Init PROVE Underway
  OBVIOUS
<1>1. TypeOK /\ Len(backlog) = 0
  BY InitTyped DEF Init
<1>2. OneRequest /\ ExecutedWhenServed
  BY <1>1 DEF Init, OneRequest, ExecutedWhenServed
<1>3. \A c \in Calls : Quiet(c)
  BY <1>1 DEF Init, Quiet
<1>4. QuietWhileSending /\ RepliesAreTrue
  BY <1>3 DEF Init, QuietWhileSending, RepliesAreTrue, Bodies, Unexecuted
<1> QED  BY <1>1, <1>2, <1>4 DEF Underway

(* Every step keeps the invariant. *)
LEMMA NextUnderway == Underway /\ [Next]_vars => Underway'
<1> SUFFICES ASSUME Underway, [Next]_vars PROVE Underway'
  OBVIOUS
<1>1. ASSUME NEW c \in Calls, Client(c) PROVE Underway'
  BY <1>1, ClientUnderway, ConnectedUnderway
<1>2. CASE Platform
  BY <1>2, RefusedUnderway, DispatchUnderway, GivenUpUnderway, DeathUnderway DEF Platform
<1>3. CASE Service
  <2>1. CASE ServiceRejects
    BY <2>1, RespondUnderway DEF ServiceRejects, Bodies
  <2>2. CASE ServiceAnswers
    BY <2>2, RespondUnderway DEF ServiceAnswers
  <2> QED  BY <1>3, <2>1, <2>2, ExecuteUnderway DEF Service
<1>4. CASE Tick \/ UNCHANGED vars
  <2>1. TypeOK'
    BY NextTyped DEF Underway
  <2>2. UNCHANGED service /\ UNCHANGED <<pc, outcome, reply>>
    BY <1>4 DEF Tick, vars, thread
  <2>3. OneRequest' /\ ExecutedWhenServed' /\ \A c : Quiet(c) => Quiet(c)'
    BY <2>2, ServiceKept DEF Underway
  <2>4. QuietWhileSending' /\ RepliesAreTrue'
    BY <2>2, <2>3 DEF Underway, QuietWhileSending, RepliesAreTrue, service
  <2> QED  BY <2>1, <2>3, <2>4 DEF Underway
<1> QED  BY <1>1, <1>2, <1>3, <1>4 DEF Next

(* The inductive invariant: a call has at most one request underway, none  *)
(* while it may send another, and was executed when it is being served.    *)
THEOREM Invariance == Spec => []Underway
  BY InitUnderway, NextUnderway, PTL DEF Spec

-----------------------------------------------------------------------------
(* The promise.                                                            *)

(* What a step of a client tells its caller. *)
LEMMA ClientTells ==
  ASSUME Underway, NEW c \in Calls, Client(c), outcome' # outcome
  PROVE  /\ outcome[c] = "pending"
         /\ \E v \in Outcomes \ {"pending"} :
              /\ outcome' = [outcome EXCEPT ![c] = v]
              /\ v \in {"result", "protocol"} => executions[c] = 1
              /\ v = "invalid" => executions[c] = 0
<1>1. outcome \in [Calls -> Outcomes]
  BY DEF Underway, TypeOK, ThreadOK, Outcomes
<1>2. ASSUME NEW v \in Outcomes \ {"pending"}, End(c, v),
             v \in {"result", "protocol"} => executions[c] = 1,
             v = "invalid" => executions[c] = 0
      PROVE  /\ outcome[c] = "pending"
             /\ \E w \in Outcomes \ {"pending"} :
                  /\ outcome' = [outcome EXCEPT ![c] = w]
                  /\ w \in {"result", "protocol"} => executions[c] = 1
                  /\ w = "invalid" => executions[c] = 0
  <2>1. outcome[c] = "pending"
    BY <1>1, <1>2 DEF End
  <2>2. outcome' = [outcome EXCEPT ![c] = v]
    BY <2>1, <1>2 DEF End
  <2> QED  BY <1>2, <2>1, <2>2
<1>3. CASE Refuse(c)
  <2>1. executions[c] = 0
    BY <1>3 DEF Refuse, NextCall, Underway, QuietWhileSending, Sending, Quiet
  <2> QED  BY <1>2, <1>3, <2>1 DEF Refuse, Outcomes
<1>4. CASE ReceiveBody(c)
  <2>1. executions[c] = 1
    BY <1>4 DEF ReceiveBody, Bodies, Underway, RepliesAreTrue
  <2> QED  BY <1>2, <1>4, <2>1 DEF ReceiveBody, Outcomes, Failures
<1>5. CASE FetchFails(c) \/ ExpiryUnreadable(c) \/ DeadlineExpired(c) \/ ReceiveError(c)
           \/ TimesOut(c) \/ ConnectionFails(c)
  <2>1. \E v \in Failures : End(c, v)
    BY <1>5 DEF FetchFails, ExpiryUnreadable, DeadlineExpired, ReceiveError, TimesOut,
       ConnectionFails, Failures
  <2> QED  BY <1>2, <2>1 DEF Failures, Outcomes
<1>6. CASE Cancel(c)
  <2>1. outcome[c] = "pending" /\ outcome' = [outcome EXCEPT ![c] = "cancelled"]
    BY <1>6 DEF Cancel
  <2>2. "cancelled" \in Outcomes \ {"pending"}
    BY DEF Outcomes
  <2> QED  BY <2>1, <2>2
<1>7. CASE Begin(c) \/ UseCached(c) \/ StartFetch(c) \/ Fetch(c) \/ StoreToken(c)
           \/ StoreExpiry(c) \/ Wake(c) \/ LookupEnds(c) \/ Send(c) \/ Retry(c)
  BY <1>7 DEF Begin, UseCached, StartFetch, Fetch, StoreToken, StoreExpiry, Wake, LookupEnds,
     Send, Grant, Retry, GoTo, SetDeadline, Nap
<1>8. CASE NextAddress(c) \/ Connected(c) \/ Trickle(c) \/ Redirect(c) \/ RedirectAnswered(c)
  BY <1>8 DEF NextAddress, Connected, Trickle, Redirect, RedirectAnswered
<1> QED  BY <1>3, <1>4, <1>5, <1>6, <1>7, <1>8 DEF Client, IdentityToken, Transport, Network

(* Only the service executes, and only a client tells its caller. *)
LEMMA OthersKeep ==
  ASSUME Platform \/ ServiceRejects \/ ServiceAnswers \/ Tick
  PROVE  UNCHANGED <<executions, outcome>>
  BY DEF Platform, PlatformRefuses, Dispatch, PlatformGivesUp, InstanceDies, ServiceRejects,
     ServiceAnswers, Respond, Replies, Tick, thread, service

(* Every step is one of AtMostOnce or leaves its variables alone. *)
LEMMA StepKeepsPromise ==
  ASSUME Underway, [Next]_vars
  PROVE  [Promise!Next]_(Promise!vars)
<1> DEFINE verdict == [c \in Calls |-> Verdict(c)]
<1>1. ASSUME UNCHANGED <<executions, outcome>> PROVE UNCHANGED Promise!vars
  BY <1>1 DEF Promise!vars, Verdict
<1>2. ASSUME NEW c \in Calls, Client(c), outcome' # outcome PROVE Promise!Next
  <2>1. PICK v \in Outcomes \ {"pending"} :
          /\ outcome' = [outcome EXCEPT ![c] = v]
          /\ v \in {"result", "protocol"} => executions[c] = 1
          /\ v = "invalid" => executions[c] = 0
    BY <1>2, ClientTells
  <2>2. executions' = executions /\ outcome[c] = "pending" /\ outcome \in [Calls -> Outcomes]
    BY <1>2, ClientTells, ClientServes DEF Connected, service, Underway, TypeOK, ThreadOK, Outcomes
  <2> DEFINE answer == IF v \in {"result", "protocol"} THEN "result"
                       ELSE IF v = "invalid" THEN "refused" ELSE "unknown"
  <2>3. Verdict(c)' = answer /\ \A d \in Calls \ {c} : Verdict(d)' = Verdict(d)
    BY <2>1, <2>2 DEF Verdict
  <2>4. verdict' = [verdict EXCEPT ![c] = answer]
    BY <2>3
  <2>5. verdict[c] = "open"
    BY <2>2 DEF Verdict
  <2>6. Promise!Decide(c, answer)
    BY <2>2, <2>4, <2>5 DEF Promise!Decide
  <2>7. Promise!Answer(c) \/ Promise!Refuse(c) \/ Promise!GiveUp(c)
    BY <2>1, <2>6 DEF Promise!Answer, Promise!Refuse, Promise!GiveUp
  <2> QED  BY <2>7 DEF Promise!Next
<1>3. ASSUME NEW c \in Calls, Client(c), outcome' = outcome PROVE UNCHANGED Promise!vars
  BY <1>1, <1>3, ClientServes DEF Connected, service
<1>4. CASE ServiceExecutes
  <2>1. PICK c \in Calls : /\ executions[c] = 0 /\ outcome[c] # "invalid"
                           /\ executions' = [executions EXCEPT ![c] = 1]
    BY <1>4, ExecuteUnderway
  <2>2. UNCHANGED outcome
    BY <1>4 DEF ServiceExecutes, thread
  <2>3. verdict' = verdict /\ verdict[c] # "refused"
    BY <2>1, <2>2 DEF Verdict
  <2>4. Promise!Execute(c)
    BY <2>1, <2>3 DEF Promise!Execute
  <2> QED  BY <2>4 DEF Promise!Next
<1>5. CASE Platform \/ ServiceRejects \/ ServiceAnswers \/ Tick
  BY <1>1, <1>5, OthersKeep
<1>6. CASE UNCHANGED vars
  BY <1>1, <1>6 DEF vars, thread, service
<1> QED  BY <1>2, <1>3, <1>4, <1>5, <1>6 DEF Next, Service

(* The client, the platform and the service together execute a candidate   *)
(* at most once per call, for any retries and any timeouts, and a result   *)
(* is only ever that of an execution.                                      *)
THEOREM KeepsAtMostOnceHolds == Spec => KeepsAtMostOnce
<1>1. Init => Promise!Init
  BY DEF Init, Promise!Init, Verdict
<1>2. Underway /\ [Next]_vars => [Promise!Next]_(Promise!vars)
  BY StepKeepsPromise
<1> QED  BY <1>1, <1>2, Invariance, PTL DEF Spec, KeepsAtMostOnce, Promise!Spec

-----------------------------------------------------------------------------
(* The token cache.                                                        *)

Fetching == {"fetch", "store", "expiry"}

(* A step of a client outside _identity_token does not lead into it. *)
LEMMA OutsideStep ==
  ASSUME TypeOK, NEW c \in Calls, Client(c), ~IdentityToken(c), ~Begin(c)
  PROVE  UNCHANGED cache /\ (pc'[c] \notin InToken \/ pc'[c] = pc[c])
<1>1. DOMAIN pc = Calls
  BY DEF TypeOK, ThreadOK
<1>2. CASE Refuse(c) \/ Cancel(c)
  BY <1>1, <1>2 DEF Refuse, Cancel, End, InToken
<1>3. CASE Network(c)
  BY <1>1, <1>3 DEF Network, NextAddress, Connected, Trickle, RedirectAnswered, ConnectionFails,
     End, InToken
<1>4. CASE Transport(c)
  BY <1>1, <1>4 DEF Transport, Send, Grant, DeadlineExpired, ReceiveBody, Retry, Nap, ReceiveError,
     Wake, LookupEnds, Redirect, TimesOut, End, GoTo, InToken
<1> QED  BY <1>2, <1>3, <1>4 DEF Client

(* A step of a client outside _identity_token. *)
LEMMA OutsideKeepsCache ==
  ASSUME TypeOK, CacheIsSafe, NEW c \in Calls, Client(c), ~IdentityToken(c), ~Begin(c)
  PROVE  CacheIsSafe'
<1>1. UNCHANGED cache /\ (pc'[c] \notin InToken \/ pc'[c] = pc[c])
  BY OutsideStep
<1>2. UNCHANGED cache
  BY <1>1
<1>3. \A d \in Calls : pc'[d] \notin InToken \/ pc'[d] = pc[d]
  BY <1>1, ClientLocal
<1> QED  BY <1>2, <1>3 DEF CacheIsSafe, cache, InToken

(* A thread may enter only an empty _identity_token without an overlap. *)
LEMMA BeginKeepsCache ==
  ASSUME TypeOK, CacheIsSafe, NEW c \in Calls, Begin(c)
  PROVE  CacheIsSafe'
<1>1. \A d \in Calls : d # c => pc'[d] = pc[d]
  BY ClientLocal DEF Client
<1>2. pc'[c] \in {"token", "send"} /\ UNCHANGED <<token, cachedLife, assumedLife>>
  BY DEF Begin, GoTo, SetDeadline, TypeOK, ThreadOK
<1> SUFFICES ASSUME ~overlapped' PROVE CacheIsSafe'
  BY DEF CacheIsSafe
<1>3. ~overlapped /\ \A d \in Calls : pc[d] \notin InToken
  BY DEF Begin
<1> QED  BY <1>1, <1>2, <1>3 DEF CacheIsSafe, InToken

(* The steps of _identity_token. *)
LEMMA TokenKeepsCache ==
  ASSUME TypeOK, TypeOK', CacheIsSafe, NEW c \in Calls, IdentityToken(c)
  PROVE  CacheIsSafe'
<1> USE Bounds
<1>1. overlapped' = overlapped
  BY DEF IdentityToken, UseCached, StartFetch, Fetch, FetchFails, StoreToken, StoreExpiry,
     ExpiryUnreadable, cache
<1> SUFFICES ASSUME ~overlapped PROVE CacheIsSafe'
  BY <1>1 DEF CacheIsSafe
<1>2. pc[c] \in InToken
  BY DEF IdentityToken, UseCached, StartFetch, Fetch, FetchFails, StoreToken, StoreExpiry,
     ExpiryUnreadable, InToken
<1>3. \A d \in Calls : d # c => pc[d] \notin InToken /\ pc'[d] = pc[d]
  BY <1>2, ClientLocal DEF CacheIsSafe, Client
<1>4. /\ assumedLife \in Nat /\ cachedLife \in Nat /\ token \in [Calls -> [life : Nat, assumed : Nat]]
      /\ DOMAIN pc = Calls
  BY DEF TypeOK, ThreadOK, CacheOK
<1>5. /\ assumedLife > Margin => cachedLife >= assumedLife
      /\ pc[c] \in Fetching => assumedLife <= Margin
      /\ pc[c] = "fetch" => token[c].assumed <= Fallback
      /\ pc[c] \in {"store", "expiry"} => token[c].assumed <= token[c].life
      /\ pc[c] = "expiry" => cachedLife = token[c].life
  BY DEF CacheIsSafe, Fetching
<1>6. SUFFICES /\ assumedLife' > Margin => cachedLife' >= assumedLife'
               /\ pc'[c] \in Fetching => assumedLife' <= Margin
               /\ pc'[c] = "fetch" => token'[c].assumed <= Fallback
               /\ pc'[c] \in {"store", "expiry"} => token'[c].assumed <= token'[c].life
               /\ pc'[c] = "expiry" => cachedLife' = token'[c].life
  BY <1>3 DEF CacheIsSafe, InToken, Fetching
<1>7. CASE UseCached(c)
  BY <1>4, <1>5, <1>7 DEF UseCached, SetDeadline, cache, Fetching
<1>8. CASE StartFetch(c)
  BY <1>4, <1>5, <1>8 DEF StartFetch, GoTo, Fetching
<1>9. CASE Fetch(c)
  <2>1. /\ pc' = [pc EXCEPT ![c] = "store"] /\ UNCHANGED <<cachedLife, assumedLife>>
        /\ pc[c] = "fetch"
    BY <1>9 DEF Fetch, GoTo
  <2>2. token'[c].assumed <= token'[c].life
    <3>1. CASE \E life \in 0..Lifetime :
            token' = [token EXCEPT ![c] = [life |-> life, assumed |-> life]]
      BY <1>4, <3>1
    <3>2. CASE \E life \in Fallback..Lifetime :
            token' = [token EXCEPT ![c] = [life |-> life, assumed |-> @.assumed]]
      <4>1. PICK life \in Fallback..Lifetime :
              token' = [token EXCEPT ![c] = [life |-> life, assumed |-> @.assumed]]
        BY <3>2
      <4>2. token'[c].life = life /\ token'[c].assumed = token[c].assumed
        BY <1>4, <4>1
      <4>3. token[c].assumed <= Fallback /\ token[c].assumed \in Nat
        BY <1>4, <1>5, <2>1
      <4> QED  BY <4>2, <4>3
    <3> QED  BY <1>9, <3>1, <3>2 DEF Fetch
  <2> QED  BY <1>4, <1>5, <2>1, <2>2 DEF Fetching
<1>10. CASE StoreToken(c)
  BY <1>4, <1>5, <1>10 DEF StoreToken, GoTo, Fetching
<1>11. CASE StoreExpiry(c)
  BY <1>4, <1>5, <1>11 DEF StoreExpiry, SetDeadline, Fetching
<1>12. CASE FetchFails(c) \/ ExpiryUnreadable(c)
  <2>1. pc'[c] = "over" /\ UNCHANGED <<cachedLife, assumedLife>>
    BY <1>4, <1>12 DEF FetchFails, ExpiryUnreadable, End
  <2> QED  BY <1>5, <2>1 DEF Fetching
<1> QED  BY <1>7, <1>8, <1>9, <1>10, <1>11, <1>12 DEF IdentityToken

(* Tokens age, and so does what the cache assumes of them. *)
LEMMA AgeKeepsCache ==
  ASSUME TypeOK, CacheIsSafe, Tick
  PROVE  CacheIsSafe'
<1>1. /\ \A c \in Calls : token[c].life \in Nat /\ token[c].assumed \in Nat
      /\ assumedLife \in Nat /\ cachedLife \in Nat
  BY Bounds DEF TypeOK, CacheOK
<1>2. /\ \A c \in Calls : /\ token'[c].life = Max0(token[c].life - 1)
                          /\ token'[c].assumed = Max0(token[c].assumed - 1)
      /\ cachedLife' = Max0(cachedLife - 1) /\ assumedLife' = Max0(assumedLife - 1)
      /\ UNCHANGED <<pc, overlapped>>
  BY DEF Tick
<1>3. \A m, n \in Nat : m <= n => Max0(m - 1) <= n /\ Max0(m - 1) <= Max0(n - 1)
  BY DEF Max0
<1>4. \A c \in Calls : pc[c] \notin {"store", "expiry"}
  BY DEF Tick, Ready
<1>5. assumedLife' > Margin => assumedLife > Margin
  BY <1>1, <1>2, Bounds DEF Max0
<1> QED  BY <1>1, <1>2, <1>3, <1>4, <1>5, Bounds DEF CacheIsSafe

(* Every step keeps the cache safe. *)
LEMMA CacheStep == TypeOK /\ CacheIsSafe /\ [Next]_vars => CacheIsSafe'
<1> SUFFICES ASSUME TypeOK, CacheIsSafe, [Next]_vars PROVE CacheIsSafe'
  OBVIOUS
<1>1. ASSUME NEW c \in Calls, Client(c) PROVE CacheIsSafe'
  <2>1. TypeOK'
    BY <1>1, ClientTyped
  <2> QED  BY <1>1, <2>1, OutsideKeepsCache, BeginKeepsCache, TokenKeepsCache
<1>2. CASE Platform \/ Service \/ UNCHANGED vars
  <2>1. UNCHANGED <<pc, token, cachedLife, assumedLife, overlapped>>
    BY <1>2 DEF Platform, PlatformRefuses, Dispatch, PlatformGivesUp, InstanceDies, Service,
       ServiceRejects, ServiceExecutes, ServiceAnswers, Respond, Replies, thread, cache, vars
  <2> QED  BY <2>1 DEF CacheIsSafe
<1> QED  BY <1>1, <1>2, AgeKeepsCache DEF Next

(* A token taken from the cache has more than the margin left, unless two  *)
(* threads were in _identity_token at once.                                *)
THEOREM TokenOutlivesMarginHolds == Spec => TokenOutlivesMargin
<1>1. Init => CacheIsSafe
  BY Bounds DEF Init, CacheIsSafe, InToken
<1>2. TypeOK /\ CacheIsSafe /\ [Next]_vars
        => [\A c \in Calls : pc[c] = "token" /\ pc'[c] = "send"
              => overlapped \/ cachedLife > Margin]_vars
  <2> SUFFICES ASSUME TypeOK, CacheIsSafe, Next, NEW c \in Calls, pc[c] = "token", pc'[c] = "send",
                      ~overlapped
               PROVE  cachedLife > Margin
    OBVIOUS
  <2>1. Client(c)
    <3>1. ASSUME NEW d \in Calls, d # c, Client(d) PROVE FALSE
      BY <3>1, ClientLocal
    <3>2. ~Platform /\ ~Service /\ ~Tick
      BY DEF Platform, PlatformRefuses, Dispatch, PlatformGivesUp, InstanceDies, Service,
         ServiceRejects, ServiceExecutes, ServiceAnswers, Respond, Replies, thread, Tick
    <3> QED  BY <3>1, <3>2 DEF Next
  <2>2. UseCached(c)
    <3>1. DOMAIN pc = Calls
      BY DEF TypeOK, ThreadOK
    <3>2. ~Refuse(c) /\ ~Begin(c) /\ ~Cancel(c)
      BY <3>1 DEF Refuse, NextCall, Begin, Cancel
    <3>3. ~Transport(c)
      BY DEF Transport, Send, DeadlineExpired, ReceiveBody, Retry, ReceiveError, Wake, LookupEnds,
         Redirect, TimesOut
    <3>4. ~Network(c)
      BY <3>1 DEF Network, NextAddress, Connected, Trickle, RedirectAnswered, ConnectionFails, End
    <3> QED  BY <2>1, <3>1, <3>2, <3>3, <3>4 DEF Client, IdentityToken, StartFetch, Fetch,
           FetchFails, StoreToken, StoreExpiry, ExpiryUnreadable, GoTo, End
  <2>3. assumedLife > Margin /\ cachedLife \in Nat /\ assumedLife \in Nat
    BY <2>2, Bounds DEF UseCached, TypeOK, CacheOK
  <2> QED  BY <2>3, Bounds DEF CacheIsSafe
<1> QED  BY <1>1, <1>2, CacheStep, TypeCorrect, PTL DEF Spec, TokenOutlivesMargin

-----------------------------------------------------------------------------
(* The deadline.                                                           *)

(* What TimersMeetDeadline asks of one thread. *)
MeetsDeadline(c) ==
  /\ overrun[c] >= 0
  /\ pc[c] \in InTransport => left[c] >= -overrun[c]
  /\ pc[c] \in {"lookup", "connect", "wait"} =>
       timer[c] <= left[c] + overrun[c] /\ timer[c] <= granted[c]
  /\ pc[c] = "sleep" => timer[c] <= Max0(left[c])

(* A step of a client keeps its own timer within what the deadline leaves. *)
LEMMA ClientMeetsDeadline ==
  ASSUME TypeOK, NEW c \in Calls, MeetsDeadline(c), Client(c)
  PROVE  MeetsDeadline(c)'
<1> USE Bounds
<1>1. /\ DOMAIN pc = Calls /\ DOMAIN left = Calls /\ DOMAIN timer = Calls
      /\ DOMAIN overrun = Calls /\ DOMAIN granted = Calls
      /\ left[c] \in Int /\ timer[c] \in 0..Budget /\ granted[c] \in 0..Budget
      /\ overrun[c] \in Int /\ attempt[c] \in 0..Retries
  BY DEF TypeOK, ThreadOK
<1>2. ASSUME NEW v, End(c, v) PROVE MeetsDeadline(c)'
  <2>1. pc'[c] = "over" /\ overrun'[c] = 0
    BY <1>1, <1>2 DEF End
  <2> QED  BY <2>1 DEF MeetsDeadline, InTransport
<1>3. CASE Refuse(c) \/ FetchFails(c) \/ ExpiryUnreadable(c) \/ DeadlineExpired(c)
           \/ ReceiveBody(c) \/ ReceiveError(c) \/ TimesOut(c) \/ ConnectionFails(c)
  <2>1. \E v : End(c, v)
    BY <1>3 DEF Refuse, FetchFails, ExpiryUnreadable, DeadlineExpired, ReceiveBody,
       ReceiveError, TimesOut, ConnectionFails
  <2> QED  BY <1>2, <2>1
<1>4. CASE Begin(c) \/ UseCached(c) \/ StoreExpiry(c) \/ StartFetch(c) \/ Fetch(c) \/ StoreToken(c)
  <2>1. SetDeadline(c) \/ GoTo(c, "token") \/ GoTo(c, "fetch") \/ GoTo(c, "store") \/ GoTo(c, "expiry")
    BY <1>4 DEF Begin, UseCached, StoreExpiry, StartFetch, Fetch, StoreToken
  <2>2. /\ overrun'[c] = overrun[c]
        /\ \/ pc'[c] \in {"token", "fetch", "store", "expiry"}
           \/ pc'[c] = "send" /\ left'[c] = Budget
    BY <1>1, <2>1 DEF SetDeadline, GoTo, request
  <2> QED  BY <1>1, <2>2 DEF MeetsDeadline, InTransport
<1>5. CASE Send(c)
  <2>1. /\ left[c] > 0 /\ pc'[c] = "lookup" /\ overrun'[c] = 0
        /\ timer'[c] = left[c] /\ granted'[c] = left[c] /\ left'[c] = left[c]
    BY <1>1, <1>5 DEF Send, Grant
  <2> QED  BY <1>1, <2>1 DEF MeetsDeadline
<1>6. CASE Retry(c)
  <2> DEFINE d == Delay * 2^attempt[c]
             nap == Lesser(d, Max0(left[c]))
  <2>1. pc[c] = "wait" /\ Nap(c, nap) /\ d \in Nat
    BY <1>1, <1>6, BrokerAssumption DEF Retry
  <2> HIDE DEF d
  <2>2. nap <= Max0(left[c])
    BY <1>1, <2>1 DEF Lesser, Max0
  <2> HIDE DEF nap
  <2>3. pc'[c] = "sleep" /\ timer'[c] = nap /\ left'[c] = left[c] /\ overrun'[c] = overrun[c]
    BY <1>1, <2>1 DEF Nap
  <2> QED  BY <2>1, <2>2, <2>3 DEF MeetsDeadline, InTransport
<1>7. CASE Wake(c) \/ LookupEnds(c) \/ Cancel(c) \/ RedirectAnswered(c)
  <2>1. /\ UNCHANGED <<left, timer, granted, overrun>>
        /\ \/ pc'[c] = pc[c]
           \/ pc[c] = "sleep" /\ pc'[c] = "send"
           \/ pc[c] = "lookup" /\ pc'[c] = "connect"
    BY <1>1, <1>7 DEF Wake, LookupEnds, Cancel, RedirectAnswered, GoTo, request
  <2> QED  BY <2>1 DEF MeetsDeadline, InTransport
<1>8. CASE NextAddress(c) \/ Connected(c) \/ Trickle(c) \/ Redirect(c)
  <2>1. /\ pc[c] \in {"connect", "wait"} /\ pc'[c] \in {"lookup", "connect", "wait"}
        /\ left'[c] = left[c] /\ granted'[c] = granted[c] /\ timer'[c] = granted[c]
        /\ overrun'[c] = overrun[c] + (granted[c] - timer[c])
    BY <1>1, <1>8 DEF NextAddress, Connected, Trickle, Redirect, Restart
  <2>2. timer[c] <= left[c] + overrun[c] /\ timer[c] <= granted[c] /\ overrun[c] >= 0
    BY <2>1 DEF MeetsDeadline
  <2> QED  BY <1>1, <2>1, <2>2 DEF MeetsDeadline
<1> QED  BY <1>3, <1>4, <1>5, <1>6, <1>7, <1>8 DEF Client, IdentityToken, Transport, Network

(* So does time. *)
LEMMA TickMeetsDeadline ==
  ASSUME TypeOK, NEW c \in Calls, MeetsDeadline(c), Tick
  PROVE  MeetsDeadline(c)'
<1>1. left[c] \in Int /\ timer[c] \in Nat /\ overrun[c] \in Int /\ granted[c] \in Nat
  BY Bounds DEF TypeOK, ThreadOK
<1>2. pc' = pc /\ granted' = granted /\ pc[c] # "send" /\ (Counting(c) => timer[c] > 0)
  BY DEF Tick, Ready
<1>3. /\ timer'[c] = IF Counting(c) THEN timer[c] - 1 ELSE timer[c]
      /\ overrun'[c] = IF pc[c] = "lookup" THEN overrun[c] + 1 ELSE overrun[c]
      /\ left'[c] = left[c] - Passed(c)
  BY DEF Tick
<1>4. CASE pc[c] = "lookup"
  BY <1>1, <1>2, <1>3, <1>4 DEF MeetsDeadline, Counting, Passed, InTransport
<1>5. CASE pc[c] \in {"connect", "wait"}
  BY <1>1, <1>2, <1>3, <1>5 DEF MeetsDeadline, Counting, Passed, InTransport
<1>6. CASE pc[c] = "sleep"
  BY <1>1, <1>2, <1>3, <1>6 DEF MeetsDeadline, Counting, Passed, InTransport, Max0
<1>7. CASE pc[c] \notin InTransport
  BY <1>1, <1>2, <1>3, <1>7 DEF MeetsDeadline, InTransport
<1> QED  BY <1>2, <1>4, <1>5, <1>6, <1>7 DEF InTransport

(* Every step keeps the timers within what the deadline leaves. *)
LEMMA DeadlineStep == TypeOK /\ TimersMeetDeadline /\ [Next]_vars => TimersMeetDeadline'
<1> SUFFICES ASSUME TypeOK, TimersMeetDeadline, [Next]_vars, NEW d \in Calls
             PROVE  MeetsDeadline(d)'
  BY DEF TimersMeetDeadline, MeetsDeadline
<1>1. MeetsDeadline(d)
  BY DEF TimersMeetDeadline, MeetsDeadline
<1>2. ASSUME NEW c \in Calls, Client(c) PROVE MeetsDeadline(d)'
  <2>1. CASE c = d
    BY <1>1, <1>2, <2>1, ClientMeetsDeadline
  <2>2. CASE c # d
    BY <1>1, <1>2, <2>2, ClientLocal DEF MeetsDeadline
  <2> QED  BY <2>1, <2>2
<1>3. CASE Platform \/ Service \/ UNCHANGED vars
  <2>1. UNCHANGED <<pc, granted, overrun, left, timer>>
    BY <1>3 DEF Platform, PlatformRefuses, Dispatch, PlatformGivesUp, InstanceDies, Service,
       ServiceRejects, ServiceExecutes, ServiceAnswers, Respond, Replies, request, thread, vars
  <2> QED  BY <1>1, <2>1 DEF MeetsDeadline
<1>4. CASE Tick
  BY <1>1, <1>4, TickMeetsDeadline
<1> QED  BY <1>2, <1>3, <1>4 DEF Next

(* A thread is past its deadline by no more than its last request took     *)
(* before its last operation, whatever the retries, the delay, the budget, *)
(* the addresses of the host and the progress of the socket.               *)
THEOREM LateByLastRequestHolds == Spec => []LateByLastRequest
<1>1. Init => TimersMeetDeadline
  BY DEF Init, TimersMeetDeadline, InTransport
<1>2. TimersMeetDeadline => LateByLastRequest
  BY DEF TimersMeetDeadline, LateByLastRequest
<1> QED  BY <1>1, <1>2, DeadlineStep, TypeCorrect, PTL DEF Spec

=============================================================================
