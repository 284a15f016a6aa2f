----------------------------- MODULE RateLimiter -----------------------------
(***************************************************************************)
(* The in-memory fixed-window rate limiter of the web process and the      *)
(* middleware that guards a route with a per-IP ceiling followed by a      *)
(* per-IP-and-address limit: internal/server/rate_limit.go.                *)
(*                                                                         *)
(* Allow runs under a mutex and is one step.  withRateLimits reads the     *)
(* clock once, before the first Allow, so a request that is held up calls  *)
(* Allow with a reading that is out of date; a reading may be MaxDelay     *)
(* ticks old.                                                              *)
(*                                                                         *)
(* Times are relative to the present: an entry stores how long its window  *)
(* is still open (left = ResetAt - now), a request how old its reading is. *)
(* So no clock is needed, and the state space is finite without a bound on *)
(* the number of ticks.                                                    *)
(***************************************************************************)
EXTENDS Integers, Sequences, FiniteSets, FiniteSetsExt

CONSTANTS
    IPs,            \* client addresses
    Emails,         \* normalised addresses in the form
    Requests,       \* requests that may be in the middleware together
    MaxRequests,    \* MaxRequests[p] : Policy.MaxRequests of policy p
    Window,         \* Window[p] : Policy.Window of policy p, in ticks
    MaxEntries,     \* maxRateLimitEntries
    CleanupEvery,   \* cleanupEveryNRateLimitCalls
    MaxDelay        \* bound: age of a clock reading when it is used

Policies == {"ip", "ip_email"}

\* ratelimit.Resolve leaves no policy without a positive limit and window.
ASSUME LimiterAssumption ==
    /\ MaxRequests \in [Policies -> Nat \ {0}]
    /\ Window \in [Policies -> Nat \ {0}]
    /\ MaxEntries \in Nat \ {0} /\ CleanupEvery \in Nat \ {0}
    /\ MaxDelay \in Nat
    /\ \A p \in Policies : MaxDelay < Window[p]

VARIABLES
    entries,    \* fixedWindowRateLimiter.entries; only keys of the map
    calls,      \* fixedWindowRateLimiter.calls
    req,        \* req[r] : request r in the middleware
    log,        \* history: log[b][n] : requests bucket b admitted less than n ticks ago
    passed      \* history: passed[ip][n] : the same for the narrow limits of a client

vars == <<entries, calls, req, log, passed>>

-----------------------------------------------------------------------------
\* Bucket keys: policy name and key.  A form without a valid address is keyed
\* by the IP alone, which NoEmail stands for.
NoEmail == "no email"
Bucket == [policy : {"ip"}, ip : IPs, email : {NoEmail}]
            \cup [policy : {"ip_email"}, ip : IPs, email : Emails \cup {NoEmail}]

LongestWindow == Max({Window[p] : p \in Policies})
Spans == 0..(LongestWindow + MaxDelay)

Entry == [count : Nat, left : -MaxDelay..LongestWindow]

\* Mutant: the narrow limit is asked first.
NarrowFirst == <<"ip_email", "ip">>

\* The limits of a guarded route, in the order they are asked.
Specs == <<"ip", "ip_email">>

\* next: the position in Specs of the limit to ask next.
Request == [pc : {"limit", "served", "refused"}, next : DOMAIN Specs,
            ip : IPs, email : Emails \cup {NoEmail}, age : 0..MaxDelay]

\* The shape of the state: the map is never larger than its limit and no count
\* passes its policy's.
TypeOK ==
    /\ DOMAIN entries \subseteq Bucket
    /\ Cardinality(DOMAIN entries) <= MaxEntries
    /\ \A b \in DOMAIN entries :
          entries[b] \in Entry /\ entries[b].count \in 1..MaxRequests[b.policy]
    /\ calls \in 0..(CleanupEvery - 1)
    /\ DOMAIN req \subseteq Requests /\ \A r \in DOMAIN req : req[r] \in Request
    /\ log \in [Bucket -> [Spans -> Nat]]
    /\ passed \in [IPs -> [Spans -> Nat]]

-----------------------------------------------------------------------------

Init ==
    /\ entries = [b \in {} |-> 0]
    /\ calls = 0
    /\ req = [r \in {} |-> 0]
    /\ log = [b \in Bucket |-> [n \in Spans |-> 0]]
    /\ passed = [ip \in IPs |-> [n \in Spans |-> 0]]

\* A history a tick later, and after one more admission.
Older(h) == [n \in Spans |-> IF n = 0 THEN 0 ELSE h[n - 1]]
OneMore(h) == [n \in Spans |-> IF n = 0 THEN 0 ELSE h[n] + 1]

\* Time passes, for windows and for readings alike.  Below -MaxDelay a window is
\* over for every reading, and older admissions are forgotten.
Tick ==
    /\ \A r \in DOMAIN req : req[r].pc = "limit" => req[r].age < MaxDelay
    /\ entries' = [b \in DOMAIN entries |->
                     [count |-> entries[b].count,
                      left |-> Max({entries[b].left - 1, -MaxDelay})]]
    /\ req' = [r \in DOMAIN req |->
                 IF req[r].pc = "limit" THEN [req[r] EXCEPT !.age = @ + 1] ELSE req[r]]
    /\ log' = [b \in Bucket |-> Older(log[b])]
    /\ passed' = [ip \in IPs |-> Older(passed[ip])]
    /\ UNCHANGED calls

\* A request enters the middleware and reads the clock.
Arrive(r, ip, email) ==
    /\ r \notin DOMAIN req
    /\ req' = [s \in DOMAIN req \cup {r} |->
                 IF s = r THEN [pc |-> "limit", next |-> 1, ip |-> ip,
                                email |-> email, age |-> 0]
                 ELSE req[s]]
    /\ UNCHANGED <<entries, calls, log, passed>>

-----------------------------------------------------------------------------
(* Allow.                                                                  *)

\* Mutant: the window is open up to and including ResetAt.
ResetLater(e, age) == e.left + age < 0

\* !now.Before(entry.ResetAt), for a reading of this age
Expired(e, age) == e.left + age <= 0

\* cleanupExpired, every CleanupEvery calls
AfterCleanup(age) ==
    IF calls + 1 < CleanupEvery THEN entries
    ELSE [b \in {c \in DOMAIN entries : ~Expired(entries[c], age)} |-> entries[b]]

\* A reservation of the bucket: the map with bucket b set to entry e.
Store(map, b, e) == [c \in DOMAIN map \cup {b} |-> IF c = b THEN e ELSE map[c]]

\* The limit's key function on request r, under the limit's name.
Key(r) ==
    LET p == Specs[req[r].next] IN
    [policy |-> p, ip |-> req[r].ip,
     email |-> IF p = "ip" THEN NoEmail ELSE req[r].email]

\* What Allow leaves of the entry for bucket b when it admits the request.
Opened(b, age) == [count |-> 1, left |-> Window[b.policy] - age]
Counted(e) == [count |-> e.count + 1, left |-> e.left]

\* Mutant: one request too many.
AtMost(map, b, age) ==
    IF b \notin DOMAIN map THEN Cardinality(DOMAIN map) < MaxEntries
    ELSE Expired(map[b], age) \/ map[b].count <= MaxRequests[b.policy]

\* Mutant: the map has no limit.
NoCapacity(map, b, age) ==
    b \notin DOMAIN map \/ Expired(map[b], age) \/ map[b].count < MaxRequests[b.policy]

\* A new bucket needs room in the map, an old one an expired or unfilled window.
Admits(map, b, age) ==
    IF b \notin DOMAIN map THEN Cardinality(DOMAIN map) < MaxEntries
    ELSE Expired(map[b], age) \/ map[b].count < MaxRequests[b.policy]

\* One call of Allow.  An admitted request goes on to the next limit, or to the
\* handler after the last; a refused one is answered at once.
Allow(r) ==
    LET b == Key(r)
        map == AfterCleanup(req[r].age)
    IN
    /\ r \in DOMAIN req /\ req[r].pc = "limit"
    /\ calls' = (calls + 1) % CleanupEvery
    /\ IF Admits(map, b, req[r].age)
       THEN /\ entries' = Store(map, b,
                            IF b \in DOMAIN map /\ ~Expired(map[b], req[r].age)
                            THEN Counted(map[b]) ELSE Opened(b, req[r].age))
            /\ log' = [log EXCEPT ![b] = OneMore(@)]
            /\ passed' = IF b.policy = "ip" THEN passed
                         ELSE [passed EXCEPT ![b.ip] = OneMore(@)]
            /\ req' = [req EXCEPT ![r] =
                         IF req[r].next < Len(Specs) THEN [req[r] EXCEPT !.next = @ + 1]
                         ELSE [req[r] EXCEPT !.pc = "served"]]
       ELSE /\ entries' = map
            /\ req' = [req EXCEPT ![r].pc = "refused"]
            /\ UNCHANGED <<log, passed>>

\* The handler's answer, or writeRateLimited's.
Respond(r) ==
    /\ r \in DOMAIN req /\ req[r].pc \in {"served", "refused"}
    /\ req' = [s \in DOMAIN req \ {r} |-> req[s]]
    /\ UNCHANGED <<entries, calls, log, passed>>

Next ==
    \/ Tick
    \/ \E r \in Requests :
          \/ \E ip \in IPs, email \in Emails \cup {NoEmail} : Arrive(r, ip, email)
          \/ Allow(r)
          \/ Respond(r)

Spec == Init /\ [][Next]_vars

-----------------------------------------------------------------------------
(* Correctness.                                                            *)

\* Nobody is refused on account of a window that is over: when a bucket's own
\* limit refuses a request, the bucket has admitted MaxRequests requests within
\* one window before the clock reading or since.  Otherwise the map is full of
\* other buckets.  (The reset in place and the cleanup both forget old counts.)
RefusalsAreEarned ==
    [][\A r \in DOMAIN req \cap DOMAIN req' :
          req[r].pc = "limit" /\ req'[r].pc = "refused" =>
             LET b == Key(r) IN
             \/ log[b][Window[b.policy] + req[r].age] >= MaxRequests[b.policy]
             \/ b \notin DOMAIN entries' /\ Cardinality(DOMAIN entries') = MaxEntries]_vars

\* In a stretch of one window's length, less the delay of a clock reading, a bucket
\* admits at most two windows' worth of requests: one just before a reset and one
\* just after.  A request that is held up opens a window that is over early, so
\* over the full length of a window a third window's worth may fit in.
BurstIsBounded ==
    \A b \in Bucket :
       log[b][Window[b.policy] - MaxDelay] <= 2 * MaxRequests[b.policy]

\* A client over its ceiling does not use up the narrower buckets: every request
\* those admitted was admitted by the client's ceiling before.
CeilingComesFirst ==
    \A ip \in IPs :
       passed[ip][LongestWindow]
          <= log[[policy |-> "ip", ip |-> ip, email |-> NoEmail]][LongestWindow + MaxDelay]

=============================================================================
