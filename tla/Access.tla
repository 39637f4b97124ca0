------------------------------- MODULE Access -------------------------------
(***************************************************************************)
(* Signing in and the guard of the review application: the attempt limiter *)
(* of security/ratelimit.py, the signed cookie of security/sessions.py,    *)
(* the form token of security/csrf.py and the middleware of                *)
(* security/guard.py, with one browser and a process that may restart.     *)
(*                                                                         *)
(* Time is in ticks of half a second, so that what int() cuts off is seen. *)
(* What is kept of a moment is its distance from now: the ticks an attempt *)
(* still counts, the seconds of a session. The limiter reads a monotonic  *)
(* clock, the sessions the wall clock, which may be set back.              *)
(***************************************************************************)
EXTENDS Integers, Sequences

CONSTANTS
    Clients,        \* addresses that sign in
    Attempts,       \* sign-ins that can be under way at once
    Allowed,        \* LIMITS["authentication"]: how many
    Window,         \* and in how many seconds
    Lifetime,       \* LIFETIME_SECONDS
    Skew,           \* CLOCK_SKEW_SECONDS
    KeyConfigured,  \* REVIEW_SECRET_KEY is set
    Tabs,           \* pages the browser has open
    MaxSessions,    \* bound on the sessions issued
    MaxRestarts,    \* bound on the restarts explored
    MaxBack         \* bound on the seconds the wall clock is set back

Seconds(n) == 2 * n

ASSUME AccessAssumption ==
    /\ {Allowed, Window, Lifetime} \subseteq Nat \ {0}
    /\ {Skew, MaxSessions, MaxRestarts, MaxBack} \subseteq Nat
    /\ KeyConfigured \in BOOLEAN

VARIABLES
    events,     \* Clients -> ticks each recorded attempt still counts, oldest first
    attempt,    \* Attempts -> a sign-in between its check and its answer
    key,        \* the signing key, by the restart that made it
    cookie,     \* what the browser holds
    form,       \* Tabs -> the token in the page's forms and the session it was served under
    nonces,     \* sessions issued
    restarts,
    back,       \* seconds the wall clock was set back
    half,       \* 1 in the second half of a second of the wall clock
    promise,    \* history: Clients -> ticks until the refused client may return
    admitted,   \* history: Clients -> ages of the attempts admitted since a success
    acted       \* history: <<form, session>> of the requests performed

limiter == <<events, attempt, promise, admitted>>
browser == <<cookie, form, nonces, acted>>
process == <<key, restarts, back, half>>
vars == <<limiter, browser, process>>

NoAttempt == [client |-> "", right |-> FALSE]
NoCookie == [nonce |-> 0]
NoForm == [under |-> 0]
NoPromise == -1

Init ==
    /\ events = [c \in Clients |-> <<>>]
    /\ attempt = [a \in Attempts |-> NoAttempt]
    /\ promise = [c \in Clients |-> NoPromise]
    /\ admitted = [c \in Clients |-> <<>>]
    /\ cookie = NoCookie
    /\ form = [t \in Tabs |-> NoForm]
    /\ nonces = 0
    /\ acted = {}
    /\ key = 0 /\ restarts = 0 /\ back = 0 /\ half = 0

-----------------------------------------------------------------------------
(***************************************************************************)
(* RateLimit.check and the login route around it.                          *)
(***************************************************************************)
\* What is left of s when members of S are popped from its left.
PopLeft(s, S) ==
    LET popped == CHOOSE n \in 0 .. Len(s) :
                      /\ \A i \in 1 .. n : s[i] \in S
                      /\ n < Len(s) => s[n + 1] \notin S
    IN  SubSeq(s, popped + 1, Len(s))

\* Faulty: an attempt stops counting a tick before its window is over.
CountingShort(c) == PopLeft(events[c], {0, 1})

\* Attempts that still count.
Counting(c) == PopLeft(events[c], {0})

\* Faulty: what int() cuts off is not made up for.
RetryAfterCut(live) == Head(live) \div 2

\* Seconds until the oldest one stops counting.
RetryAfter(live) == (Head(live) \div 2) + 1

\* Faulty: what is refused is recorded too.
CheckRecordingAll(c, a, right) ==
    LET live == Counting(c)
    IN  /\ attempt[a] = NoAttempt
        /\ events' = [events EXCEPT ![c] = Append(IF Len(live) < Allowed THEN live ELSE Tail(live),
                                                  Seconds(Window))]
        /\ IF Len(live) < Allowed
           THEN /\ attempt' = [attempt EXCEPT ![a] = [client |-> c, right |-> right]]
                /\ admitted' = [admitted EXCEPT ![c] = Append(@, 0)]
                /\ promise' = [promise EXCEPT ![c] = NoPromise]
           ELSE /\ promise' = [promise EXCEPT ![c] = Seconds(RetryAfter(live))]
                /\ UNCHANGED <<attempt, admitted>>
        /\ UNCHANGED <<browser, process>>

\* The check holds the limiter's lock from end to end.
Check(c, a, right) ==
    LET live == Counting(c)
    IN  /\ attempt[a] = NoAttempt
        /\ IF Len(live) < Allowed
           THEN /\ events' = [events EXCEPT ![c] = Append(live, Seconds(Window))]
                /\ attempt' = [attempt EXCEPT ![a] = [client |-> c, right |-> right]]
                /\ admitted' = [admitted EXCEPT ![c] = Append(@, 0)]
                /\ promise' = [promise EXCEPT ![c] = NoPromise]
           ELSE /\ events' = [events EXCEPT ![c] = live]
                /\ promise' = [promise EXCEPT ![c] = Seconds(RetryAfter(live))]
                /\ UNCHANGED <<attempt, admitted>>
        /\ UNCHANGED <<browser, process>>

\* The password is verified outside the lock; other sign-ins run meanwhile.
Reject(a) ==
    /\ attempt[a] # NoAttempt
    /\ ~attempt[a].right
    /\ attempt' = [attempt EXCEPT ![a] = NoAttempt]
    /\ UNCHANGED <<events, promise, admitted, browser, process>>

\* Success forgets the attempts of the address and issues a cookie.
SignIn(a) ==
    LET c == attempt[a].client
    IN  /\ attempt[a] # NoAttempt
        /\ attempt[a].right
        /\ nonces < MaxSessions
        /\ attempt' = [attempt EXCEPT ![a] = NoAttempt]
        /\ events' = [events EXCEPT ![c] = <<>>]
        /\ admitted' = [admitted EXCEPT ![c] = <<>>]
        /\ nonces' = nonces + 1
        /\ cookie' = [nonce |-> nonces + 1, key |-> key, age |-> 0, real |-> 0]
        /\ UNCHANGED <<promise, form, acted, process>>

-----------------------------------------------------------------------------
(***************************************************************************)
(* sessions.verify, csrf.token_for and Guard.__call__.                     *)
(***************************************************************************)
\* Signed with the present key, not issued further ahead of the wall clock
\* than the skew, and not past its absolute end.
Honoured(c) == c # NoCookie /\ c.key = key /\ c.age \in -Skew .. Lifetime - 1

\* Faulty: the token is the application's, not the session's.
TokenOfKey(k, nonce) == <<k, 0>>

TokenFor(k, nonce) == <<k, nonce>>

\* A page is served with the session's token, or the browser is sent to sign in.
OpenPage(t) ==
    /\ form' = [form EXCEPT ![t] =
                   IF Honoured(cookie)
                   THEN [under |-> cookie.nonce, token |-> TokenFor(key, cookie.nonce)]
                   ELSE NoForm]
    /\ UNCHANGED <<limiter, cookie, nonces, acted, process>>

\* A request that changes something is let through if a session is honoured
\* and the form carries that session's token; otherwise 401 or 403.
MayPost(t) ==
    /\ Honoured(cookie)
    /\ form[t] # NoForm
    /\ form[t].token = TokenFor(key, cookie.nonce)

Post(t) ==
    /\ MayPost(t)
    /\ acted' = acted \cup {<<form[t].under, cookie.nonce>>}
    /\ UNCHANGED <<limiter, cookie, form, nonces, process>>

\* POST logout goes through the guard like any other and clears the cookie.
SignOut(t) ==
    /\ MayPost(t)
    /\ cookie' = NoCookie
    /\ UNCHANGED <<limiter, form, nonces, acted, process>>

-----------------------------------------------------------------------------
(***************************************************************************)
(* Time and restarts.                                                      *)
(***************************************************************************)
\* Far enough on for a session to be over, whatever the clock was set back.
Cap(n, limit) == IF n > limit THEN limit ELSE n

Tick ==
    /\ events' = [c \in Clients |-> [i \in DOMAIN events[c] |-> IF events[c][i] = 0 THEN 0 ELSE events[c][i] - 1]]
    /\ promise' = [c \in Clients |-> IF promise[c] > 0 THEN promise[c] - 1 ELSE promise[c]]
    /\ admitted' = [c \in Clients |->
                       PopLeft([i \in DOMAIN admitted[c] |-> admitted[c][i] + 1], {Seconds(Window)})]
    /\ half' = 1 - half
    /\ cookie' = IF cookie = NoCookie THEN NoCookie
                 ELSE [cookie EXCEPT !.age = Cap(@ + half, Lifetime + MaxBack),
                                     !.real = Cap(@ + 1, Seconds(Lifetime + MaxBack) + 1)]
    /\ UNCHANGED <<attempt, key, restarts, back, form, nonces, acted>>

\* The wall clock is corrected by a second.
SetBack ==
    /\ back < MaxBack
    /\ back' = back + 1
    /\ cookie' = IF cookie = NoCookie THEN NoCookie ELSE [cookie EXCEPT !.age = @ - 1]
    /\ UNCHANGED <<limiter, form, nonces, acted, key, restarts, half>>

\* The limiter is the process's, and so is a signing key nobody configured.
Restart ==
    /\ restarts < MaxRestarts
    /\ restarts' = restarts + 1
    /\ key' = IF KeyConfigured THEN key ELSE key + 1
    /\ events' = [c \in Clients |-> <<>>]
    /\ attempt' = [a \in Attempts |-> NoAttempt]
    /\ promise' = [c \in Clients |-> NoPromise]
    /\ admitted' = [c \in Clients |-> <<>>]
    /\ UNCHANGED <<browser, back, half>>

Next ==
    \/ \E c \in Clients, a \in Attempts, right \in BOOLEAN : Check(c, a, right)
    \/ \E a \in Attempts : Reject(a) \/ SignIn(a)
    \/ \E t \in Tabs : OpenPage(t) \/ Post(t) \/ SignOut(t)
    \/ Tick
    \/ SetBack
    \/ Restart

\* Time passes; nobody need do anything else.
Spec == Init /\ [][Next]_vars /\ WF_vars(Tick)

-----------------------------------------------------------------------------
(***************************************************************************)
(* Properties.                                                             *)
(***************************************************************************)
TypeOK ==
    /\ events \in [Clients -> Seq(0 .. Seconds(Window))]
    /\ \A c \in Clients : Len(events[c]) <= Allowed
    /\ key \in 0 .. MaxRestarts
    /\ cookie = NoCookie \/ cookie.nonce \in 1 .. nonces

\* However the attempts of one address and its successes interleave, at most
\* Allowed of them are admitted between two successes within any window
\* (security/ratelimit.py: "the guessing itself is bounded").
AtMostAllowedInAWindow ==
    \A c \in Clients : Len(admitted[c]) <= Allowed

\* A client that is told when to come back and comes back then is admitted,
\* unless somebody of its address was admitted meanwhile
\* (RateLimited: "this says when it refills"). int() cuts a fraction off.
RetryAfterIsEnough ==
    \A c \in Clients : promise[c] = 0 => Len(Counting(c)) < Allowed

\* A refused client is not refused for ever, however often it is refused: what
\* is refused does not count.
RefusedClientGetsBudgetBack ==
    \A c \in Clients : promise[c] > 0 ~> Len(Counting(c)) < Allowed

\* A session is honoured for its lifetime, less what the truncation to seconds
\* may cost it, although the wall clock is set back by as much as the skew
\* allows, and for no longer than that correction adds
\* (security/sessions.py: "Expiry is absolute").
SessionLastsItsLifetime ==
    cookie # NoCookie /\ cookie.key = key =>
        /\ back <= Skew /\ cookie.real < Seconds(Lifetime) - 1 => Honoured(cookie)
        /\ Honoured(cookie) => cookie.real < Seconds(Lifetime + back)

\* What a form asks for is done only under the session the form was served to:
\* a tab left open over a sign-out, an expiry or a restart does nothing
\* (security/guard.py: "a stale tab must not silently replay a mutation").
StaleFormsDoNothing == \A p \in acted : p[1] = p[2]

=============================================================================
