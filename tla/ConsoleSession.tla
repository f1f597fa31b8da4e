--------------------------- MODULE ConsoleSession ---------------------------
(***************************************************************************)
(* The session of one user in the tabs of one browser                      *)
(* (login/authenticationServices).  The tabs share the session cookie and, *)
(* in localStorage, the time of expiry and the flag loggedIn; each has a   *)
(* timer that looks at them every second.  The API keeps a session alive   *)
(* for the same time after each request.  Times are what is left of them.  *)
(***************************************************************************)
EXTENDS Naturals

CONSTANTS
    Tabs,
    Timeout,        \* SESSION_COOKIE_AGE, in steps of the clock
    LogoutMayFail,  \* whether the request of a logout may fail
    MaxQuiet        \* bound of quiet

ASSUME SessionAssumption ==
    Timeout \in Nat \ {0} /\ LogoutMayFail \in BOOLEAN /\ MaxQuiet \in Nat

TabStates == {"out", "entering", "in", "leaving", "stuck"}

VARIABLES
    left,           \* what is left of sessionTime in localStorage
    loggedIn,       \* its flag
    alive,          \* what is left of the session of the API, 0 for no session
    tab,            \* where each tab is
    timer,          \* the tabs whose expireTimer runs
    calling,        \* the tabs that wait for the answer of a request
    quiet           \* changes of the page since the API has last answered

SessionVars == <<left, loggedIn, alive, tab, timer, calling, quiet>>

SessionInit ==
    /\ left = 0 /\ loggedIn = FALSE /\ alive = 0
    /\ tab = [t \in Tabs |-> "out"] /\ timer = {} /\ calling = {}
    /\ quiet = 0

Go(t, where) == tab' = [tab EXCEPT ![t] = where]

moveForward(t) ==
    /\ left' = Timeout /\ loggedIn' = TRUE
    /\ timer' = timer \cup {t}

(* isExpired, which moves the session forward when it has not expired.     *)
isExpired == left = 0
IfExpired(t) ==
    IF isExpired THEN UNCHANGED <<left, loggedIn, timer>> ELSE moveForward(t)

(* expireSession, and the page of the login, which logs out.               *)
expireSession(t) == timer' = timer \ {t} /\ Go(t, "leaving")

----------------------------------------------------------------------------
ClockTicks ==
    /\ left' = IF left = 0 THEN 0 ELSE left - 1
    /\ alive' = IF alive = 0 THEN 0 ELSE alive - 1
    /\ UNCHANGED <<loggedIn, tab, timer, calling, quiet>>

(* systemLogin: the API opens a session, then getUser and Timer.init.      *)
Login(t) ==
    /\ tab[t] \in {"out", "stuck"}
    /\ alive' = Timeout /\ quiet' = 0
    /\ Go(t, "entering")
    /\ UNCHANGED <<left, loggedIn, timer, calling>>

Entered(t) ==
    /\ tab[t] = "entering"
    /\ IF alive = 0
       THEN Go(t, "leaving") /\ UNCHANGED <<left, loggedIn, timer, alive, quiet>>
       ELSE Go(t, "in") /\ moveForward(t) /\ alive' = Timeout /\ quiet' = 0
    /\ UNCHANGED calling

(* A request goes through Rest, which looks at the timer first.            *)
Call(t) ==
    /\ tab[t] = "in" /\ t \notin calling
    /\ IF isExpired
       THEN expireSession(t) /\ UNCHANGED <<left, loggedIn, calling>>
       ELSE moveForward(t) /\ calling' = calling \cup {t} /\ UNCHANGED tab
    /\ UNCHANGED <<alive, quiet>>

CallAnswered(t) ==
    /\ t \in calling
    /\ calling' = calling \ {t}
    /\ IF alive = 0
       THEN expireSession(t) /\ UNCHANGED <<alive, quiet>>
       ELSE alive' = Timeout /\ quiet' = 0 /\ UNCHANGED <<tab, timer>>
    /\ UNCHANGED <<left, loggedIn>>

(* $transitions.onStart: a change of the page looks at the timer, which    *)
(* moves the session forward; the page may need no request (About).  A     *)
(* logout that is under way stays so; the page of the login logs out.      *)
Navigate(t) ==
    /\ tab[t] \in {"in", "leaving", "stuck"}
    /\ IF isExpired
       THEN Go(t, "leaving") /\ UNCHANGED <<left, loggedIn, timer, quiet>>
       ELSE /\ quiet < MaxQuiet /\ quiet' = quiet + 1
            /\ moveForward(t)
            /\ Go(t, IF tab[t] = "leaving" THEN "leaving" ELSE "in")
    /\ UNCHANGED <<alive, calling>>

(* Faulty variant: looking at the timer moves the session forward.         *)
LooksForward(t) ==
    /\ t \in timer
    /\ IF isExpired THEN expireSession(t) /\ UNCHANGED <<left, loggedIn>>
       ELSE moveForward(t) /\ (IF loggedIn THEN UNCHANGED tab ELSE Go(t, "leaving"))
    /\ UNCHANGED <<alive, calling, quiet>>

(* The timer: after a logout in another tab it goes to the page signOut,   *)
(* and that transition, like every other, moves the session forward.       *)
TimerFires(t) ==
    /\ t \in timer
    /\ \/ isExpired /\ expireSession(t) /\ UNCHANGED <<left, loggedIn>>
       \/ ~isExpired /\ ~loggedIn /\ moveForward(t) /\ Go(t, "leaving")
    /\ UNCHANGED <<alive, calling, quiet>>

SignOut(t) ==
    /\ tab[t] = "in"
    /\ IfExpired(t)
    /\ Go(t, "leaving")
    /\ UNCHANGED <<alive, calling, quiet>>

(* logout: the API closes the session; only then the other tabs can see.   *)
LoggedOut(t) ==
    /\ tab[t] = "leaving"
    /\ alive' = 0 /\ loggedIn' = FALSE
    /\ timer' = timer \ {t} /\ calling' = calling \ {t}
    /\ Go(t, "out")
    /\ UNCHANGED <<left, quiet>>

LogoutFails(t) ==
    /\ LogoutMayFail
    /\ tab[t] = "leaving"
    /\ Go(t, "stuck")
    /\ UNCHANGED <<left, loggedIn, alive, timer, calling, quiet>>

SessionNext ==
    \/ ClockTicks
    \/ \E t \in Tabs :
          \/ Login(t) \/ Entered(t)
          \/ Call(t) \/ CallAnswered(t)
          \/ Navigate(t) \/ TimerFires(t)
          \/ SignOut(t) \/ LoggedOut(t) \/ LogoutFails(t)

(* The clock and the timers run, and requests are answered.                *)
SessionFairness ==
    /\ WF_SessionVars(ClockTicks)
    /\ \A t \in Tabs :
          /\ WF_SessionVars(TimerFires(t))
          /\ WF_SessionVars(Entered(t))
          /\ WF_SessionVars(CallAnswered(t))
          /\ WF_SessionVars(LoggedOut(t) \/ LogoutFails(t))
SessionSpec == SessionInit /\ [][SessionNext]_SessionVars /\ SessionFairness

----------------------------------------------------------------------------
(* No tab stays signed in to a session that the API has closed, whichever  *)
(* tab has logged out and whatever the others did to localStorage since,   *)
(* unless somebody goes from page to page for ever.                        *)
ClosedSessionLeft ==
    []<>(alive > 0 \/ \A t \in Tabs : tab[t] # "in")

(* While the tabs think that the session goes on, the API agrees, unless a *)
(* request or a logout is under way or the page was changed since the API  *)
(* has last answered: but for such a change, nothing moves the time of the *)
(* tabs that does not lead to a request, whose answer moves the API's.     *)
TimerWithinSession ==
    loggedIn /\ quiet = 0 =>
        \/ left <= alive
        \/ \E t \in Tabs : t \in calling \/ tab[t] \in {"leaving", "stuck"}
=============================================================================
