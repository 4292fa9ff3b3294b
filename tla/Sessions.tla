------------------------------- MODULE Sessions -------------------------------
(***************************************************************************)
(* One person's session: the phone number proved by a one-time code, and   *)
(* the refresh token that keeps the app signed in for six months.          *)
(*                                                                         *)
(* The server side (AuthService) keeps everything in Redis and awaits      *)
(* between reads and writes, so a request is a handler that remembers what *)
(* it read.  The app side (ApiClient, AuthController) retries, times out,  *)
(* shares one refresh between calls, and stores tokens in a keystore.      *)
(*                                                                         *)
(* An access token and the refresh token issued with it carry the same     *)
(* number; a family is named by its first token.  Token and code 0 is none.*)
(***************************************************************************)
EXTENDS Integers, FiniteSets

CONSTANTS
    Handlers,       \* requests the server can be working on at once
    Calls,          \* calls the app can have outstanding at once
    MaxTokens,      \* bound: token pairs issued
    MaxCodes,       \* bound: one-time codes sent
    MaxGuesses,     \* bound: codes typed by the person
    MaxAttempts,    \* OTP_MAX_ATTEMPTS
    MaxFaults,      \* bound: lost replies, server errors, keystore failures and blockings
    MaxLaunches     \* bound: app restarts and re-installations

ASSUME SessionBounds ==
    /\ {MaxTokens, MaxCodes, MaxGuesses, MaxFaults, MaxLaunches} \subseteq Nat
    /\ MaxAttempts \in Nat \ {0}
    /\ IsFiniteSet(Handlers) /\ 0 \notin Handlers

VARIABLES
    otp,        \* otp:{phone}: the code hashed there, and the attempts counted
    cooldown,   \* otp:cooldown:{phone} exists
    token,      \* refresh:{hash} and refresh:used:{hash} of every token
    member,     \* refresh:family:{family}
    blocked,    \* users.status is not active
    handler,    \* what the server is doing
    app,        \* the screen, and what keystore and preferences hold
    login,      \* the sign-in request of the app, or Free
    refresh,    \* ApiClient._refreshing
    call,       \* the app's other requests
    expired,    \* access tokens past their fifteen minutes
    sent,       \* codes sent so far
    guesses,    \* codes typed so far
    compared,   \* how often each code was compared with a typed one
    redeemed,   \* codes exchanged for tokens
    faults,     \* lost replies, server errors, keystore failures and blockings so far
    abandoned,  \* refreshes and sign-ins whose answer the app never used
    discarded,  \* tokens the app has deleted or overwritten and the server not revoked
    launches    \* restarts so far

redis  == <<otp, cooldown, token, member>>
phone  == <<app, login, refresh, call>>
tally  == <<sent, guesses, compared, redeemed, faults, abandoned, discarded, launches>>
vars   == <<redis, blocked, handler, phone, expired, tally>>

None   == 0
Tokens == 1..MaxTokens
Codes  == 1..MaxCodes

Free      == [at |-> "free", h |-> None, t |-> None]
Task(at, client, t, typed, device) ==
    [at |-> at, client |-> client, t |-> t, code |-> None, typed |-> typed,
     family |-> None, device |-> device, doomed |-> {}]
Idle      == Task("idle", "nobody", None, None, None)
NoCall    == [at |-> "none", kind |-> "api", bearer |-> None, tries |-> 0, replayed |-> FALSE]

Init ==
    /\ otp = [code |-> None, attempts |-> 0] /\ cooldown = FALSE
    /\ token = [t \in Tokens |-> [at |-> "unborn", family |-> None, device |-> None]]
    /\ member = [t \in Tokens |-> {}]
    /\ blocked = FALSE
    /\ handler = [h \in Handlers |-> Idle]
    /\ app = [stage |-> "phoneEntry", access |-> None, refresh |-> None, device |-> 1]
    /\ login = Free /\ refresh = Free
    /\ call = [c \in Calls |-> NoCall]
    /\ expired = {}
    /\ sent = 0 /\ guesses = 0
    /\ compared = [c \in Codes |-> 0] /\ redeemed = {}
    /\ faults = 0 /\ abandoned = 0 /\ discarded = 0 /\ launches = 0

Live     == {t \in Tokens : token[t].at = "live"}
Unborn   == {t \in Tokens : token[t].at = "unborn"}
Minting  == {h \in Handlers : handler[h].at \in
                {"verify", "burn", "user", "read", "lookup", "rotate", "issue"}}
Asks     == {h \in Handlers : handler[h].at \in {"ask", "send"}}
\* The bounds are applied where a request starts, never inside a handler.
MayMint  == Cardinality(Minting) < Cardinality(Unborn)
MayAsk   == sent + Cardinality(Asks) < MaxCodes

-----------------------------------------------------------------------------
(* Requests and replies *)

\* A request reaches an idle handler, which will answer that client.
Serve(h, job) ==
    /\ handler[h].at = "idle"
    /\ handler' = [handler EXCEPT ![h] = job]

\* The reply waits for the client, unless the client has given up on it.
Finished(h, outcome, t) ==
    IF handler[h].client = "nobody" THEN Idle
    ELSE Task(outcome, handler[h].client, t, None, None)
Reply(h, outcome, t) == handler' = [handler EXCEPT ![h] = Finished(h, outcome, t)]
Goto(h, step) == handler' = [handler EXCEPT ![h].at = step]

Waiting(w) == w.h # None
\* The tokens a reply brought and that are not both written yet.
Arriving(w) == IF w.at \in {"access", "refresh"} THEN {w.t} ELSE {}
\* ApiClient._refreshOnce: one refresh for all who need it.
Joined == IF refresh = Free THEN [Free EXCEPT !.at = "reading"] ELSE refresh
Replied(w, outcome) == Waiting(w) /\ handler[w.h].at = outcome

\* The client stops waiting: what the server does is done all the same.
Alone(job) ==
    IF job.at \in {"ok", "refused", "cooling", "failed"} THEN Idle
    ELSE IF job.at = "idle" THEN job ELSE [job EXCEPT !.client = "nobody"]

-----------------------------------------------------------------------------
(* AuthService.requestOtp and verifyOtp *)

Asking       == Task("ask", "login", None, None, None)
Verifying(c) == Task("verify", "login", None, c, app.device)

AskCode(h) ==
    /\ app.stage \in {"phoneEntry", "codeEntry"}
    /\ login = Free
    /\ MayAsk
    /\ Serve(h, Asking)
    /\ login' = [at |-> "asked", h |-> h, t |-> None]
    /\ UNCHANGED <<redis, blocked, app, refresh, call, expired, tally>>

CheckCooldown(h) ==
    /\ handler[h].at = "ask"
    /\ IF cooldown THEN Reply(h, "cooling", None) ELSE Goto(h, "send")
    /\ UNCHANGED <<redis, blocked, phone, expired, tally>>

SendCode(h) ==
    /\ handler[h].at = "send"
    /\ otp' = [code |-> sent + 1, attempts |-> 0]
    /\ cooldown' = TRUE
    /\ sent' = sent + 1
    /\ Reply(h, "ok", None)
    /\ UNCHANGED <<token, member, blocked, phone, expired, guesses, compared, redeemed,
                   faults, abandoned, discarded, launches>>

\* The person types a code they were sent, the last or an older one, or mistypes it (None).
TypeCode(h, c) ==
    /\ app.stage = "codeEntry"
    /\ login = Free
    /\ MayMint
    /\ guesses < MaxGuesses
    /\ guesses' = guesses + 1
    /\ Serve(h, Verifying(c))
    /\ login' = [at |-> "typed", h |-> h, t |-> c]
    /\ UNCHANGED <<redis, blocked, app, refresh, call, expired, sent, compared, redeemed,
                   faults, abandoned, discarded, launches>>

\* Mutant: the cap is not looked at.
ReadOtpUncapped(h) ==
    LET me == handler[h] IN
    /\ me.at = "verify"
    /\ IF otp.code = None THEN Reply(h, "refused", None) /\ UNCHANGED compared
       ELSE /\ compared' = [compared EXCEPT ![otp.code] = @ + 1]
            /\ handler' = [handler EXCEPT ![h].code = otp.code,
                              ![h].at = IF me.typed = otp.code THEN "burn" ELSE "count"]
    /\ UNCHANGED <<redis, blocked, phone, expired, sent, guesses, redeemed, faults,
                   abandoned, discarded, launches>>

\* The record and its attempts are read once; what is compared is what was read.
ReadOtp(h) ==
    LET me == handler[h] IN
    /\ me.at = "verify"
    /\ IF otp.code = None THEN Reply(h, "refused", None) /\ UNCHANGED compared
       ELSE IF otp.attempts >= MaxAttempts THEN Goto(h, "lock") /\ UNCHANGED compared
       ELSE /\ compared' = [compared EXCEPT ![otp.code] = @ + 1]
            /\ handler' = [handler EXCEPT ![h].code = otp.code,
                              ![h].at = IF me.typed = otp.code THEN "burn" ELSE "count"]
    /\ UNCHANGED <<redis, blocked, phone, expired, sent, guesses, redeemed, faults,
                   abandoned, discarded, launches>>

\* Mutant: a wrong guess is not counted.
CountAttemptNever(h) ==
    /\ handler[h].at = "count"
    /\ Reply(h, "refused", None)
    /\ UNCHANGED <<redis, blocked, phone, expired, tally>>

\* hincrby, on whatever the key holds by now, nothing included.
CountAttempt(h) ==
    /\ handler[h].at = "count"
    /\ otp' = [otp EXCEPT !.attempts = @ + 1]
    /\ Reply(h, "refused", None)
    /\ UNCHANGED <<cooldown, token, member, blocked, phone, expired, tally>>

\* Mutant: a code that was right is not deleted.
DropOtpKept(h) ==
    /\ handler[h].at \in {"lock", "burn"}
    /\ IF handler[h].at = "lock" THEN Reply(h, "refused", None) ELSE Goto(h, "user")
    /\ UNCHANGED <<redis, blocked, phone, expired, tally>>

\* del, on whatever the key holds by now, a newer code included.
DropOtp(h) ==
    /\ handler[h].at \in {"lock", "burn"}
    /\ otp' = [code |-> None, attempts |-> 0]
    /\ IF handler[h].at = "lock" THEN Reply(h, "refused", None) ELSE Goto(h, "user")
    /\ UNCHANGED <<cooldown, token, member, blocked, phone, expired, tally>>

FindOrCreateUser(h) ==
    /\ handler[h].at = "user"
    /\ IF blocked THEN Reply(h, "refused", None) ELSE Goto(h, "issue")
    /\ UNCHANGED <<redis, blocked, phone, expired, tally>>

-----------------------------------------------------------------------------
(* AuthService.refresh, issueTokens and revokeFamily *)

ReadRefresh(h) ==
    LET me == handler[h]  row == token[me.t] IN
    /\ me.at = "read"
    /\ CASE row.at = "live" /\ row.device = me.device ->
                handler' = [handler EXCEPT ![h].at = "lookup", ![h].family = row.family]
         [] row.at = "live" /\ row.device # me.device ->
                handler' = [handler EXCEPT ![h].at = "members", ![h].family = row.family]
         [] row.at = "used" ->
                handler' = [handler EXCEPT ![h].at = "members", ![h].family = row.family]
         [] OTHER -> Reply(h, "refused", None)
    /\ UNCHANGED <<redis, blocked, phone, expired, tally>>

LookupUser(h) ==
    /\ handler[h].at = "lookup"
    /\ IF blocked THEN Reply(h, "refused", None) ELSE Goto(h, "rotate")
    /\ UNCHANGED <<redis, blocked, phone, expired, tally>>

\* Mutant: the token presented stays valid.
RotateNot(h) ==
    /\ handler[h].at = "rotate"
    /\ Goto(h, "issue")
    /\ UNCHANGED <<redis, blocked, phone, expired, tally>>

\* One MULTI: the token is gone, and remembered as used.
Rotate(h) ==
    /\ handler[h].at = "rotate"
    /\ token' = [token EXCEPT ![handler[h].t].at = "used"]
    /\ Goto(h, "issue")
    /\ UNCHANGED <<otp, cooldown, member, blocked, phone, expired, tally>>

\* A fresh pair, in the family of the token refreshed or in a new one.
IssueTokens(h) ==
    LET me == handler[h]
        t  == CHOOSE u \in Unborn : TRUE
        f  == IF me.family = None THEN t ELSE me.family
    IN
    /\ me.at = "issue"
    /\ token' = [token EXCEPT ![t] = [at |-> "live", family |-> f, device |-> me.device]]
    /\ member' = [member EXCEPT ![f] = @ \cup {t}]
    /\ redeemed' = redeemed \cup ({me.code} \ {None})
    /\ Reply(h, "ok", t)
    /\ UNCHANGED <<otp, cooldown, blocked, phone, expired, sent, guesses, compared, faults,
                   abandoned, discarded, launches>>

ReadMembers(h) ==
    /\ handler[h].at = "members"
    /\ handler' = [handler EXCEPT ![h].at = "revoke", ![h].doomed = member[handler[h].family]]
    /\ UNCHANGED <<redis, blocked, phone, expired, tally>>

\* The pipeline deletes the members read before, and the whole set.
RevokeFamily(h) ==
    LET me == handler[h] IN
    /\ handler[h].at = "revoke"
    /\ token' = [t \in Tokens |-> IF t \in me.doomed /\ token[t].at = "live"
                                  THEN [token[t] EXCEPT !.at = "gone"] ELSE token[t]]
    /\ member' = IF me.doomed = {} THEN member ELSE [member EXCEPT ![me.family] = {}]
    /\ Reply(h, "refused", None)
    /\ UNCHANGED <<otp, cooldown, blocked, phone, expired, tally>>

\* Redis or the database throws: a 500, and what was written stays written.
ServerError(h) ==
    /\ faults < MaxFaults
    /\ faults' = faults + 1
    /\ handler[h].at \in {"ask", "send", "verify", "count", "lock", "burn", "user", "read",
                          "lookup", "rotate", "issue", "members", "revoke"}
    /\ abandoned' = abandoned + 1
    /\ Reply(h, "failed", None)
    /\ UNCHANGED <<redis, blocked, phone, expired, sent, guesses, compared, redeemed,
                   discarded, launches>>

-----------------------------------------------------------------------------
(* The app: sign-in *)

\* ApiClient sends a request again when its reply does not come, twice at most; the
\* bound on faults says how often that happens.
SignInTimesOut(h) ==
    /\ Waiting(login)
    /\ faults < MaxFaults
    /\ faults' = faults + 1 /\ abandoned' = abandoned + 1
    /\ \/ /\ login' = Free
          /\ handler' = [handler EXCEPT ![login.h] = Alone(@)]
       \/ /\ h # login.h /\ handler[h].at = "idle" /\ MayMint
          /\ login.at = "asked" => MayAsk
          /\ handler' = [handler EXCEPT ![login.h] = Alone(@),
                ![h] = IF login.at = "asked" THEN Asking ELSE Verifying(login.t)]
          /\ login' = [login EXCEPT !.h = h]
    /\ UNCHANGED <<redis, blocked, app, refresh, call, expired, sent, guesses, compared,
                   redeemed, discarded, launches>>

\* requestCode and verifyCode go on: to the code screen, to the keystore, or stay.  A
\* refused sign-in is a 401 like any other: with a token in the keystore it is first
\* refreshed and the code sent again.
SignInAnswered ==
    LET h == login.h  t == handler[h].t IN
    /\ \/ /\ Replied(login, "ok")
          /\ login' = IF t = None THEN Free ELSE [at |-> "access", h |-> None, t |-> t]
          /\ app' = IF t = None THEN [app EXCEPT !.stage = "codeEntry"] ELSE app
          /\ UNCHANGED refresh
       \/ /\ Replied(login, "cooling") \/ Replied(login, "failed")
             \/ (Replied(login, "refused") /\ (app.refresh = None \/ login.at = "again"))
          /\ login' = Free
          /\ UNCHANGED <<app, refresh>>
       \/ /\ Replied(login, "refused") /\ app.refresh # None /\ login.at = "typed"
          /\ login' = [login EXCEPT !.at = "waiting", !.h = None]
          /\ refresh' = Joined
          /\ UNCHANGED app
    /\ handler' = [handler EXCEPT ![h] = Idle]
    /\ UNCHANGED <<redis, blocked, call, expired, tally>>

\* The refresh has ended well: the code goes out again.
TypeAgain(h) ==
    /\ login.at = "resend"
    /\ MayMint
    /\ Serve(h, Verifying(login.t))
    /\ login' = [login EXCEPT !.at = "again", !.h = h]
    /\ UNCHANGED <<redis, blocked, app, refresh, call, expired, tally>>

BackToPhone ==
    /\ app.stage = "codeEntry"
    /\ app' = [app EXCEPT !.stage = "phoneEntry"]
    /\ UNCHANGED <<redis, blocked, handler, login, refresh, call, expired, tally>>

\* SessionStore.save: two keystore writes, the access token first.
SaveSignIn ==
    /\ \/ /\ login.at = "access"
          /\ app' = [app EXCEPT !.access = login.t]
          /\ login' = [login EXCEPT !.at = "refresh"]
          /\ UNCHANGED discarded
       \/ /\ login.at = "refresh"
          /\ app' = [app EXCEPT !.refresh = login.t, !.stage = "authenticated"]
          /\ login' = Free
          /\ discarded' = IF app.refresh = None THEN discarded ELSE discarded + 1
    /\ UNCHANGED <<redis, blocked, handler, refresh, call, expired, sent, guesses, compared,
                   redeemed, faults, abandoned, launches>>

-----------------------------------------------------------------------------
(* The app: calls and the refresh they share *)

Sent(c, replayed, tries) ==
    [at |-> "sent", kind |-> call[c].kind, bearer |-> app.access, tries |-> tries, replayed |-> replayed]

\* An ordinary call, or the sign-out call (signOut posts no refresh token, so the
\* server's logout has nothing to revoke).
StartCall(c, kind) ==
    /\ app.stage = "authenticated"
    /\ call[c] = NoCall
    /\ kind \in {"api", "logout"}
    /\ call' = [call EXCEPT ![c] = [NoCall EXCEPT !.at = "sent", !.kind = kind, !.bearer = app.access]]
    /\ UNCHANGED <<redis, blocked, handler, app, login, refresh, expired, tally>>

\* What the caller does with the end of its call.  signOut ends the session whatever
\* came back, _restore only when the answer was 401.
Ended(c, result) ==
    CASE call[c].kind = "logout" \/ (call[c].kind = "restore" /\ result = "401") ->
            [app EXCEPT !.stage = "phoneEntry", !.access = None, !.refresh = None]
      [] call[c].kind = "restore" /\ result # "401" -> [app EXCEPT !.stage = "authenticated"]
      [] OTHER -> app
Finish(c, result) ==
    /\ app' = Ended(c, result)
    /\ discarded' = IF Ended(c, result).refresh = None /\ app.refresh # None
                    THEN discarded + 1 ELSE discarded
    /\ call' = [call EXCEPT ![c] = NoCall]

\* Mutant: every 401 starts a refresh of its own.
AnsweredAlone(c) ==
    LET good == call[c].bearer # None /\ call[c].bearer \notin expired IN
    /\ call[c].at = "sent"
    /\ \/ good /\ Finish(c, "200") /\ UNCHANGED refresh
       \/ ~good /\ call[c].replayed /\ Finish(c, "401") /\ UNCHANGED refresh
       \/ /\ ~good /\ ~call[c].replayed
          /\ call' = [call EXCEPT ![c].at = "waiting"]
          /\ refresh' = [Free EXCEPT !.at = "reading"]
          /\ UNCHANGED <<app, discarded>>
    /\ UNCHANGED <<redis, blocked, handler, login, expired, sent, guesses, compared, redeemed,
                   faults, abandoned, launches>>

\* The guard's answer.  A first 401 joins the refresh under way or starts one.
Answered(c) ==
    LET good == call[c].bearer # None /\ call[c].bearer \notin expired IN
    /\ call[c].at = "sent"
    /\ \/ good /\ Finish(c, "200") /\ UNCHANGED refresh
       \/ ~good /\ call[c].replayed /\ Finish(c, "401") /\ UNCHANGED refresh
       \/ /\ ~good /\ ~call[c].replayed
          /\ call' = [call EXCEPT ![c].at = "waiting"]
          /\ refresh' = Joined
          /\ UNCHANGED <<app, discarded>>
    /\ UNCHANGED <<redis, blocked, handler, login, expired, sent, guesses, compared, redeemed,
                   faults, abandoned, launches>>

Unanswered(c) ==
    /\ call[c].at = "sent"
    /\ faults < MaxFaults
    /\ faults' = faults + 1
    /\ IF call[c].tries < 2
       THEN /\ call' = [call EXCEPT ![c] = Sent(c, call[c].replayed, call[c].tries + 1)]
            /\ UNCHANGED <<app, discarded>>
       ELSE Finish(c, "network")
    /\ UNCHANGED <<redis, blocked, handler, login, refresh, expired, sent, guesses, compared,
                   redeemed, abandoned, launches>>

\* _doRefresh reads the keystore and posts the token.
StartRefresh(h) ==
    /\ refresh.at = "reading"
    /\ app.refresh # None
    /\ MayMint
    /\ Serve(h, Task("read", "refresh", app.refresh, None, app.device))
    /\ refresh' = [at |-> "sent", h |-> h, t |-> app.refresh]
    /\ UNCHANGED <<redis, blocked, app, login, call, expired, tally>>

\* Every call that waits for the refresh gets its outcome.  At most one of them is
\* restoring or signing out, and that one decides what becomes of the session.
RefreshFailed(result) ==
    LET waiting  == {c \in Calls : call[c].at = "waiting"}
        deciding == {c \in waiting : call[c].kind # "api"}
    IN  /\ refresh' = Free
        /\ call' = [c \in Calls |-> IF c \in waiting THEN NoCall ELSE call[c]]
        /\ app' = IF deciding = {} THEN app ELSE Ended(CHOOSE c \in deciding : TRUE, result)
        /\ discarded' = IF app'.refresh = None /\ app.refresh # None
                        THEN discarded + 1 ELSE discarded
        /\ login' = IF login.at = "waiting" THEN Free ELSE login

\* No token in the keystore, or none it could read: rejected without asking.
NothingToRefresh ==
    /\ refresh.at = "reading"
    /\ \/ app.refresh = None /\ UNCHANGED faults
       \/ app.refresh # None /\ faults < MaxFaults /\ faults' = faults + 1
    /\ RefreshFailed("401")
    /\ UNCHANGED <<redis, blocked, handler, expired, sent, guesses, compared, redeemed,
                   abandoned, launches>>

\* The server refused it (401, 403), or had an error of its own (5xx).
RefreshRefused ==
    /\ \/ Replied(refresh, "refused") /\ RefreshFailed("401")
       \/ Replied(refresh, "failed")  /\ RefreshFailed("network")
    /\ handler' = [handler EXCEPT ![refresh.h] = Idle]
    /\ UNCHANGED <<redis, blocked, expired, sent, guesses, compared, redeemed, faults,
                   abandoned, launches>>

\* The reply is lost.  A timeout counts as unreachable; a transport error Dio does not
\* class as one of the network counts as rejected.
RefreshLost(result) ==
    /\ Waiting(refresh)
    /\ faults < MaxFaults
    /\ faults' = faults + 1 /\ abandoned' = abandoned + 1
    /\ result \in {"network", "401"}
    /\ RefreshFailed(result)
    /\ handler' = [handler EXCEPT ![refresh.h] = Alone(@)]
    /\ UNCHANGED <<redis, blocked, expired, sent, guesses, compared, redeemed, launches>>

RefreshGranted ==
    /\ Replied(refresh, "ok")
    /\ refresh' = [at |-> "access", h |-> None, t |-> handler[refresh.h].t]
    /\ handler' = [handler EXCEPT ![refresh.h] = Idle]
    /\ UNCHANGED <<redis, blocked, app, login, call, expired, tally>>

\* Mutant: the calls are sent again with the token they had.
SaveRefreshedStale ==
    /\ \/ /\ refresh.at = "access"
          /\ app' = [app EXCEPT !.access = refresh.t]
          /\ refresh' = [refresh EXCEPT !.at = "refresh"]
          /\ UNCHANGED <<login, call>>
       \/ /\ refresh.at = "refresh"
          /\ app' = [app EXCEPT !.refresh = refresh.t]
          /\ refresh' = Free
          /\ call' = [c \in Calls |->
                IF call[c].at = "waiting"
                THEN [call[c] EXCEPT !.at = "sent", !.tries = 0, !.replayed = TRUE] ELSE call[c]]
          /\ login' = IF login.at = "waiting" THEN [login EXCEPT !.at = "resend"] ELSE login
    /\ UNCHANGED <<redis, blocked, handler, expired, tally>>

\* The second write ends the refresh, and the calls that waited are sent again.
SaveRefreshed ==
    /\ \/ /\ refresh.at = "access"
          /\ app' = [app EXCEPT !.access = refresh.t]
          /\ refresh' = [refresh EXCEPT !.at = "refresh"]
          /\ UNCHANGED <<login, call>>
       \/ /\ refresh.at = "refresh"
          /\ app' = [app EXCEPT !.refresh = refresh.t]
          /\ refresh' = Free
          /\ call' = [c \in Calls |-> IF call[c].at = "waiting" THEN Sent(c, TRUE, 0) ELSE call[c]]
          /\ login' = IF login.at = "waiting" THEN [login EXCEPT !.at = "resend"] ELSE login
    /\ UNCHANGED <<redis, blocked, handler, expired, tally>>

\* The keystore refuses a write.  A refresh then counts as unreachable; a sign-in's
\* exception leaves verifyCode.  What was written before stays.
SaveFails ==
    /\ faults < MaxFaults
    /\ faults' = faults + 1 /\ abandoned' = abandoned + 1
    /\ \/ refresh.at \in {"access", "refresh"} /\ RefreshFailed("network")
       \/ /\ login.at \in {"access", "refresh"} /\ login' = Free
          /\ UNCHANGED <<app, refresh, call, discarded>>
    /\ UNCHANGED <<redis, blocked, handler, expired, sent, guesses, compared, redeemed, launches>>

-----------------------------------------------------------------------------
(* Launches, time and administrators *)

\* The app is killed and started again: what it was doing is gone, what it stored is
\* not.  A re-installation keeps the iOS keychain and makes a new device id.
Launch ==
    /\ launches < MaxLaunches
    /\ launches' = launches + 1
    /\ app' \in {[app EXCEPT !.stage = "checking", !.device = d] : d \in {app.device, launches + 2}}
    /\ login' = Free /\ refresh' = Free
    /\ call' = [c \in Calls |-> NoCall]
    /\ abandoned' = abandoned + (IF login = Free THEN 0 ELSE 1) + (IF refresh = Free THEN 0 ELSE 1)
    /\ handler' = [h \in Handlers |-> Alone(handler[h])]
    /\ UNCHANGED <<redis, blocked, expired, sent, guesses, compared, redeemed, faults, discarded>>

\* AuthController._restore.
Restore(c) ==
    /\ app.stage = "checking"
    /\ \A k \in Calls : call[k] = NoCall
    /\ \/ /\ app.refresh = None
          /\ app' = [app EXCEPT !.stage = "phoneEntry"]
          /\ UNCHANGED <<call, faults>>
       \/ /\ app.refresh # None /\ faults < MaxFaults
          /\ app' = [app EXCEPT !.stage = "phoneEntry"]
          /\ faults' = faults + 1
          /\ UNCHANGED call
       \/ /\ app.refresh # None
          /\ call' = [call EXCEPT ![c] = [NoCall EXCEPT !.at = "sent", !.kind = "restore",
                                                        !.bearer = app.access]]
          /\ UNCHANGED <<app, faults>>
    /\ UNCHANGED <<redis, blocked, handler, login, refresh, expired, sent, guesses, compared,
                   redeemed, abandoned, discarded, launches>>

\* Fifteen minutes are long beside a request's twenty-five seconds: a token just issued
\* does not run out before the call it was fetched for has been replayed.
JustIssued == Arriving(login) \cup Arriving(refresh) \cup {call[c].bearer : c \in {k \in Calls : call[k].replayed}}
ExpireAccess(t) ==
    /\ t \in ({app.access} \cup {call[c].bearer : c \in Calls}) \ (JustIssued \cup expired \cup {None})
    /\ expired' = expired \cup {t}
    /\ UNCHANGED <<redis, blocked, handler, phone, tally>>

\* The cooldown is a minute and a code is five, so a code outlives its cooldown.  After
\* the last code nobody asks again: its cooldown is left running.
OtpRunsOut ==
    /\ \/ cooldown /\ sent < MaxCodes /\ cooldown' = FALSE /\ UNCHANGED otp
       \/ /\ cooldown => sent = MaxCodes
          /\ otp.code # None /\ otp' = [code |-> None, attempts |-> 0] /\ UNCHANGED cooldown
    /\ UNCHANGED <<token, member, blocked, handler, phone, expired, tally>>

Block ==
    /\ ~blocked /\ blocked' = TRUE
    /\ faults < MaxFaults
    /\ faults' = faults + 1
    /\ UNCHANGED <<redis, handler, phone, expired, sent, guesses, compared, redeemed, abandoned,
                   discarded, launches>>

-----------------------------------------------------------------------------

ServerStep(h) ==
    \/ CheckCooldown(h) \/ SendCode(h) \/ ReadOtp(h) \/ CountAttempt(h) \/ DropOtp(h)
    \/ FindOrCreateUser(h) \/ ReadRefresh(h) \/ LookupUser(h) \/ Rotate(h) \/ IssueTokens(h)
    \/ ReadMembers(h) \/ RevokeFamily(h)

RefreshStep ==
    \/ \E h \in Handlers : StartRefresh(h)
    \/ (app.refresh = None /\ NothingToRefresh)
    \/ RefreshRefused \/ RefreshGranted \/ SaveRefreshed

Next ==
    \/ \E h \in Handlers :
          \/ AskCode(h) \/ (\E c \in 0..sent : TypeCode(h, c))
          \/ TypeAgain(h)
          \/ ServerStep(h) \/ ServerError(h) \/ SignInTimesOut(h)
    \/ SignInAnswered \/ SaveSignIn \/ SaveFails \/ BackToPhone
    \/ \E c \in Calls :
          \/ \E k \in {"api", "logout"} : StartCall(c, k)
          \/ Answered(c) \/ Unanswered(c) \/ Restore(c)
    \/ RefreshStep \/ NothingToRefresh
    \/ \E result \in {"network", "401"} : RefreshLost(result)
    \/ \E t \in Tokens : ExpireAccess(t)
    \/ Launch \/ OtpRunsOut \/ Block

Spec == Init /\ [][Next]_vars
-----------------------------------------------------------------------------
(* What a careful reader of this code wants to know *)

Steps == {"idle", "ask", "send", "verify", "count", "lock", "burn", "user", "read", "lookup",
          "rotate", "issue", "members", "revoke", "ok", "refused", "cooling", "failed"}
Job == [at : Steps, client : {"nobody", "login", "refresh"}, t : Tokens \cup {None},
        code : Codes \cup {None}, typed : Codes \cup {None}, family : Tokens \cup {None},
        device : Nat, doomed : SUBSET Tokens]
Wait(steps) == [at : steps \cup {"free", "access", "refresh"}, h : Handlers \cup {None}, t : Nat]

TypeOK ==
    /\ otp \in [code : Codes \cup {None}, attempts : 0..(MaxAttempts + Cardinality(Handlers) - 1)]
    /\ cooldown \in BOOLEAN /\ blocked \in BOOLEAN
    /\ token \in [Tokens -> [at : {"unborn", "live", "used", "gone"},
                             family : Tokens \cup {None}, device : Nat]]
    /\ member \in [Tokens -> SUBSET Tokens]
    /\ handler \in [Handlers -> Job]
    /\ app \in [stage : {"checking", "phoneEntry", "codeEntry", "authenticated"},
                access : Tokens \cup {None}, refresh : Tokens \cup {None}, device : Nat]
    /\ login \in Wait({"asked", "typed", "again", "waiting", "resend"}) /\ refresh \in Wait({"reading", "sent"})
    /\ call \in [Calls -> [at : {"none", "sent", "waiting"}, kind : {"api", "logout", "restore"},
                           bearer : Tokens \cup {None}, tries : 0..2, replayed : BOOLEAN]]
    /\ expired \subseteq Tokens
    /\ {sent, guesses, faults, abandoned, discarded, launches} \subseteq Nat
    /\ compared \in [Codes -> Nat] /\ redeemed \subseteq Codes

\* The single flight works: while no answer to a refresh or a sign-in went unused, the
\* token in the keystore is the live one of its family whenever no refresh is under
\* way, however many calls met a 401, and met it however late.
KeepsSession ==
    (abandoned = 0 /\ refresh = Free /\ app.refresh # None
        /\ token[app.refresh].device = app.device) => app.refresh \in Live

\* "Verify your number once": with no failure and no block, nothing but a sign-out or a
\* re-installation takes a signed-in app to the phone number screen.
OnlySignOutEndsSession ==
    [][(/\ app.stage \in {"checking", "authenticated"} /\ app.refresh # None
        /\ token[app.refresh].device = app.device
        /\ faults' = 0 /\ abandoned = 0
        /\ app'.stage = "phoneEntry")
            => \E c \in Calls : call[c].kind = "logout"]_vars

\* Refresh tokens live six months.  Every live one is the app's, is on its way to it,
\* or was left behind by an answer nobody used or by tokens removed on the phone alone:
\* one for each such event, never more.
Held == {app.refresh} \cup Arriving(login) \cup Arriving(refresh)
            \cup {handler[h].t : h \in {k \in Handlers : handler[k].at = "ok"}}
LeftBehindBounded == Cardinality(Live \ Held) <= abandoned + discarded

\* "Attempts are capped per phone number": a request nobody waits for any more still
\* compares beside the next one, and one that fails has not counted what it compared, so
\* a code is compared once more at most for each of these.
GuessesCapped == \A c \in Codes : compared[c] <= MaxAttempts + abandoned

\* "OTPs are single-use": once a code has been exchanged for tokens nothing typed is
\* compared with it again, whatever request was running, repeated or late.
CodeSignsInOnce ==
    [][\A c \in redeemed : compared'[c] = compared[c]]_vars
=============================================================================
