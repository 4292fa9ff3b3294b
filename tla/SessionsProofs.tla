---------------------------- MODULE SessionsProofs ----------------------------
(***************************************************************************)
(* Proofs about Sessions, for any requests, calls, codes, tokens and       *)
(* failures.  The invariant has six parts, each kept by a lemma of its own *)
(* with one step per action:                                               *)
(*                                                                         *)
(*   Base       who waits for whom, which tokens exist, where each pair is *)
(*   Guessing   what was compared with a code, and who did not count it    *)
(*   Accounted  a ledger of the tokens nobody holds any more               *)
(*   Keeping    the token in the keystore, and those on their way, live    *)
(*   Access     no access token runs out before it is delivered            *)
(*   Screens    what the screen says of the calls and the refresh          *)
(*                                                                         *)
(* The first sections say what each action does; they are all that is used *)
(* of the model's actions afterwards.                                      *)
(***************************************************************************)
EXTENDS Sessions, FiniteSetTheorems, TLAPS

Done   == {"ok", "refused", "cooling", "failed"}
Coding == {"ask", "send", "verify", "count", "lock", "burn", "user"}
Nobody == {h \in Handlers : handler[h].at # "idle" /\ handler[h].client = "nobody"}

OtpRow   == [code : Codes \cup {None}, attempts : Nat]
TokenRow == [at : {"unborn", "live", "used", "gone"}, family : Tokens \cup {None}, device : Nat]
AppRow   == [stage : {"checking", "phoneEntry", "codeEntry", "authenticated"},
             access : Tokens \cup {None}, refresh : Tokens \cup {None}, device : Nat]
CallRow  == [at : {"none", "sent", "waiting"}, kind : {"api", "logout", "restore"},
             bearer : Tokens \cup {None}, tries : 0..2, replayed : BOOLEAN]
LoginRow   == Wait({"asked", "typed", "again", "waiting", "resend"})
RefreshRow == Wait({"reading", "sent"})

\* The types but for the bound on attempts, which takes AttemptsBounded.
Typed ==
    /\ otp \in OtpRow /\ cooldown \in BOOLEAN /\ blocked \in BOOLEAN
    /\ token \in [Tokens -> TokenRow] /\ member \in [Tokens -> SUBSET Tokens]
    /\ handler \in [Handlers -> Job]
    /\ app \in AppRow /\ login \in LoginRow /\ refresh \in RefreshRow
    /\ call \in [Calls -> CallRow]
    /\ expired \subseteq Tokens
    /\ sent \in Nat /\ guesses \in Nat /\ faults \in Nat
    /\ abandoned \in Nat /\ discarded \in Nat /\ launches \in Nat
    /\ compared \in [Codes -> Nat] /\ redeemed \subseteq Codes

\* A client waits for one handler, and a handler answers one client.
Serves(h) ==
    /\ handler[h].at = "idle" => handler[h] = Idle
    /\ handler[h].at \in Done => handler[h].client # "nobody"
    /\ handler[h].client = "login" => login.h = h
    /\ handler[h].client = "refresh" =>
          /\ refresh.h = h /\ handler[h].at \notin Coding
          /\ handler[h].at = "ok" => handler[h].t # None
LoginWaits ==
    /\ login.h # None <=> login.at \in {"asked", "typed", "again"}
    /\ login.h # None => handler[login.h].client = "login"
    /\ IF login.at \in {"access", "refresh"} THEN login.t \in Tokens ELSE login.t \in Codes \cup {None}
RefreshWaits ==
    /\ refresh.h # None <=> refresh.at = "sent"
    /\ refresh.h # None => handler[refresh.h].client = "refresh"
    /\ refresh.at \in {"sent", "access", "refresh"} => refresh.t \in Tokens
Attended == (\A h \in Handlers : Serves(h)) /\ LoginWaits /\ RefreshWaits

Spare == /\ Cardinality(Minting) <= Cardinality(Unborn)
         /\ sent + Cardinality(Asks) <= MaxCodes

Abandonments == Cardinality(Nobody) <= abandoned

Counting == {h \in Handlers : handler[h].at = "count"}
Comparing(c) == {h \in Handlers : handler[h].at \in {"count", "burn"} /\ handler[h].code = c}

AttemptsBounded == otp.attempts + Cardinality(Counting) <= MaxAttempts + Cardinality(Handlers) - 1

Counted == otp.code # None =>
    compared[otp.code] + Cardinality(Nobody) <= otp.attempts + Cardinality(Comparing(otp.code)) + abandoned

CodesSent ==
    /\ otp.code <= sent
    /\ \A h \in Handlers : handler[h].code <= sent
    /\ \A c \in redeemed : c <= sent
    /\ \A c \in Codes : c > sent => compared[c] = 0

Spent ==
    /\ otp.code \notin redeemed
    /\ \A h \in Handlers : handler[h].at \in {"user", "issue"} /\ handler[h].code # None =>
            handler[h].code # otp.code
    /\ \A h \in Handlers : handler[h].at \in {"read", "lookup", "rotate"} => handler[h].code = None

Guessing == Abandonments /\ AttemptsBounded /\ Counted /\ CodesSent /\ Spent /\ GuessesCapped

Born(t) == t \in Tokens /\ token[t].at # "unborn"

\* A token is of the family of a token; a family is the first of its tokens.
TokenFamily(t) ==
    /\ Born(t) => Born(token[t].family)
    /\ ~Born(t) => token[t].family = None
    /\ \A u \in member[t] : token[u].family = t /\ Born(u)
\* What a handler knows of families is true of the tokens.
JobFamily(h) ==
    /\ handler[h].at \in {"lookup", "rotate", "members", "revoke"} => Born(handler[h].family)
    /\ handler[h].at = "issue" /\ handler[h].family # None => Born(handler[h].family)
    /\ handler[h].at \in {"verify", "burn", "user"} => handler[h].family = None
    /\ \A u \in handler[h].doomed : token[u].family = handler[h].family /\ Born(u)
    /\ handler[h].family # None /\ handler[h].at \notin Done =>
          Born(handler[h].t) /\ token[handler[h].t].family = handler[h].family
Families == (\A t \in Tokens : TokenFamily(t)) /\ (\A h \in Handlers : JobFamily(h))

Granted(h) == handler[h].at = "ok" /\ handler[h].t # None
Presented(h) == handler[h].at \in {"read", "lookup", "rotate"}
Unread == Arriving(login) \cup Arriving(refresh)
Elsewhere(t) == (\A h \in Handlers : Granted(h) => handler[h].t # t) /\ t \notin Unread

\* A pair is in one place on its way to the keystore, and the token in the keystore,
\* or presented for a refresh, is none of those on their way.
OnePlace ==
    /\ \A h \in Handlers : Granted(h) =>
          /\ Born(handler[h].t) /\ handler[h].t \notin Unread
          /\ \A k \in Handlers \ {h} : Granted(k) => handler[k].t # handler[h].t
    /\ \A t \in Unread : Born(t)
    /\ Arriving(login) \cap Arriving(refresh) = {}
Arrived ==
    /\ app.refresh # None => Born(app.refresh) /\ Elsewhere(app.refresh)
    /\ \A h \in Handlers : Presented(h) => Born(handler[h].t) /\ Elsewhere(handler[h].t)
Presenting(h) == handler[h].client = "refresh" /\ handler[h].at \notin Done =>
                    handler[h].t = refresh.t /\ handler[h].device = app.device
Distinct == OnePlace /\ Arrived /\ \A h \in Handlers : Presenting(h)

InFlight ==
    \/ refresh.at \in {"access", "refresh"}
    \/ /\ refresh.at = "sent"
       /\ \/ handler[refresh.h].at \in {"issue", "ok"}
          \/ handler[refresh.h].at \in {"lookup", "rotate"} /\ handler[refresh.h].t \notin Live
Risk == IF InFlight /\ (app.refresh = None \/ app.refresh \in Live) THEN 1 ELSE 0

\* The live tokens that are neither the app's nor on their way to it.
Lost == {t \in Live : t # app.refresh /\ Elsewhere(t)}
Accounted == Cardinality(Lost) + Cardinality(Nobody) + Risk <= abandoned + discarded

\* A token of a sign-in not refreshed yet: the only one of its family.
Loner(t) == \A u \in Tokens : token[u].family = t <=> u = t
Renewing == \/ refresh.at \in {"access", "refresh"}
            \/ refresh.at = "sent" /\ handler[refresh.h].at \in {"issue", "ok"}
OnDevice == app.refresh # None /\ token[app.refresh].device = app.device

\* A device id made by a re-installation is later than every one used before.
Devices ==
    /\ app.device <= launches + 1
    /\ \A t \in Tokens : token[t].device <= launches + 1
    /\ \A h \in Handlers : handler[h].device <= launches + 1

\* A sign-in refreshes nothing, and starts a family.
Signing(h) == handler[h].client = "login" =>
    /\ handler[h].at \notin {"read", "lookup", "rotate", "members", "revoke"}
    /\ handler[h].at = "issue" => handler[h].family = None
Apart == refresh.at = "sent" => Born(refresh.t) /\ Elsewhere(refresh.t)

\* While every answer was used: the token in the keystore is live or being renewed, those
\* on their way are live, and no family is revoked that holds one of them.
Stored  == OnDevice => app.refresh \in Live \/ Renewing
Coming  ==
    /\ \A h \in Handlers : Granted(h) => /\ handler[h].t \in Live
                                         /\ handler[h].client = "login" => Loner(handler[h].t)
    /\ Unread \subseteq Live
    /\ \A t \in Arriving(login) : Loner(t)
Unhurt  == refresh.at = "sent" =>
    /\ app.refresh \in {None, refresh.t} \/ Loner(app.refresh)
    /\ OnDevice /\ app.refresh = refresh.t => handler[refresh.h].at \notin {"members", "revoke"}
Kept == abandoned = 0 => Stored /\ Coming /\ Unhurt

Keeping == Devices /\ (\A h \in Handlers : Signing(h)) /\ Apart /\ Kept

\* An access token in use was issued and delivered, and one not delivered has not run out.
InUse(t) == \/ t = app.access \/ t \in expired
            \/ \E c \in Calls : call[c].bearer = t
Delivered(t) == Born(t) /\ \A h \in Handlers : Granted(h) => handler[h].t # t
Access == (\A t \in Tokens : InUse(t) => Delivered(t)) /\ expired \cap Unread = {}

\* While the app checks its session it has one call at most, and it signs nobody in.
Checking ==
    /\ app.stage \in {"checking", "authenticated"} => login = Free
    /\ \A c \in Calls : /\ call[c].kind = "restore" => app.stage = "checking"
                        /\ app.stage = "checking" => call[c] = NoCall \/ call[c].kind = "restore"
                        /\ \A k \in Calls \ {c} : call[c].kind = "restore" => call[k].kind # "restore"
Renews ==
    /\ app.stage = "checking" /\ refresh.at = "sent" => app.refresh = refresh.t
    /\ app.stage = "checking" /\ refresh.at = "refresh" => app.access = refresh.t

\* With no failure nobody is blocked, a replayed check has a good token, and a refresh with
\* the token of the keystore is not refused.
Good(c)   == call[c].bearer # None /\ call[c].bearer \notin expired
Unblocked == blocked => faults > 0
Replays   == faults = 0 => \A c \in Calls : call[c].kind = "restore" /\ call[c].replayed => Good(c)
Accepted  == faults = 0 /\ abandoned = 0 /\ OnDevice /\ refresh.at = "sent" /\ app.refresh = refresh.t
                => handler[refresh.h].at \in {"read", "lookup", "rotate", "issue", "ok"}
Screens == Checking /\ Renews /\ Unblocked /\ Replays /\ Accepted

-----------------------------------------------------------------------------
(* What the steps do to a handler *)

LEMMA Bounds ==
    /\ MaxTokens \in Nat /\ MaxCodes \in Nat /\ MaxAttempts \in Nat /\ MaxAttempts >= 1
    /\ IsFiniteSet(Handlers) /\ None \notin Handlers
    /\ None \notin Tokens /\ None \notin Codes /\ Tokens \subseteq Nat /\ Codes \subseteq Nat
BY SessionBounds DEF None, Tokens, Codes

LEMMA CodesAreNumbers == \A c \in Codes \cup {None} : c \in Nat
BY DEF Codes, None

LEMMA TaskJob ==
    ASSUME NEW at \in Steps, NEW client \in {"nobody", "login", "refresh"},
           NEW t \in Tokens \cup {None}, NEW typed \in Codes \cup {None}, NEW device \in Nat
    PROVE  LET j == Task(at, client, t, typed, device)
           IN  /\ j \in Job /\ j.at = at /\ j.client = client /\ j.t = t /\ j.typed = typed
               /\ j.device = device /\ j.code = None /\ j.family = None /\ j.doomed = {}
BY DEF Task, Job, None

LEMMA IdleJob ==
    /\ Idle \in Job /\ Idle.at = "idle" /\ Idle.client = "nobody" /\ Idle.t = None
    /\ Idle.code = None /\ Idle.family = None /\ Idle.device = 0 /\ Idle.doomed = {}
BY DEF Idle, Task, Job, Steps, None

\* The other handlers go on with what they do.
Others(h) == \A k \in Handlers \ {h} : handler'[k] = handler[k]

\* Handler h answers: the reply waits, or nobody is there to get it.
Replies(h, outcome, t) ==
    /\ Others(h)
    /\ handler'[h] \in Job
    /\ \/ handler[h].client = "nobody" /\ handler'[h] = Idle
       \/ /\ handler[h].client # "nobody" /\ handler'[h].client = handler[h].client
          /\ handler'[h].at = outcome /\ handler'[h].t = t /\ handler'[h].code = None
          /\ handler'[h].family = None /\ handler'[h].device = 0 /\ handler'[h].doomed = {}

\* Handler h goes to its next step, and remembers the rest.
Turns(h, step, code, family, doomed) ==
    /\ Others(h)
    /\ handler'[h] \in Job
    /\ handler'[h].at = step /\ handler'[h].client = handler[h].client /\ handler'[h].t = handler[h].t
    /\ handler'[h].code = code /\ handler'[h].family = family
    /\ handler'[h].device = handler[h].device /\ handler'[h].doomed = doomed

Moves(h, step) == Turns(h, step, handler[h].code, handler[h].family, handler[h].doomed)

\* Nobody waits for job j any more: the job is k from now on.
LeftAlone(j, k) ==
    /\ k \in Job
    /\ \/ j.at \in Done /\ k = Idle
       \/ j.at = "idle" /\ k = j
       \/ /\ j.at \notin Done \cup {"idle"} /\ k.client = "nobody" /\ k.at = j.at /\ k.t = j.t
          /\ k.code = j.code /\ k.family = j.family /\ k.device = j.device /\ k.doomed = j.doomed

LEMMA ReplyReplies ==
    ASSUME Typed, NEW h \in Handlers, NEW outcome \in Done, NEW t \in Tokens \cup {None},
           Reply(h, outcome, t)
    PROVE  Replies(h, outcome, t) /\ handler' \in [Handlers -> Job]
<1>1. handler \in [Handlers -> Job] /\ handler[h].client \in {"nobody", "login", "refresh"}
  BY DEF Typed, Job
<1> DEFINE j == Task(outcome, handler[h].client, t, None, None)
<1>2. /\ j \in Job /\ j.at = outcome /\ j.client = handler[h].client /\ j.t = t /\ j.code = None
      /\ j.family = None /\ j.device = 0 /\ j.doomed = {}
  BY <1>1 DEF Task, Job, Steps, Done, None
<1>3. handler' = [handler EXCEPT ![h] = IF handler[h].client = "nobody" THEN Idle ELSE j]
  BY DEF Reply, Finished
<1> HIDE DEF j
<1>4. QED
  BY <1>1, <1>2, <1>3, IdleJob DEF Replies, Others

LEMMA GotoMoves ==
    ASSUME Typed, NEW h \in Handlers, NEW step \in Steps, Goto(h, step)
    PROVE  Moves(h, step) /\ handler' \in [Handlers -> Job]
<1>1. handler \in [Handlers -> Job] /\ handler[h] \in Job
  BY DEF Typed
<1>2. handler' = [handler EXCEPT ![h] = [handler[h] EXCEPT !.at = step]]
  BY <1>1 DEF Goto
<1> DEFINE j == [handler[h] EXCEPT !.at = step]
<1>3. /\ j \in Job /\ j.at = step /\ j.client = handler[h].client /\ j.t = handler[h].t
      /\ j.code = handler[h].code /\ j.family = handler[h].family
      /\ j.device = handler[h].device /\ j.doomed = handler[h].doomed
  BY <1>1 DEF Job
<1> HIDE DEF j
<1>4. handler'[h] = j /\ Others(h) /\ handler' = [handler EXCEPT ![h] = j]
  BY <1>1, <1>2 DEF Others, j
<1>5. QED
  BY <1>1, <1>3, <1>4 DEF Moves, Turns

LEMMA AloneLeft ==
    ASSUME NEW j \in Job
    PROVE  LeftAlone(j, Alone(j))
<1>1. CASE j.at \in Done
  BY <1>1, IdleJob DEF LeftAlone, Alone, Done
<1>2. CASE j.at = "idle"
  BY <1>2 DEF LeftAlone, Alone, Done
<1>3. CASE j.at \notin Done \cup {"idle"}
  <2>1. Alone(j) = [j EXCEPT !.client = "nobody"]
    BY <1>3 DEF Alone, Done
  <2>2. /\ Alone(j) \in Job /\ Alone(j).client = "nobody" /\ Alone(j).at = j.at /\ Alone(j).t = j.t
        /\ Alone(j).code = j.code /\ Alone(j).family = j.family /\ Alone(j).device = j.device
        /\ Alone(j).doomed = j.doomed
    BY <2>1 DEF Job
  <2>3. QED
    BY <1>3, <2>2 DEF LeftAlone
<1>4. QED
  BY <1>1, <1>2, <1>3

Base == Typed /\ Attended /\ Spare /\ Families /\ Distinct

\* A request that may mint a pair finds an unused number.
LEMMA UnbornFound ==
    ASSUME Spare, NEW h \in Minting
    PROVE  Unborn # {}
<1>1. IsFiniteSet(Minting) /\ IsFiniteSet(Unborn)
  <2>1. IsFiniteSet(Handlers) /\ IsFiniteSet(Tokens)
    BY Bounds, FS_Interval DEF Tokens
  <2>2. QED
    BY <2>1, FS_Subset DEF Minting, Unborn
<1>2. Cardinality(Minting) # 0 /\ Cardinality(Minting) \in Nat
  BY <1>1, FS_EmptySet, FS_CardinalityType
<1>3. Cardinality(Unborn) # 0
  BY <1>1, <1>2, FS_CardinalityType DEF Spare
<1>4. QED
  BY <1>3, FS_EmptySet

-----------------------------------------------------------------------------
(* What each action does *)

Quiet == UNCHANGED <<redis, blocked, phone, expired, tally>>

LEMMA CheckCooldownDoes ==
    ASSUME Base, NEW h \in Handlers, CheckCooldown(h)
    PROVE  /\ handler' \in [Handlers -> Job] /\ Quiet /\ handler[h].at = "ask"
           /\ Replies(h, "cooling", None) \/ Moves(h, "send")
BY ReplyReplies, GotoMoves DEF Base, CheckCooldown, Done, Steps, Quiet

LEMMA SendCodeDoes ==
    ASSUME Base, NEW h \in Handlers, SendCode(h)
    PROVE  /\ handler' \in [Handlers -> Job] /\ handler[h].at = "send" /\ Replies(h, "ok", None)
           /\ otp'.code = sent + 1 /\ otp'.attempts = 0 /\ sent' = sent + 1 /\ cooldown' \in BOOLEAN
           /\ otp' = [code |-> sent + 1, attempts |-> 0]
           /\ UNCHANGED <<token, member, blocked, phone, expired, guesses, compared, redeemed,
                          faults, abandoned, discarded, launches>>
BY ReplyReplies DEF Base, SendCode, Done

LEMMA ReadOtpDoes ==
    ASSUME Base, NEW h \in Handlers, ReadOtp(h)
    PROVE  /\ handler' \in [Handlers -> Job] /\ handler[h].at = "verify"
           /\ UNCHANGED <<redis, blocked, phone, expired, sent, guesses, redeemed, faults,
                          abandoned, discarded, launches>>
           /\ \/ otp.code = None /\ Replies(h, "refused", None) /\ UNCHANGED compared
              \/ otp.code # None /\ otp.attempts >= MaxAttempts /\ Moves(h, "lock") /\ UNCHANGED compared
              \/ /\ otp.code # None /\ ~(otp.attempts >= MaxAttempts)
                 /\ compared' = [compared EXCEPT ![otp.code] = @ + 1]
                 /\ \E step \in {"burn", "count"} :
                       Turns(h, step, otp.code, handler[h].family, handler[h].doomed)
<1>1. handler \in [Handlers -> Job] /\ otp.code \in Codes \cup {None}
  BY DEF Base, Typed, OtpRow
<1>2. CASE otp.code = None
  BY <1>2, ReplyReplies DEF Base, ReadOtp, Done
<1>3. CASE otp.code # None /\ otp.attempts >= MaxAttempts
  BY <1>3, GotoMoves DEF Base, ReadOtp, Steps
<1>4. CASE otp.code # None /\ ~(otp.attempts >= MaxAttempts)
  <2> DEFINE at == IF handler[h].typed = otp.code THEN "burn" ELSE "count"
             j == [handler[h] EXCEPT !.code = otp.code, !.at = at]
  <2>1. /\ handler' = [handler EXCEPT ![h] = j]
        /\ compared' = [compared EXCEPT ![otp.code] = @ + 1]
        /\ handler[h].at = "verify"
        /\ UNCHANGED <<redis, blocked, phone, expired, sent, guesses, redeemed, faults,
                       abandoned, discarded, launches>>
    BY <1>1, <1>4 DEF ReadOtp
  <2>2. at \in {"burn", "count"}
    OBVIOUS
  <2> HIDE DEF at
  <2>3. /\ j \in Job /\ j.at = at /\ j.client = handler[h].client /\ j.code = otp.code
        /\ j.t = handler[h].t /\ j.family = handler[h].family /\ j.device = handler[h].device
        /\ j.doomed = handler[h].doomed
    BY ZenonT(40), <1>1, <2>2 DEF Job, Steps
  <2> HIDE DEF j
  <2>4. QED
    BY <1>1, <1>4, <2>1, <2>2, <2>3 DEF Others, Turns
<1>5. QED
  BY <1>2, <1>3, <1>4

LEMMA CountAttemptDoes ==
    ASSUME Base, NEW h \in Handlers, CountAttempt(h)
    PROVE  /\ handler' \in [Handlers -> Job] /\ handler[h].at = "count" /\ Replies(h, "refused", None)
           /\ otp' \in OtpRow /\ otp'.code = otp.code /\ otp'.attempts = otp.attempts + 1
           /\ UNCHANGED <<cooldown, token, member, blocked, phone, expired, tally>>
BY ReplyReplies DEF Base, Typed, OtpRow, CountAttempt, Done

LEMMA DropOtpDoes ==
    ASSUME Base, NEW h \in Handlers, DropOtp(h)
    PROVE  /\ handler' \in [Handlers -> Job]
           /\ \/ handler[h].at = "lock" /\ Replies(h, "refused", None)
              \/ handler[h].at = "burn" /\ Moves(h, "user")
           /\ otp' \in OtpRow /\ otp'.code = None /\ otp'.attempts = 0
           /\ UNCHANGED <<cooldown, token, member, blocked, phone, expired, tally>>
BY ReplyReplies, GotoMoves DEF Base, DropOtp, Done, Steps, OtpRow, None

LEMMA FindOrCreateUserDoes ==
    ASSUME Base, NEW h \in Handlers, FindOrCreateUser(h)
    PROVE  /\ handler' \in [Handlers -> Job] /\ Quiet /\ handler[h].at = "user"
           /\ Replies(h, "refused", None) \/ Moves(h, "issue")
BY ReplyReplies, GotoMoves DEF Base, FindOrCreateUser, Done, Steps, Quiet

LEMMA ReadRefreshDoes ==
    ASSUME Base, NEW h \in Handlers, ReadRefresh(h)
    PROVE  LET row == token[handler[h].t]
               onward(step) == Turns(h, step, handler[h].code, row.family, handler[h].doomed)
           IN  /\ handler' \in [Handlers -> Job] /\ Quiet /\ handler[h].at = "read" /\ Born(handler[h].t)
               /\ \/ row.at = "live" /\ row.device = handler[h].device /\ onward("lookup")
                  \/ row.at = "live" /\ row.device # handler[h].device /\ onward("members")
                  \/ row.at = "used" /\ onward("members")
                  \/ row.at \notin {"live", "used"} /\ Replies(h, "refused", None)
<1> DEFINE row == token[handler[h].t]
<1>1. /\ handler \in [Handlers -> Job] /\ handler[h].at = "read" /\ Born(handler[h].t)
      /\ row \in TokenRow
  BY DEF Base, Typed, ReadRefresh, Distinct, Arrived, Presented, Born
<1>2. Quiet
  BY DEF ReadRefresh, Quiet
<1>3. ASSUME NEW step \in {"lookup", "members"},
             handler' = [handler EXCEPT ![h].at = step, ![h].family = row.family]
      PROVE  /\ handler' \in [Handlers -> Job]
             /\ Turns(h, step, handler[h].code, row.family, handler[h].doomed)
  <2> DEFINE j == [handler[h] EXCEPT !.at = step, !.family = row.family]
  <2>1. handler' = [handler EXCEPT ![h] = j]
    BY <1>1, <1>3
  <2>2. row.family \in Tokens \cup {None}
    BY <1>1 DEF TokenRow
  <2> HIDE DEF row
  <2>3. /\ j \in Job /\ j.at = step /\ j.client = handler[h].client /\ j.t = handler[h].t
        /\ j.code = handler[h].code /\ j.family = row.family
        /\ j.device = handler[h].device /\ j.doomed = handler[h].doomed
    BY <1>1, <2>2 DEF Job, Steps
  <2> HIDE DEF j
  <2>4. QED
    BY <1>1, <2>1, <2>3 DEF Turns, Others
<1>4. CASE row.at = "live" /\ row.device = handler[h].device
  <2>1. handler' = [handler EXCEPT ![h].at = "lookup", ![h].family = row.family]
    BY <1>4 DEF ReadRefresh
  <2>2. QED
    BY <1>1, <1>2, <1>3, <1>4, <2>1
<1>5. CASE row.at = "live" /\ row.device # handler[h].device
  <2>1. handler' = [handler EXCEPT ![h].at = "members", ![h].family = row.family]
    BY <1>5 DEF ReadRefresh
  <2>2. QED
    BY <1>1, <1>2, <1>3, <1>5, <2>1
<1>6. CASE row.at = "used"
  <2>1. handler' = [handler EXCEPT ![h].at = "members", ![h].family = row.family]
    BY <1>6 DEF ReadRefresh
  <2>2. QED
    BY <1>1, <1>2, <1>3, <1>6, <2>1
<1>7. CASE row.at \notin {"live", "used"}
  <2>1. Reply(h, "refused", None)
    BY <1>7 DEF ReadRefresh
  <2>2. QED
    BY <1>1, <1>2, <1>7, <2>1, ReplyReplies DEF Base, Done
<1>8. QED
  BY <1>4, <1>5, <1>6, <1>7

LEMMA LookupUserDoes ==
    ASSUME Base, NEW h \in Handlers, LookupUser(h)
    PROVE  /\ handler' \in [Handlers -> Job] /\ Quiet /\ handler[h].at = "lookup"
           /\ (blocked /\ Replies(h, "refused", None)) \/ (~blocked /\ Moves(h, "rotate"))
BY ReplyReplies, GotoMoves DEF Base, LookupUser, Done, Steps, Quiet

\* The tokens other than those of U are as they were.
Untouched(U) == \A u \in Tokens \ U : token'[u] = token[u]

LEMMA RotateDoes ==
    ASSUME Base, NEW h \in Handlers, Rotate(h)
    PROVE  LET t == handler[h].t IN
           /\ handler' \in [Handlers -> Job] /\ handler[h].at = "rotate" /\ Moves(h, "issue") /\ Born(t)
           /\ token' \in [Tokens -> TokenRow] /\ Untouched({t}) /\ token'[t].at = "used"
           /\ token'[t].family = token[t].family /\ token'[t].device = token[t].device
           /\ UNCHANGED <<otp, cooldown, member, blocked, phone, expired, tally>>
<1> DEFINE t == handler[h].t
<1>1. handler[h].at = "rotate" /\ Born(t) /\ token \in [Tokens -> TokenRow] /\ t \in Tokens
  BY DEF Base, Typed, Rotate, Distinct, Arrived, Presented, Born
<1>2. /\ token' = [token EXCEPT ![t].at = "used"]
      /\ UNCHANGED <<otp, cooldown, member, blocked, phone, expired, tally>>
      /\ handler' \in [Handlers -> Job] /\ Moves(h, "issue")
  BY GotoMoves DEF Base, Rotate, Steps
<1> HIDE DEF t
<1>3. /\ token' \in [Tokens -> TokenRow] /\ Untouched({t}) /\ token'[t].at = "used"
      /\ token'[t].family = token[t].family /\ token'[t].device = token[t].device
  BY <1>1, <1>2 DEF TokenRow, Untouched
<1>4. QED
  BY <1>1, <1>2, <1>3 DEF t

\* A pair with the number t comes into the world, in family f.
Issues(h, t, f) ==
    /\ t \in Tokens /\ token[t].at = "unborn" /\ f \in Tokens
    /\ f = IF handler[h].family = None THEN t ELSE handler[h].family
    /\ token' \in [Tokens -> TokenRow] /\ Untouched({t})
    /\ token'[t].at = "live" /\ token'[t].family = f /\ token'[t].device = handler[h].device
    /\ member' \in [Tokens -> SUBSET Tokens] /\ member'[f] = member[f] \cup {t}
    /\ \A u \in Tokens \ {f} : member'[u] = member[u]
    /\ Replies(h, "ok", t)

LEMMA IssueTokensDoes ==
    ASSUME Base, NEW h \in Handlers, IssueTokens(h)
    PROVE  /\ handler' \in [Handlers -> Job] /\ handler[h].at = "issue"
           /\ \E t \in Tokens, f \in Tokens : Issues(h, t, f)
           /\ redeemed' = redeemed \cup ({handler[h].code} \ {None})
           /\ UNCHANGED <<otp, cooldown, blocked, phone, expired, sent, guesses, compared, faults,
                          abandoned, discarded, launches>>
<1> DEFINE t == CHOOSE u \in Unborn : TRUE
           f == IF handler[h].family = None THEN t ELSE handler[h].family
           row == [at |-> "live", family |-> f, device |-> handler[h].device]
<1>1. /\ handler[h].at = "issue"
      /\ token' = [token EXCEPT ![t] = row]
      /\ member' = [member EXCEPT ![f] = @ \cup {t}]
      /\ redeemed' = redeemed \cup ({handler[h].code} \ {None})
      /\ Reply(h, "ok", t)
      /\ UNCHANGED <<otp, cooldown, blocked, phone, expired, sent, guesses, compared, faults,
                     abandoned, discarded, launches>>
  BY DEF IssueTokens
<1>2. /\ token \in [Tokens -> TokenRow] /\ member \in [Tokens -> SUBSET Tokens]
      /\ handler[h].device \in Nat /\ handler[h].family \in Tokens \cup {None}
  BY DEF Base, Typed, Job
<1>3. t \in Tokens /\ token[t].at = "unborn"
  <2>1. Unborn # {}
    BY <1>1, UnbornFound DEF Base, Minting
  <2>2. t \in Unborn
    BY <2>1
  <2>3. QED
    BY <2>2 DEF Unborn
<1> HIDE DEF t
<1>4. f \in Tokens
  BY <1>2, <1>3
<1>5. f = IF handler[h].family = None THEN t ELSE handler[h].family
  OBVIOUS
<1> HIDE DEF f
<1>6. row \in TokenRow /\ row.at = "live" /\ row.family = f /\ row.device = handler[h].device
  BY <1>2, <1>4 DEF TokenRow
<1> HIDE DEF row
<1>7. /\ token' \in [Tokens -> TokenRow] /\ Untouched({t}) /\ token'[t] = row
      /\ member' \in [Tokens -> SUBSET Tokens] /\ member'[f] = member[f] \cup {t}
      /\ \A u \in Tokens \ {f} : member'[u] = member[u]
  BY <1>1, <1>2, <1>3, <1>4, <1>6 DEF Untouched
<1>8. handler' \in [Handlers -> Job] /\ Replies(h, "ok", t)
  BY <1>1, <1>3, ReplyReplies DEF Base, Done
<1>9. Issues(h, t, f)
  BY <1>3, <1>4, <1>5, <1>6, <1>7, <1>8 DEF Issues
<1>10. QED
  BY <1>1, <1>3, <1>4, <1>8, <1>9

LEMMA ReadMembersDoes ==
    ASSUME Base, NEW h \in Handlers, ReadMembers(h)
    PROVE  LET f == handler[h].family IN
           /\ handler' \in [Handlers -> Job] /\ Quiet /\ handler[h].at = "members" /\ Born(f)
           /\ Turns(h, "revoke", handler[h].code, f, member[f])
<1>1. /\ handler \in [Handlers -> Job] /\ handler[h].at = "members" /\ Born(handler[h].family)
      /\ handler[h].family \in Tokens /\ member[handler[h].family] \subseteq Tokens
  BY DEF Base, Typed, ReadMembers, Families, JobFamily, Born
<1> DEFINE doomed == member[handler[h].family]
           j == [handler[h] EXCEPT !.at = "revoke", !.doomed = doomed]
<1>2. handler' = [handler EXCEPT ![h] = j] /\ Quiet
  BY <1>1 DEF ReadMembers, Quiet
<1>3. doomed \subseteq Tokens
  BY <1>1
<1> HIDE DEF doomed
<1>4. /\ j \in Job /\ j.at = "revoke" /\ j.client = handler[h].client /\ j.t = handler[h].t
      /\ j.code = handler[h].code /\ j.family = handler[h].family
      /\ j.device = handler[h].device /\ j.doomed = doomed
  BY <1>1, <1>3 DEF Job, Steps
<1> HIDE DEF j
<1>5. QED
  BY <1>1, <1>2, <1>4 DEF Turns, Others, doomed

\* The tokens of D that were live are revoked.
Revokes(D) ==
    /\ token' \in [Tokens -> TokenRow]
    /\ \A u \in Tokens : /\ token'[u].family = token[u].family /\ token'[u].device = token[u].device
                         /\ IF u \in D /\ token[u].at = "live" THEN token'[u].at = "gone"
                            ELSE token'[u] = token[u]

LEMMA RevokeFamilyDoes ==
    ASSUME Base, NEW h \in Handlers, RevokeFamily(h)
    PROVE  /\ handler' \in [Handlers -> Job] /\ handler[h].at = "revoke" /\ Replies(h, "refused", None)
           /\ Revokes(handler[h].doomed)
           /\ member' \in [Tokens -> SUBSET Tokens]
           /\ \A u \in Tokens : member'[u] = member[u] \/ member'[u] = {}
           /\ UNCHANGED <<otp, cooldown, blocked, phone, expired, tally>>
<1> DEFINE D == handler[h].doomed  f == handler[h].family
<1>1. /\ token \in [Tokens -> TokenRow] /\ member \in [Tokens -> SUBSET Tokens]
      /\ f \in Tokens /\ handler[h].at = "revoke"
  BY DEF Base, Typed, RevokeFamily, Families, JobFamily, Born
<1>2. /\ token' = [t \in Tokens |-> IF t \in D /\ token[t].at = "live"
                                    THEN [token[t] EXCEPT !.at = "gone"] ELSE token[t]]
      /\ member' = IF D = {} THEN member ELSE [member EXCEPT ![f] = {}]
      /\ Reply(h, "refused", None)
      /\ UNCHANGED <<otp, cooldown, blocked, phone, expired, tally>>
  BY DEF RevokeFamily
<1>3. handler' \in [Handlers -> Job] /\ Replies(h, "refused", None)
  BY <1>2, ReplyReplies DEF Base, Done
<1> HIDE DEF D, f
<1>4. Revokes(D)
  BY <1>1, <1>2 DEF Revokes, TokenRow
<1>5. member' \in [Tokens -> SUBSET Tokens] /\ \A u \in Tokens : member'[u] = member[u] \/ member'[u] = {}
  BY <1>1, <1>2
<1>6. QED
  BY <1>1, <1>2, <1>3, <1>4, <1>5 DEF D

Working == {"ask", "send", "verify", "count", "lock", "burn", "user", "read",
            "lookup", "rotate", "issue", "members", "revoke"}

LEMMA ServerErrorDoes ==
    ASSUME Base, NEW h \in Handlers, ServerError(h)
    PROVE  /\ handler' \in [Handlers -> Job] /\ handler[h].at \in Working /\ Replies(h, "failed", None)
           /\ abandoned' = abandoned + 1 /\ faults' = faults + 1
           /\ UNCHANGED <<redis, blocked, phone, expired, sent, guesses, compared, redeemed,
                          discarded, launches>>
BY ReplyReplies DEF Base, ServerError, Done, Working

-----------------------------------------------------------------------------
(* What each action of the app does *)

\* An idle handler starts on a request.
Starts(h, step, client, t, device) ==
    /\ Others(h)
    /\ handler[h].at = "idle" /\ handler'[h] \in Job
    /\ handler'[h].at = step /\ handler'[h].client = client /\ handler'[h].t = t
    /\ handler'[h].code = None /\ handler'[h].family = None
    /\ handler'[h].device = device /\ handler'[h].doomed = {}

LEMMA ServeStarts ==
    ASSUME Typed, NEW h \in Handlers, NEW step \in Steps, NEW client \in {"nobody", "login", "refresh"},
           NEW t \in Tokens \cup {None}, NEW typed \in Codes \cup {None}, NEW device \in Nat,
           Serve(h, Task(step, client, t, typed, device))
    PROVE  Starts(h, step, client, t, device) /\ handler' \in [Handlers -> Job]
<1>1. handler \in [Handlers -> Job]
  BY DEF Typed
<1> DEFINE j == Task(step, client, t, typed, device)
<1>2. /\ j \in Job /\ j.at = step /\ j.client = client /\ j.t = t
      /\ j.device = device /\ j.code = None /\ j.family = None /\ j.doomed = {}
  BY DEF Task, Job, None
<1>3. handler[h].at = "idle" /\ handler' = [handler EXCEPT ![h] = j]
  BY DEF Serve
<1> HIDE DEF j
<1>4. QED
  BY <1>1, <1>2, <1>3 DEF Starts, Others

LEMMA FreeWait ==
    /\ Free \in LoginRow /\ Free \in RefreshRow
    /\ Free.at = "free" /\ Free.h = None /\ Free.t = None
BY DEF Free, LoginRow, RefreshRow, Wait, None

LEMMA NoCallRow ==
    /\ NoCall \in CallRow /\ NoCall.at = "none" /\ NoCall.kind = "api" /\ NoCall.bearer = None
    /\ NoCall.tries = 0 /\ NoCall.replayed = FALSE
BY DEF NoCall, CallRow, None

LEMMA AskCodeDoes ==
    ASSUME Base, NEW h \in Handlers, AskCode(h)
    PROVE  /\ handler' \in [Handlers -> Job] /\ Starts(h, "ask", "login", None, None)
           /\ app.stage \in {"phoneEntry", "codeEntry"} /\ login = Free /\ MayAsk
           /\ login' = [at |-> "asked", h |-> h, t |-> None]
           /\ UNCHANGED <<redis, blocked, app, refresh, call, expired, tally>>
<1>1. Serve(h, Task("ask", "login", None, None, None))
  BY DEF AskCode, Asking
<1>2. Starts(h, "ask", "login", None, None) /\ handler' \in [Handlers -> Job]
  BY <1>1, ServeStarts DEF Base, Steps, None
<1>3. QED
  BY <1>2 DEF AskCode

LEMMA TypeCodeDoes ==
    ASSUME Base, NEW h \in Handlers, NEW c \in 0..sent, TypeCode(h, c)
    PROVE  /\ handler' \in [Handlers -> Job] /\ Starts(h, "verify", "login", None, app.device)
           /\ app.stage = "codeEntry" /\ login = Free /\ MayMint
           /\ c \in Codes \cup {None}
           /\ login' = [at |-> "typed", h |-> h, t |-> c] /\ guesses' = guesses + 1
           /\ UNCHANGED <<redis, blocked, app, refresh, call, expired, sent, compared, redeemed,
                          faults, abandoned, discarded, launches>>
<1>1. Serve(h, Task("verify", "login", None, c, app.device)) /\ app.device \in Nat
  BY DEF TypeCode, Verifying, Base, Typed, AppRow
<1>2. c \in Codes \cup {None}
  <2>1. IsFiniteSet(Asks)
    BY Bounds, FS_Subset DEF Asks
  <2>2. Cardinality(Asks) \in Nat
    BY <2>1, FS_CardinalityType
  <2>3. sent <= MaxCodes /\ sent \in Nat /\ MaxCodes \in Nat
    BY <2>2, Bounds DEF Base, Typed, Spare
  <2>4. QED
    BY <2>3 DEF Codes, None
<1>3. Starts(h, "verify", "login", None, app.device) /\ handler' \in [Handlers -> Job]
  BY <1>1, <1>2, ServeStarts DEF Base, Steps, None
<1>4. QED
  BY <1>2, <1>3 DEF TypeCode

LEMMA TypeAgainDoes ==
    ASSUME Base, NEW h \in Handlers, TypeAgain(h)
    PROVE  /\ handler' \in [Handlers -> Job] /\ Starts(h, "verify", "login", None, app.device)
           /\ login.at = "resend" /\ MayMint /\ login.t \in Codes \cup {None}
           /\ login' \in LoginRow /\ login'.at = "again" /\ login'.h = h /\ login'.t = login.t
           /\ UNCHANGED <<redis, blocked, app, refresh, call, expired, tally>>
<1>1. Serve(h, Task("verify", "login", None, login.t, app.device)) /\ app.device \in Nat
  BY DEF TypeAgain, Verifying, Base, Typed, AppRow
<1>2. login.at = "resend" /\ login.t \in Codes \cup {None} /\ login \in LoginRow
  BY DEF TypeAgain, Base, Typed, Attended, Serves, LoginWaits, RefreshWaits
<1>3. Starts(h, "verify", "login", None, app.device) /\ handler' \in [Handlers -> Job]
  BY <1>1, <1>2, ServeStarts DEF Base, Steps, None
<1>4. login' \in LoginRow /\ login'.at = "again" /\ login'.h = h /\ login'.t = login.t
  BY <1>2 DEF TypeAgain, LoginRow, Wait
<1>5. QED
  BY <1>2, <1>3, <1>4 DEF TypeAgain

\* The client that handler h answered does not wait any more.
Forsakes(h) == Others(h) /\ LeftAlone(handler[h], handler'[h])

LEMMA AloneForsakes ==
    ASSUME Typed, NEW h \in Handlers, handler' = [handler EXCEPT ![h] = Alone(@)]
    PROVE  Forsakes(h) /\ handler' \in [Handlers -> Job]
<1>1. handler \in [Handlers -> Job]
  BY DEF Typed
<1> DEFINE k == Alone(handler[h])
<1>2. LeftAlone(handler[h], k) /\ k \in Job
  BY <1>1, AloneLeft DEF LeftAlone
<1>3. handler' = [handler EXCEPT ![h] = k]
  OBVIOUS
<1> HIDE DEF k
<1>4. QED
  BY <1>1, <1>2, <1>3 DEF Forsakes, Others

\* The sign-in request stops waiting, for good or to be sent again to handler h.
LEMMA SignInTimesOutDoes ==
    ASSUME Base, NEW h \in Handlers, SignInTimesOut(h)
    PROVE  /\ handler' \in [Handlers -> Job] /\ login.h \in Handlers
           /\ faults' = faults + 1 /\ abandoned' = abandoned + 1
           /\ \/ login' = Free /\ Forsakes(login.h)
              \/ /\ h # login.h /\ handler[h].at = "idle" /\ MayMint
                 /\ login' \in LoginRow /\ login'.at = login.at /\ login'.h = h /\ login'.t = login.t
                 /\ LeftAlone(handler[login.h], handler'[login.h])
                 /\ \A k \in Handlers \ {h, login.h} : handler'[k] = handler[k]
                 /\ handler'[h].client = "login" /\ handler'[h].t = None /\ handler'[h].code = None
                 /\ handler'[h].family = None /\ handler'[h].doomed = {}
                 /\ \/ login.at = "asked" /\ MayAsk /\ handler'[h].at = "ask" /\ handler'[h].device = None
                    \/ login.at # "asked" /\ handler'[h].at = "verify" /\ handler'[h].device = app.device
           /\ UNCHANGED <<redis, blocked, app, refresh, call, expired, sent, guesses, compared,
                          redeemed, discarded, launches>>
<1>1. /\ login.h \in Handlers /\ login \in LoginRow /\ login.at \in {"asked", "typed", "again"}
      /\ login.t \in Codes \cup {None} /\ app.device \in Nat /\ handler \in [Handlers -> Job]
  BY DEF Base, Typed, Attended, Serves, LoginWaits, RefreshWaits, LoginRow, Wait, SignInTimesOut, Waiting, AppRow
<1>2. /\ faults' = faults + 1 /\ abandoned' = abandoned + 1
      /\ UNCHANGED <<redis, blocked, app, refresh, call, expired, sent, guesses, compared,
                     redeemed, discarded, launches>>
  BY DEF SignInTimesOut
<1>3. CASE login' = Free /\ handler' = [handler EXCEPT ![login.h] = Alone(@)]
  BY <1>1, <1>2, <1>3, AloneForsakes DEF Base
<1>4. CASE /\ h # login.h /\ handler[h].at = "idle" /\ MayMint
           /\ login.at = "asked" => MayAsk
           /\ handler' = [handler EXCEPT ![login.h] = Alone(@),
                             ![h] = IF login.at = "asked" THEN Asking ELSE Verifying(login.t)]
           /\ login' = [login EXCEPT !.h = h]
  <2> DEFINE k == Alone(handler[login.h])
             j == IF login.at = "asked" THEN Asking ELSE Verifying(login.t)
  <2>1. LeftAlone(handler[login.h], k) /\ k \in Job
    BY <1>1, AloneLeft DEF LeftAlone
  <2>2. /\ j \in Job /\ j.client = "login" /\ j.t = None /\ j.code = None /\ j.family = None
        /\ j.doomed = {}
        /\ \/ login.at = "asked" /\ j.at = "ask" /\ j.device = None
           \/ login.at # "asked" /\ j.at = "verify" /\ j.device = app.device
    <3>1. CASE login.at = "asked"
      <4>1. j = Task("ask", "login", None, None, None)
        BY <3>1 DEF Asking
      <4> HIDE DEF j
      <4>2. QED
        BY <3>1, <4>1, TaskJob DEF Steps, None
    <3>2. CASE login.at # "asked"
      <4>1. j = Task("verify", "login", None, login.t, app.device)
        BY <3>2 DEF Verifying
      <4> HIDE DEF j
      <4>2. QED
        BY <1>1, <3>2, <4>1, TaskJob DEF Steps, None
    <3>3. QED
      BY <3>1, <3>2
  <2>3. handler' = [handler EXCEPT ![login.h] = k, ![h] = j]
    BY <1>4
  <2> HIDE DEF j, k
  <2>4. /\ handler' \in [Handlers -> Job] /\ handler'[login.h] = k /\ handler'[h] = j
        /\ \A g \in Handlers \ {h, login.h} : handler'[g] = handler[g]
    BY <1>1, <1>4, <2>1, <2>2, <2>3
  <2>5. login' \in LoginRow /\ login'.at = login.at /\ login'.h = h /\ login'.t = login.t
    BY <1>1, <1>4 DEF LoginRow, Wait
  <2>6. QED
    BY <1>1, <1>2, <1>4, <2>1, <2>2, <2>4, <2>5
<1>5. QED
  BY <1>3, <1>4 DEF SignInTimesOut

\* The handler of a reply that was heard is idle again.
Heard(h) == Others(h) /\ handler'[h] = Idle

LEMMA IdleHeard ==
    ASSUME Typed, NEW h \in Handlers, handler' = [handler EXCEPT ![h] = Idle]
    PROVE  Heard(h) /\ handler' \in [Handlers -> Job]
BY IdleJob DEF Typed, Heard, Others

\* Somebody needs a refresh: the one under way, or a new one.
Joins == \/ refresh = Free /\ refresh' \in RefreshRow /\ refresh'.at = "reading" /\ refresh'.h = None
         \/ refresh # Free /\ refresh' = refresh

LEMMA JoinedJoins ==
    ASSUME Typed, refresh' = Joined
    PROVE  Joins /\ refresh' \in RefreshRow
BY FreeWait DEF Typed, Joined, Joins, RefreshRow, Wait

LEMMA SignInAnsweredDoes ==
    ASSUME Base, SignInAnswered
    PROVE  LET h == login.h  t == handler[h].t IN
           /\ handler' \in [Handlers -> Job] /\ h \in Handlers /\ Heard(h)
           /\ handler[h].client = "login" /\ handler[h].at \in Done
           /\ \/ /\ handler[h].at = "ok" /\ t = None /\ login' = Free
                 /\ app' \in AppRow /\ app'.stage = "codeEntry" /\ app'.access = app.access
                 /\ app'.refresh = app.refresh /\ app'.device = app.device /\ UNCHANGED refresh
              \/ /\ handler[h].at = "ok" /\ t \in Tokens /\ login' = [at |-> "access", h |-> None, t |-> t]
                 /\ UNCHANGED <<app, refresh>>
              \/ handler[h].at # "ok" /\ login' = Free /\ UNCHANGED <<app, refresh>>
              \/ /\ handler[h].at = "refused" /\ app.refresh # None /\ login.at = "typed"
                 /\ login' \in LoginRow /\ login'.at = "waiting" /\ login'.h = None /\ login'.t = login.t
                 /\ Joins /\ refresh' \in RefreshRow /\ UNCHANGED app
           /\ UNCHANGED <<redis, blocked, call, expired, tally>>
<1> DEFINE h == login.h  t == handler[h].t
<1>1. /\ h \in Handlers /\ login \in LoginRow /\ handler \in [Handlers -> Job] /\ app \in AppRow
      /\ handler[h].client = "login" /\ handler[h].at \in Done /\ t \in Tokens \cup {None}
  BY DEF Base, Typed, Attended, Serves, LoginWaits, RefreshWaits, LoginRow, Wait, SignInAnswered, Replied, Waiting, Done, Job
<1>2. Heard(h) /\ handler' \in [Handlers -> Job] /\ UNCHANGED <<redis, blocked, call, expired, tally>>
  BY <1>1, IdleHeard DEF Base, SignInAnswered
<1>3. CASE /\ Replied(login, "ok")
           /\ login' = IF t = None THEN Free ELSE [at |-> "access", h |-> None, t |-> t]
           /\ app' = IF t = None THEN [app EXCEPT !.stage = "codeEntry"] ELSE app
           /\ UNCHANGED refresh
  <2>1. handler[h].at = "ok"
    BY <1>3 DEF Replied
  <2>2. CASE t = None
    <3>1. /\ app' \in AppRow /\ app'.stage = "codeEntry" /\ app'.access = app.access
          /\ app'.refresh = app.refresh /\ app'.device = app.device
      BY <1>1, <1>3, <2>2 DEF AppRow
    <3>2. QED
      BY <1>1, <1>2, <1>3, <2>1, <2>2, <3>1
  <2>3. CASE t # None
    BY <1>1, <1>2, <1>3, <2>1, <2>3
  <2>4. QED
    BY <2>2, <2>3
<1>4. CASE /\ Replied(login, "cooling") \/ Replied(login, "failed")
                \/ (Replied(login, "refused") /\ (app.refresh = None \/ login.at = "again"))
           /\ login' = Free
           /\ UNCHANGED <<app, refresh>>
  BY <1>1, <1>2, <1>4 DEF Replied
<1>5. CASE /\ Replied(login, "refused") /\ app.refresh # None /\ login.at = "typed"
           /\ login' = [login EXCEPT !.at = "waiting", !.h = None]
           /\ refresh' = Joined
           /\ UNCHANGED app
  <2>1. Joins /\ refresh' \in RefreshRow
    BY <1>5, JoinedJoins DEF Base
  <2>2. login' \in LoginRow /\ login'.at = "waiting" /\ login'.h = None /\ login'.t = login.t
    BY <1>1, <1>5 DEF LoginRow, Wait
  <2>3. QED
    BY <1>1, <1>2, <1>5, <2>1, <2>2 DEF Replied
<1>6. QED
  BY <1>3, <1>4, <1>5 DEF SignInAnswered

LEMMA BackToPhoneDoes ==
    ASSUME Base, BackToPhone
    PROVE  /\ app.stage = "codeEntry" /\ app' \in AppRow /\ app'.stage = "phoneEntry"
           /\ app'.access = app.access /\ app'.refresh = app.refresh /\ app'.device = app.device
           /\ UNCHANGED <<redis, blocked, handler, login, refresh, call, expired, tally>>
BY DEF Base, Typed, AppRow, BackToPhone

LEMMA SaveSignInDoes ==
    ASSUME Base, SaveSignIn
    PROVE  /\ app' \in AppRow /\ app'.device = app.device
           /\ login.t \in Tokens
           /\ \/ /\ login.at = "access" /\ app'.access = login.t /\ app'.refresh = app.refresh
                 /\ app'.stage = app.stage
                 /\ login' \in LoginRow /\ login'.at = "refresh" /\ login'.h = login.h /\ login'.t = login.t
                 /\ UNCHANGED discarded
              \/ /\ login.at = "refresh" /\ app'.refresh = login.t /\ app'.access = app.access
                 /\ app'.stage = "authenticated" /\ login' = Free
                 /\ discarded' = IF app.refresh = None THEN discarded ELSE discarded + 1
           /\ UNCHANGED <<redis, blocked, handler, refresh, call, expired, sent, guesses, compared,
                          redeemed, faults, abandoned, launches>>
<1>1. login \in LoginRow /\ app \in AppRow /\ (login.at \in {"access", "refresh"} => login.t \in Tokens)
  BY DEF Base, Typed, Attended, Serves, LoginWaits, RefreshWaits
<1>2. CASE /\ login.at = "access"
           /\ app' = [app EXCEPT !.access = login.t]
           /\ login' = [login EXCEPT !.at = "refresh"]
           /\ UNCHANGED discarded
  BY <1>1, <1>2 DEF SaveSignIn, AppRow, LoginRow, Wait
<1>3. CASE /\ login.at = "refresh"
           /\ app' = [app EXCEPT !.refresh = login.t, !.stage = "authenticated"]
           /\ login' = Free
           /\ discarded' = IF app.refresh = None THEN discarded ELSE discarded + 1
  BY <1>1, <1>3 DEF SaveSignIn, AppRow
<1>4. QED
  BY <1>2, <1>3 DEF SaveSignIn

\* Call c is now at the step, with this bearer.
Sends(c, bearer, replayed) ==
    /\ call' \in [Calls -> CallRow]
    /\ \A k \in Calls \ {c} : call'[k] = call[k]
    /\ call'[c].at = "sent" /\ call'[c].bearer = bearer /\ call'[c].replayed = replayed

LEMMA StartCallDoes ==
    ASSUME Base, NEW c \in Calls, NEW kind \in {"api", "logout"}, StartCall(c, kind)
    PROVE  /\ app.stage = "authenticated" /\ call[c] = NoCall
           /\ Sends(c, app.access, FALSE) /\ call'[c].kind = kind
           /\ UNCHANGED <<redis, blocked, handler, app, login, refresh, expired, tally>>
<1> DEFINE k == [NoCall EXCEPT !.at = "sent", !.kind = kind, !.bearer = app.access]
<1>1. k \in CallRow /\ k.at = "sent" /\ k.kind = kind /\ k.bearer = app.access /\ k.replayed = FALSE
  BY NoCallRow DEF CallRow, Base, Typed, AppRow
<1>2. call \in [Calls -> CallRow] /\ call' = [call EXCEPT ![c] = k]
  BY DEF Base, Typed, StartCall
<1> HIDE DEF k
<1>3. Sends(c, app.access, FALSE) /\ call'[c].kind = kind
  BY <1>1, <1>2 DEF Sends
<1>4. QED
  BY <1>3 DEF StartCall

\* The app is signed out; or it is in; or nothing comes of the end of the call.
SignsOut == /\ app' \in AppRow /\ app'.stage = "phoneEntry" /\ app'.access = None
            /\ app'.refresh = None /\ app'.device = app.device
            /\ discarded' = IF app.refresh # None THEN discarded + 1 ELSE discarded
Enters   == /\ app' \in AppRow /\ app'.stage = "authenticated" /\ app'.access = app.access
            /\ app'.refresh = app.refresh /\ app'.device = app.device /\ UNCHANGED discarded
Ends(c, result) ==
    \/ call[c].kind = "logout" /\ SignsOut
    \/ call[c].kind = "restore" /\ result = "401" /\ SignsOut
    \/ call[c].kind = "restore" /\ result # "401" /\ Enters
    \/ call[c].kind = "api" /\ UNCHANGED <<app, discarded>>

LEMMA EndedEnds ==
    ASSUME Typed, NEW c \in Calls, NEW result, app' = Ended(c, result),
           discarded' = IF app'.refresh = None /\ app.refresh # None THEN discarded + 1 ELSE discarded
    PROVE  Ends(c, result)
<1>1. app \in AppRow /\ call[c].kind \in {"api", "logout", "restore"}
  BY DEF Typed, CallRow
<1>2. CASE call[c].kind = "logout" \/ (call[c].kind = "restore" /\ result = "401")
  <2>1. app' = [app EXCEPT !.stage = "phoneEntry", !.access = None, !.refresh = None]
    BY <1>2 DEF Ended
  <2>2. SignsOut
    BY <1>1, <2>1 DEF SignsOut, AppRow
  <2>3. QED
    BY <1>2, <2>2 DEF Ends
<1>3. CASE call[c].kind = "restore" /\ result # "401"
  <2>1. app' = [app EXCEPT !.stage = "authenticated"]
    BY <1>3 DEF Ended
  <2>2. Enters
    BY <1>1, <2>1 DEF Enters, AppRow
  <2>3. QED
    BY <1>3, <2>2 DEF Ends
<1>4. CASE call[c].kind = "api"
  BY <1>4 DEF Ended, Ends
<1>5. QED
  BY <1>1, <1>2, <1>3, <1>4

\* Call c is over.
Over(c, result) ==
    /\ Ends(c, result)
    /\ call' \in [Calls -> CallRow] /\ call'[c] = NoCall
    /\ \A k \in Calls \ {c} : call'[k] = call[k]

LEMMA FinishOver ==
    ASSUME Typed, NEW c \in Calls, NEW result, Finish(c, result)
    PROVE  Over(c, result)
<1>1. Ends(c, result)
  BY EndedEnds DEF Finish
<1>2. QED
  BY <1>1, NoCallRow DEF Typed, Finish, Over

LEMMA AnsweredDoes ==
    ASSUME Base, NEW c \in Calls, Answered(c)
    PROVE  /\ call[c].at = "sent"
           /\ \/ Good(c) /\ Over(c, "200") /\ UNCHANGED refresh
              \/ ~Good(c) /\ call[c].replayed /\ Over(c, "401") /\ UNCHANGED refresh
              \/ /\ ~Good(c) /\ ~call[c].replayed
                 /\ call' \in [Calls -> CallRow] /\ call'[c].at = "waiting" /\ call'[c].kind = call[c].kind
                 /\ call'[c].bearer = call[c].bearer /\ call'[c].replayed = call[c].replayed
                 /\ \A k \in Calls \ {c} : call'[k] = call[k]
                 /\ Joins /\ refresh' \in RefreshRow /\ UNCHANGED <<app, discarded>>
           /\ UNCHANGED <<redis, blocked, handler, login, expired, sent, guesses, compared, redeemed,
                          faults, abandoned, launches>>
<1>1. /\ call[c].at = "sent"
      /\ UNCHANGED <<redis, blocked, handler, login, expired, sent, guesses, compared, redeemed,
                     faults, abandoned, launches>>
  BY DEF Answered
<1>2. CASE Good(c) /\ Finish(c, "200") /\ UNCHANGED refresh
  BY <1>1, <1>2, FinishOver DEF Base
<1>3. CASE ~Good(c) /\ call[c].replayed /\ Finish(c, "401") /\ UNCHANGED refresh
  BY <1>1, <1>3, FinishOver DEF Base
<1>4. CASE /\ ~Good(c) /\ ~call[c].replayed
           /\ call' = [call EXCEPT ![c].at = "waiting"]
           /\ refresh' = Joined
           /\ UNCHANGED <<app, discarded>>
  <2>1. Joins /\ refresh' \in RefreshRow
    BY <1>4, JoinedJoins DEF Base
  <2>2. call \in [Calls -> CallRow] /\ call[c] \in CallRow
    BY DEF Base, Typed
  <2>3. /\ call' \in [Calls -> CallRow] /\ call'[c].at = "waiting" /\ call'[c].kind = call[c].kind
        /\ call'[c].bearer = call[c].bearer /\ call'[c].replayed = call[c].replayed
        /\ \A k \in Calls \ {c} : call'[k] = call[k]
    BY <1>4, <2>2 DEF CallRow
  <2>4. QED
    BY <1>1, <1>4, <2>1, <2>3
<1>5. QED
  BY <1>2, <1>3, <1>4 DEF Answered, Good

LEMMA UnansweredDoes ==
    ASSUME Base, NEW c \in Calls, Unanswered(c)
    PROVE  /\ call[c].at = "sent" /\ faults' = faults + 1
           /\ \/ /\ Sends(c, app.access, call[c].replayed) /\ call'[c].kind = call[c].kind
                 /\ UNCHANGED <<app, discarded>>
              \/ Over(c, "network")
           /\ UNCHANGED <<redis, blocked, handler, login, refresh, expired, sent, guesses, compared,
                          redeemed, abandoned, launches>>
<1>1. /\ call[c].at = "sent" /\ faults' = faults + 1
      /\ UNCHANGED <<redis, blocked, handler, login, refresh, expired, sent, guesses, compared,
                     redeemed, abandoned, launches>>
  BY DEF Unanswered
<1>2. CASE Finish(c, "network")
  BY <1>1, <1>2, FinishOver DEF Base
<1>3. CASE /\ call[c].tries < 2
           /\ call' = [call EXCEPT ![c] = Sent(c, call[c].replayed, call[c].tries + 1)]
           /\ UNCHANGED <<app, discarded>>
  <2> DEFINE k == Sent(c, call[c].replayed, call[c].tries + 1)
  <2>1. call \in [Calls -> CallRow] /\ call' = [call EXCEPT ![c] = k]
    BY <1>3 DEF Base, Typed
  <2>2. /\ k \in CallRow /\ k.at = "sent" /\ k.kind = call[c].kind /\ k.bearer = app.access
        /\ k.replayed = call[c].replayed
    BY <1>3, <2>1 DEF CallRow, Base, Typed, AppRow, Sent
  <2> HIDE DEF k
  <2>3. Sends(c, app.access, call[c].replayed) /\ call'[c].kind = call[c].kind
    BY <2>1, <2>2 DEF Sends
  <2>4. QED
    BY <1>1, <1>3, <2>3
<1>4. QED
  BY <1>2, <1>3 DEF Unanswered

LEMMA RestoreDoes ==
    ASSUME Base, NEW c \in Calls, Restore(c)
    PROVE  /\ app.stage = "checking"
           /\ \A k \in Calls : call[k] = NoCall
           /\ \/ /\ app.refresh = None \/ faults' = faults + 1
                 /\ faults' = faults \/ faults' = faults + 1
                 /\ app' \in AppRow /\ app'.stage = "phoneEntry" /\ app'.access = app.access
                 /\ app'.refresh = app.refresh /\ app'.device = app.device /\ UNCHANGED call
              \/ /\ app.refresh # None /\ Sends(c, app.access, FALSE) /\ call'[c].kind = "restore"
                 /\ UNCHANGED <<app, faults>>
           /\ UNCHANGED <<redis, blocked, handler, login, refresh, expired, sent, guesses, compared,
                          redeemed, abandoned, discarded, launches>>
<1>1. /\ app.stage = "checking"
      /\ \A k \in Calls : call[k] = NoCall
      /\ UNCHANGED <<redis, blocked, handler, login, refresh, expired, sent, guesses, compared,
                     redeemed, abandoned, discarded, launches>>
  BY DEF Restore
<1>2. CASE /\ app' = [app EXCEPT !.stage = "phoneEntry"] /\ UNCHANGED call
           /\ \/ app.refresh = None /\ UNCHANGED faults
              \/ faults' = faults + 1
  <2>1. /\ app' \in AppRow /\ app'.stage = "phoneEntry" /\ app'.access = app.access
        /\ app'.refresh = app.refresh /\ app'.device = app.device
    BY <1>2 DEF Base, Typed, AppRow
  <2>2. QED
    BY <1>1, <1>2, <2>1
<1>3. CASE /\ app.refresh # None
           /\ call' = [call EXCEPT ![c] = [NoCall EXCEPT !.at = "sent", !.kind = "restore",
                                                         !.bearer = app.access]]
           /\ UNCHANGED <<app, faults>>
  <2> DEFINE k == [NoCall EXCEPT !.at = "sent", !.kind = "restore", !.bearer = app.access]
  <2>1. k \in CallRow /\ k.at = "sent" /\ k.kind = "restore" /\ k.bearer = app.access /\ k.replayed = FALSE
    BY NoCallRow DEF CallRow, Base, Typed, AppRow
  <2>2. call \in [Calls -> CallRow] /\ call' = [call EXCEPT ![c] = k]
    BY <1>3 DEF Base, Typed
  <2> HIDE DEF k
  <2>3. Sends(c, app.access, FALSE) /\ call'[c].kind = "restore"
    BY <2>1, <2>2 DEF Sends
  <2>4. QED
    BY <1>1, <1>3, <2>3
<1>4. QED
  BY <1>2, <1>3 DEF Restore

LEMMA StartRefreshDoes ==
    ASSUME Base, NEW h \in Handlers, StartRefresh(h)
    PROVE  /\ handler' \in [Handlers -> Job] /\ Starts(h, "read", "refresh", app.refresh, app.device)
           /\ refresh.at = "reading" /\ app.refresh \in Tokens /\ MayMint
           /\ refresh' = [at |-> "sent", h |-> h, t |-> app.refresh]
           /\ UNCHANGED <<redis, blocked, app, login, call, expired, tally>>
<1>1. /\ Serve(h, Task("read", "refresh", app.refresh, None, app.device)) /\ app.device \in Nat
      /\ app.refresh \in Tokens
  BY DEF StartRefresh, Base, Typed, AppRow
<1>2. Starts(h, "read", "refresh", app.refresh, app.device) /\ handler' \in [Handlers -> Job]
  BY <1>1, ServeStarts DEF Base, Steps, None
<1>3. QED
  BY <1>1, <1>2 DEF StartRefresh

\* The refresh is over without a pair, for everybody who waited for it.
Fails(result) ==
    /\ refresh' = Free
    /\ call' \in [Calls -> CallRow]
    /\ \A c \in Calls : call'[c] = IF call[c].at = "waiting" THEN NoCall ELSE call[c]
    /\ \/ UNCHANGED <<app, discarded>>
       \/ \E c \in Calls : call[c].at = "waiting" /\ call[c].kind # "api" /\ Ends(c, result)
    /\ \/ login.at = "waiting" /\ login' = Free
       \/ login.at # "waiting" /\ login' = login

LEMMA RefreshFailedFails ==
    ASSUME Typed, NEW result, RefreshFailed(result)
    PROVE  Fails(result)
<1> DEFINE waiting  == {c \in Calls : call[c].at = "waiting"}
           deciding == {c \in waiting : call[c].kind # "api"}
           c0       == CHOOSE c \in deciding : TRUE
<1>1. /\ refresh' = Free
      /\ call' = [c \in Calls |-> IF c \in waiting THEN NoCall ELSE call[c]]
      /\ app' = IF deciding = {} THEN app ELSE Ended(c0, result)
      /\ discarded' = IF app'.refresh = None /\ app.refresh # None THEN discarded + 1 ELSE discarded
      /\ login' = IF login.at = "waiting" THEN Free ELSE login
  BY DEF RefreshFailed
<1>2. /\ call' \in [Calls -> CallRow]
      /\ \A c \in Calls : call'[c] = IF call[c].at = "waiting" THEN NoCall ELSE call[c]
  BY <1>1, NoCallRow DEF Typed
<1>3. \/ UNCHANGED <<app, discarded>>
      \/ \E c \in Calls : call[c].at = "waiting" /\ call[c].kind # "api" /\ Ends(c, result)
  <2>1. CASE deciding = {}
    BY <1>1, <2>1
  <2>2. CASE deciding # {}
    <3>1. c0 \in deciding
      BY <2>2
    <3> HIDE DEF c0
    <3>2. app' = Ended(c0, result) /\ c0 \in Calls
      BY <1>1, <2>2, <3>1
    <3>3. Ends(c0, result)
      BY <1>1, <3>2, EndedEnds
    <3>4. QED
      BY <3>1, <3>3
  <2>3. QED
    BY <2>1, <2>2
<1>4. QED
  BY <1>1, <1>2, <1>3 DEF Fails

LEMMA NothingToRefreshDoes ==
    ASSUME Base, NothingToRefresh
    PROVE  /\ refresh.at = "reading" /\ Fails("401")
           /\ \/ app.refresh = None /\ UNCHANGED faults
              \/ app.refresh # None /\ faults' = faults + 1
           /\ UNCHANGED <<redis, blocked, handler, expired, sent, guesses, compared, redeemed,
                          abandoned, launches>>
BY RefreshFailedFails DEF Base, NothingToRefresh

LEMMA RefreshRefusedDoes ==
    ASSUME Base, RefreshRefused
    PROVE  LET h == refresh.h IN
           /\ h \in Handlers /\ handler' \in [Handlers -> Job] /\ Heard(h)
           /\ refresh.at = "sent" /\ handler[h].client = "refresh"
           /\ \/ handler[h].at = "refused" /\ Fails("401")
              \/ handler[h].at = "failed" /\ Fails("network")
           /\ UNCHANGED <<redis, blocked, expired, sent, guesses, compared, redeemed, faults,
                          abandoned, launches>>
<1>1. /\ refresh.h \in Handlers /\ refresh.at = "sent" /\ handler[refresh.h].client = "refresh"
  BY DEF Base, Typed, Attended, Serves, LoginWaits, RefreshWaits, RefreshRow, Wait, RefreshRefused, Replied, Waiting
<1>2. Heard(refresh.h) /\ handler' \in [Handlers -> Job]
  BY <1>1, IdleHeard DEF Base, RefreshRefused
<1>3. QED
  BY <1>1, <1>2, RefreshFailedFails DEF Base, RefreshRefused, Replied

LEMMA RefreshGrantedDoes ==
    ASSUME Base, RefreshGranted
    PROVE  LET h == refresh.h IN
           /\ h \in Handlers /\ handler' \in [Handlers -> Job] /\ Heard(h)
           /\ refresh.at = "sent" /\ handler[h].client = "refresh"
           /\ handler[h].at = "ok" /\ handler[h].t \in Tokens
           /\ refresh' = [at |-> "access", h |-> None, t |-> handler[h].t]
           /\ UNCHANGED <<redis, blocked, app, login, call, expired, tally>>
<1>1. /\ refresh.h \in Handlers /\ refresh.at = "sent" /\ handler[refresh.h].client = "refresh"
      /\ handler[refresh.h].at = "ok" /\ handler[refresh.h].t \in Tokens \cup {None}
  BY DEF Base, Typed, Attended, Serves, LoginWaits, RefreshWaits, RefreshRow, Wait, RefreshGranted, Replied, Waiting, Job
<1>2. handler[refresh.h].t # None
  BY <1>1 DEF Base, Attended, Serves
<1>3. Heard(refresh.h) /\ handler' \in [Handlers -> Job]
  BY <1>1, IdleHeard DEF Base, RefreshGranted
<1>4. QED
  BY <1>1, <1>2, <1>3 DEF RefreshGranted

LEMMA RefreshLostDoes ==
    ASSUME Base, NEW result \in {"network", "401"}, RefreshLost(result)
    PROVE  LET h == refresh.h IN
           /\ h \in Handlers /\ handler' \in [Handlers -> Job] /\ Forsakes(h)
           /\ refresh.at = "sent" /\ handler[h].client = "refresh"
           /\ Fails(result) /\ faults' = faults + 1 /\ abandoned' = abandoned + 1
           /\ UNCHANGED <<redis, blocked, expired, sent, guesses, compared, redeemed, launches>>
<1>1. /\ refresh.h \in Handlers /\ refresh.at = "sent" /\ handler[refresh.h].client = "refresh"
  BY DEF Base, Typed, Attended, Serves, LoginWaits, RefreshWaits, RefreshRow, Wait, RefreshLost, Waiting
<1>2. Forsakes(refresh.h) /\ handler' \in [Handlers -> Job]
  BY <1>1, AloneForsakes DEF Base, RefreshLost
<1>3. QED
  BY <1>1, <1>2, RefreshFailedFails DEF Base, RefreshLost

LEMMA SaveRefreshedDoes ==
    ASSUME Base, SaveRefreshed
    PROVE  /\ app' \in AppRow /\ app'.device = app.device /\ app'.stage = app.stage
           /\ refresh.t \in Tokens /\ refresh.h = None
           /\ \/ /\ refresh.at = "access" /\ app'.access = refresh.t /\ app'.refresh = app.refresh
                 /\ refresh' \in RefreshRow /\ refresh'.at = "refresh" /\ refresh'.h = None
                 /\ refresh'.t = refresh.t /\ UNCHANGED <<login, call>>
              \/ /\ refresh.at = "refresh" /\ app'.refresh = refresh.t /\ app'.access = app.access
                 /\ refresh' = Free
                 /\ call' \in [Calls -> CallRow]
                 /\ \A c \in Calls : IF call[c].at = "waiting"
                       THEN /\ call'[c].at = "sent" /\ call'[c].kind = call[c].kind
                            /\ call'[c].bearer = app.access /\ call'[c].replayed = TRUE
                       ELSE call'[c] = call[c]
                 /\ \/ /\ login.at = "waiting" /\ login' \in LoginRow /\ login'.at = "resend"
                       /\ login'.h = login.h /\ login'.t = login.t
                    \/ login.at # "waiting" /\ login' = login
           /\ UNCHANGED <<redis, blocked, handler, expired, tally>>
<1>1. /\ refresh \in RefreshRow /\ app \in AppRow /\ login \in LoginRow /\ call \in [Calls -> CallRow]
      /\ refresh.at \in {"access", "refresh"} => refresh.t \in Tokens /\ refresh.h = None
  BY DEF Base, Typed, Attended, Serves, LoginWaits, RefreshWaits
<1>2. UNCHANGED <<redis, blocked, handler, expired, tally>>
  BY DEF SaveRefreshed
<1>3. CASE /\ refresh.at = "access"
           /\ app' = [app EXCEPT !.access = refresh.t]
           /\ refresh' = [refresh EXCEPT !.at = "refresh"]
           /\ UNCHANGED <<login, call>>
  <2>1. refresh' \in RefreshRow /\ refresh'.at = "refresh" /\ refresh'.h = None /\ refresh'.t = refresh.t
    BY <1>1, <1>3 DEF RefreshRow, Wait
  <2>2. /\ app' \in AppRow /\ app'.device = app.device /\ app'.stage = app.stage
        /\ app'.access = refresh.t /\ app'.refresh = app.refresh
    BY <1>1, <1>3 DEF AppRow
  <2>3. QED
    BY <1>1, <1>2, <1>3, <2>1, <2>2
<1>4. CASE /\ refresh.at = "refresh"
           /\ app' = [app EXCEPT !.refresh = refresh.t]
           /\ refresh' = Free
           /\ call' = [c \in Calls |-> IF call[c].at = "waiting" THEN Sent(c, TRUE, 0) ELSE call[c]]
           /\ login' = IF login.at = "waiting" THEN [login EXCEPT !.at = "resend"] ELSE login
  <2>1. /\ app' \in AppRow /\ app'.device = app.device /\ app'.stage = app.stage
        /\ app'.refresh = refresh.t /\ app'.access = app.access
    BY <1>1, <1>4 DEF AppRow
  <2>2. \/ /\ login.at = "waiting" /\ login' \in LoginRow /\ login'.at = "resend"
           /\ login'.h = login.h /\ login'.t = login.t
        \/ login.at # "waiting" /\ login' = login
    BY <1>1, <1>4 DEF LoginRow, Wait
  <2>3. ASSUME NEW c \in Calls
        PROVE  /\ call'[c] \in CallRow
               /\ IF call[c].at = "waiting"
                  THEN /\ call'[c].at = "sent" /\ call'[c].kind = call[c].kind
                       /\ call'[c].bearer = app.access /\ call'[c].replayed = TRUE
                  ELSE call'[c] = call[c]
    <3>1. call[c] \in CallRow /\ app.access \in Tokens \cup {None}
      BY <1>1 DEF AppRow
    <3> DEFINE k == Sent(c, TRUE, 0)
    <3>2. /\ k \in CallRow /\ k.at = "sent" /\ k.kind = call[c].kind /\ k.bearer = app.access
          /\ k.replayed = TRUE
      BY <3>1 DEF CallRow, Sent
    <3>3. call'[c] = IF call[c].at = "waiting" THEN k ELSE call[c]
      BY <1>4
    <3> HIDE DEF k
    <3>4. QED
      BY <3>1, <3>2, <3>3
  <2>4. call' \in [Calls -> CallRow]
    BY <1>4, <2>3
  <2>5. QED
    BY <1>1, <1>2, <1>4, <2>1, <2>2, <2>3, <2>4
<1>5. QED
  BY <1>3, <1>4 DEF SaveRefreshed

LEMMA SaveFailsDoes ==
    ASSUME Base, SaveFails
    PROVE  /\ faults' = faults + 1 /\ abandoned' = abandoned + 1
           /\ \/ refresh.at \in {"access", "refresh"} /\ Fails("network")
              \/ /\ login.at \in {"access", "refresh"} /\ login' = Free
                 /\ UNCHANGED <<app, refresh, call, discarded>>
           /\ UNCHANGED <<redis, blocked, handler, expired, sent, guesses, compared, redeemed, launches>>
BY RefreshFailedFails DEF Base, SaveFails

LEMMA LaunchDoes ==
    ASSUME Base, Launch
    PROVE  /\ handler' \in [Handlers -> Job]
           /\ \A h \in Handlers : LeftAlone(handler[h], handler'[h])
           /\ launches' = launches + 1
           /\ app' \in AppRow /\ app'.stage = "checking" /\ app'.access = app.access
           /\ app'.refresh = app.refresh /\ app'.device \in {app.device, launches + 2}
           /\ login' = Free /\ refresh' = Free
           /\ call' \in [Calls -> CallRow]
           /\ \A c \in Calls : call'[c] = NoCall
           /\ abandoned' = abandoned + (IF login = Free THEN 0 ELSE 1) + (IF refresh = Free THEN 0 ELSE 1)
           /\ UNCHANGED <<redis, blocked, expired, sent, guesses, compared, redeemed, faults, discarded>>
<1>1. app \in AppRow /\ launches + 2 \in Nat /\ handler \in [Handlers -> Job]
  BY DEF Base, Typed
<1>2. /\ app' \in AppRow /\ app'.stage = "checking" /\ app'.access = app.access
      /\ app'.refresh = app.refresh /\ app'.device \in {app.device, launches + 2}
  <2>1. PICK d \in {app.device, launches + 2} : app' = [app EXCEPT !.stage = "checking", !.device = d]
    BY DEF Launch
  <2>2. d \in Nat
    BY <1>1, <2>1 DEF AppRow
  <2>3. QED
    BY <1>1, <2>1, <2>2 DEF AppRow
<1>3. \A h \in Handlers : LeftAlone(handler[h], Alone(handler[h])) /\ Alone(handler[h]) \in Job
  BY <1>1, AloneLeft DEF LeftAlone
<1>4. handler' \in [Handlers -> Job] /\ \A h \in Handlers : LeftAlone(handler[h], handler'[h])
  BY <1>3 DEF Launch
<1>5. call' \in [Calls -> CallRow] /\ \A c \in Calls : call'[c] = NoCall
  BY NoCallRow DEF Launch
<1>6. QED
  BY <1>2, <1>4, <1>5 DEF Launch

LEMMA ExpireAccessDoes ==
    ASSUME Base, NEW t \in Tokens, ExpireAccess(t)
    PROVE  /\ t \in ({app.access} \cup {call[c].bearer : c \in Calls}) \ (JustIssued \cup expired \cup {None})
           /\ expired' = expired \cup {t}
           /\ UNCHANGED <<redis, blocked, handler, phone, tally>>
BY DEF ExpireAccess

LEMMA OtpRunsOutDoes ==
    ASSUME Base, OtpRunsOut
    PROVE  /\ otp' \in OtpRow /\ cooldown' \in BOOLEAN
           /\ otp' = otp \/ (otp'.code = None /\ otp'.attempts = 0)
           /\ UNCHANGED <<token, member, blocked, handler, phone, expired, tally>>
<1>1. otp \in OtpRow /\ cooldown \in BOOLEAN
  BY DEF Base, Typed
<1>2. CASE cooldown' = FALSE /\ UNCHANGED otp
  BY <1>1, <1>2 DEF OtpRunsOut
<1>3. CASE otp' = [code |-> None, attempts |-> 0] /\ UNCHANGED cooldown
  BY <1>1, <1>3 DEF OtpRunsOut, OtpRow
<1>4. QED
  BY <1>2, <1>3 DEF OtpRunsOut

LEMMA BlockDoes ==
    ASSUME Base, Block
    PROVE  /\ blocked' = TRUE /\ faults' = faults + 1
           /\ UNCHANGED <<redis, handler, phone, expired, sent, guesses, compared, redeemed, abandoned,
                          discarded, launches>>
BY DEF Block

\* The steps of the system, one by one.
LEMMA NextCases ==
    ASSUME [Next]_vars
    PROVE  \/ UNCHANGED vars
           \/ \E h \in Handlers :
                 \/ AskCode(h) \/ (\E c \in 0..sent : TypeCode(h, c)) \/ TypeAgain(h)
                 \/ CheckCooldown(h) \/ SendCode(h) \/ ReadOtp(h) \/ CountAttempt(h) \/ DropOtp(h)
                 \/ FindOrCreateUser(h) \/ ReadRefresh(h) \/ LookupUser(h) \/ Rotate(h) \/ IssueTokens(h)
                 \/ ReadMembers(h) \/ RevokeFamily(h) \/ ServerError(h) \/ SignInTimesOut(h)
                 \/ StartRefresh(h)
           \/ SignInAnswered \/ SaveSignIn \/ SaveFails \/ BackToPhone
           \/ \E c \in Calls : \/ \E k \in {"api", "logout"} : StartCall(c, k)
                               \/ Answered(c) \/ Unanswered(c) \/ Restore(c)
           \/ NothingToRefresh \/ RefreshRefused \/ RefreshGranted \/ SaveRefreshed
           \/ \E result \in {"network", "401"} : RefreshLost(result)
           \/ \E t \in Tokens : ExpireAccess(t)
           \/ Launch \/ OtpRunsOut \/ Block
BY DEF Next, ServerStep, RefreshStep

-----------------------------------------------------------------------------
(* Steps that concern no pair *)

\* Handler h was idle, or it served a sign-in that has no pair yet.
Aside(h) ==
    /\ handler[h].at \in Coding \cup {"idle"} /\ handler[h].client # "refresh"
    /\ handler'[h].client # "refresh"
    /\ handler'[h].at \notin {"read", "lookup", "rotate", "members", "revoke"}
    /\ handler'[h].at = "ok" => handler'[h].t = None
    /\ handler'[h].at = "issue" => handler'[h].family = None
    /\ handler'[h].device \in {handler[h].device, None, app.device}
    /\ h \in Nobody' => h \in Nobody

\* Neither the tokens nor the keystore nor the refresh change, and no pair is on its way.
Gentle ==
    /\ UNCHANGED <<token, refresh, abandoned, discarded, launches>>
    /\ faults' \in {faults, faults + 1}
    /\ app'.refresh = app.refresh /\ app'.device = app.device
    /\ login' = login \/ {login.at, login'.at} \cap {"access", "refresh"} = {}
    /\ \A k \in Handlers : handler'[k] = handler[k] \/ Aside(k)

\* No access token comes into use either.
Hushed == Gentle /\ UNCHANGED <<call, expired>> /\ app'.access = app.access

LEMMA CodeStepAside ==
    ASSUME Base, NEW h \in Handlers, handler[h].at \in Coding,
           \/ \E outcome \in Done : Replies(h, outcome, None)
           \/ \E step \in Coding \cup {"issue"}, code \in Codes \cup {None} :
                 Turns(h, step, code, handler[h].family, handler[h].doomed) /\ (step = "issue" => handler[h].at = "user")
    PROVE  \A k \in Handlers : handler'[k] = handler[k] \/ Aside(k)
<1>1. Serves(h) /\ JobFamily(h)
  BY DEF Base, Attended, Families
<1>2. CASE \E outcome \in Done : Replies(h, outcome, None)
  BY <1>1, <1>2, IdleJob DEF Serves, Aside, Replies, Others, Nobody, Coding, Done, None
<1>3. ASSUME NEW step \in Coding \cup {"issue"}, NEW code \in Codes \cup {None},
             Turns(h, step, code, handler[h].family, handler[h].doomed),
             step = "issue" => handler[h].at = "user"
      PROVE  \A k \in Handlers : handler'[k] = handler[k] \/ Aside(k)
  BY <1>1, <1>3 DEF Serves, JobFamily, Aside, Turns, Others, Nobody, Coding, Done
<1>4. QED
  BY <1>2, <1>3

LEMMA GentleSteps ==
    ASSUME Base,
           \/ UNCHANGED vars
           \/ \E h \in Handlers : \/ AskCode(h) \/ (\E c \in 0..sent : TypeCode(h, c)) \/ TypeAgain(h)
                                \/ CheckCooldown(h) \/ SendCode(h) \/ ReadOtp(h) \/ CountAttempt(h)
                                \/ DropOtp(h) \/ FindOrCreateUser(h)
           \/ BackToPhone \/ OtpRunsOut \/ Block
    PROVE  Hushed
<1>1. CASE UNCHANGED vars
  BY <1>1 DEF Hushed, Gentle, vars, redis, phone, tally
<1>2. ASSUME NEW h \in Handlers, AskCode(h)
      PROVE  Hushed
  <2>1. handler[h].client = "nobody"
    BY <1>2, AskCodeDoes, IdleJob DEF Starts, Base, Attended, Serves
  <2>2. \A k \in Handlers : handler'[k] = handler[k] \/ Aside(k)
    BY <1>2, <2>1, AskCodeDoes DEF Starts, Others, Aside, Coding, Nobody, None
  <2>3. QED
    BY <1>2, <2>2, AskCodeDoes, FreeWait DEF Hushed, Gentle, redis, tally
<1>3. ASSUME NEW h \in Handlers, NEW c \in 0..sent, TypeCode(h, c)
      PROVE  Hushed
  <2>1. handler[h].client = "nobody"
    BY <1>3, TypeCodeDoes, IdleJob DEF Starts, Base, Attended, Serves
  <2>2. \A k \in Handlers : handler'[k] = handler[k] \/ Aside(k)
    BY <1>3, <2>1, TypeCodeDoes DEF Starts, Others, Aside, Coding, Nobody, None
  <2>3. QED
    BY <1>3, <2>2, TypeCodeDoes, FreeWait DEF Hushed, Gentle, redis, tally
<1>4. ASSUME NEW h \in Handlers, TypeAgain(h)
      PROVE  Hushed
  <2>1. handler[h].client = "nobody"
    BY <1>4, TypeAgainDoes, IdleJob DEF Starts, Base, Attended, Serves
  <2>2. \A k \in Handlers : handler'[k] = handler[k] \/ Aside(k)
    BY <1>4, <2>1, TypeAgainDoes DEF Starts, Others, Aside, Coding, Nobody, None
  <2>3. QED
    BY <1>4, <2>2, TypeAgainDoes, FreeWait DEF Hushed, Gentle, redis, tally
<1>5. ASSUME NEW h \in Handlers, CheckCooldown(h)
      PROVE  Hushed
  <2>1. handler[h].code \in Codes \cup {None} /\ otp.code \in Codes \cup {None}
    BY DEF Base, Typed, OtpRow, Job
  <2>2. \A k \in Handlers : handler'[k] = handler[k] \/ Aside(k)
    BY <1>5, <2>1, CheckCooldownDoes, CodeStepAside DEF Moves, Coding, Done
  <2>3. QED
    BY <1>5, <2>2, CheckCooldownDoes DEF Hushed, Gentle, Quiet, redis, phone, tally
<1>6. ASSUME NEW h \in Handlers, SendCode(h)
      PROVE  Hushed
  <2>1. handler[h].code \in Codes \cup {None} /\ otp.code \in Codes \cup {None}
    BY DEF Base, Typed, OtpRow, Job
  <2>2. \A k \in Handlers : handler'[k] = handler[k] \/ Aside(k)
    BY <1>6, <2>1, SendCodeDoes, CodeStepAside DEF Moves, Coding, Done
  <2>3. QED
    BY <1>6, <2>2, SendCodeDoes DEF Hushed, Gentle, Quiet, redis, phone, tally
<1>7. ASSUME NEW h \in Handlers, ReadOtp(h)
      PROVE  Hushed
  <2>1. handler[h].code \in Codes \cup {None} /\ otp.code \in Codes \cup {None}
    BY DEF Base, Typed, OtpRow, Job
  <2>2. \A k \in Handlers : handler'[k] = handler[k] \/ Aside(k)
    BY <1>7, <2>1, ReadOtpDoes, CodeStepAside DEF Moves, Coding, Done
  <2>3. QED
    BY <1>7, <2>2, ReadOtpDoes DEF Hushed, Gentle, Quiet, redis, phone, tally
<1>8. ASSUME NEW h \in Handlers, CountAttempt(h)
      PROVE  Hushed
  <2>1. handler[h].code \in Codes \cup {None} /\ otp.code \in Codes \cup {None}
    BY DEF Base, Typed, OtpRow, Job
  <2>2. \A k \in Handlers : handler'[k] = handler[k] \/ Aside(k)
    BY <1>8, <2>1, CountAttemptDoes, CodeStepAside DEF Moves, Coding, Done
  <2>3. QED
    BY <1>8, <2>2, CountAttemptDoes DEF Hushed, Gentle, Quiet, redis, phone, tally
<1>9. ASSUME NEW h \in Handlers, DropOtp(h)
      PROVE  Hushed
  <2>1. handler[h].code \in Codes \cup {None} /\ otp.code \in Codes \cup {None}
    BY DEF Base, Typed, OtpRow, Job
  <2>2. \A k \in Handlers : handler'[k] = handler[k] \/ Aside(k)
    BY <1>9, <2>1, DropOtpDoes, CodeStepAside DEF Moves, Coding, Done
  <2>3. QED
    BY <1>9, <2>2, DropOtpDoes DEF Hushed, Gentle, Quiet, redis, phone, tally
<1>10. ASSUME NEW h \in Handlers, FindOrCreateUser(h)
      PROVE  Hushed
  <2>1. handler[h].code \in Codes \cup {None} /\ otp.code \in Codes \cup {None}
    BY DEF Base, Typed, OtpRow, Job
  <2>2. \A k \in Handlers : handler'[k] = handler[k] \/ Aside(k)
    BY <1>10, <2>1, FindOrCreateUserDoes, CodeStepAside DEF Moves, Coding, Done
  <2>3. QED
    BY <1>10, <2>2, FindOrCreateUserDoes DEF Hushed, Gentle, Quiet, redis, phone, tally
<1>11. ASSUME BackToPhone
      PROVE  Hushed
  BY <1>11, BackToPhoneDoes DEF Hushed, Gentle, redis, phone, tally
<1>12. ASSUME OtpRunsOut
      PROVE  Hushed
  BY <1>12, OtpRunsOutDoes DEF Hushed, Gentle, redis, phone, tally
<1>13. ASSUME Block
      PROVE  Hushed
  BY <1>13, BlockDoes DEF Hushed, Gentle, redis, phone, tally
<1>14. QED
  BY <1>1, <1>2, <1>3, <1>4, <1>5, <1>6, <1>7, <1>8, <1>9, <1>10, <1>11, <1>12, <1>13

LEMMA GentleCalls ==
    ASSUME Base, \/ \E c \in Calls : (\E k \in {"api", "logout"} : StartCall(c, k)) \/ Restore(c)
                 \/ \E t \in Tokens : ExpireAccess(t)
    PROVE  Gentle
<1>1. ASSUME NEW c \in Calls, NEW k \in {"api", "logout"}, StartCall(c, k)
      PROVE  Gentle
  BY <1>1, StartCallDoes DEF Gentle, redis, tally
<1>2. ASSUME NEW c \in Calls, Restore(c)
      PROVE  Gentle
  BY <1>2, RestoreDoes DEF Gentle, redis
<1>3. ASSUME NEW t \in Tokens, ExpireAccess(t)
      PROVE  Gentle
  BY <1>3, ExpireAccessDoes DEF Gentle, redis, phone, tally
<1>4. QED
  BY <1>1, <1>2, <1>3

\* The steps of the system, those that concern no pair in one.
LEMMA NextPairs ==
    ASSUME Base, [Next]_vars
    PROVE  \/ Gentle
           \/ \E h \in Handlers :
                 \/ ReadRefresh(h) \/ LookupUser(h) \/ Rotate(h) \/ IssueTokens(h) \/ ReadMembers(h)
                 \/ RevokeFamily(h) \/ ServerError(h) \/ SignInTimesOut(h) \/ StartRefresh(h)
           \/ SignInAnswered \/ SaveSignIn \/ SaveFails
           \/ \E c \in Calls : Answered(c) \/ Unanswered(c)
           \/ NothingToRefresh \/ RefreshRefused \/ RefreshGranted \/ SaveRefreshed
           \/ \E result \in {"network", "401"} : RefreshLost(result)
           \/ Launch
BY NextCases, GentleSteps, GentleCalls DEF Hushed

LEMMA NextTokens ==
    ASSUME Base, [Next]_vars
    PROVE  \/ Hushed
           \/ \E h \in Handlers :
                 \/ ReadRefresh(h) \/ LookupUser(h) \/ Rotate(h) \/ IssueTokens(h) \/ ReadMembers(h)
                 \/ RevokeFamily(h) \/ ServerError(h) \/ SignInTimesOut(h) \/ StartRefresh(h)
           \/ SignInAnswered \/ SaveSignIn \/ SaveFails
           \/ \E c \in Calls : \/ \E k \in {"api", "logout"} : StartCall(c, k)
                               \/ Answered(c) \/ Unanswered(c) \/ Restore(c)
           \/ NothingToRefresh \/ RefreshRefused \/ RefreshGranted \/ SaveRefreshed
           \/ \E result \in {"network", "401"} : RefreshLost(result)
           \/ \E t \in Tokens : ExpireAccess(t)
           \/ Launch
BY NextCases, GentleSteps

\* The steps of the system, those of the server and of the clocks in one.
LEMMA NextPhone ==
    ASSUME [Next]_vars
    PROVE  \/ UNCHANGED phone
           \/ \E h \in Handlers : \/ AskCode(h) \/ (\E c \in 0..sent : TypeCode(h, c)) \/ TypeAgain(h)
                                \/ SignInTimesOut(h) \/ StartRefresh(h)
           \/ SignInAnswered \/ SaveSignIn \/ SaveFails \/ BackToPhone
           \/ \E c \in Calls : \/ \E k \in {"api", "logout"} : StartCall(c, k)
                               \/ Answered(c) \/ Unanswered(c) \/ Restore(c)
           \/ NothingToRefresh \/ RefreshRefused \/ RefreshGranted \/ SaveRefreshed
           \/ \E result \in {"network", "401"} : RefreshLost(result)
           \/ Launch
<1>1. ASSUME NEW h \in Handlers,
             \/ CheckCooldown(h) \/ SendCode(h) \/ ReadOtp(h) \/ CountAttempt(h) \/ DropOtp(h)
             \/ FindOrCreateUser(h)
      PROVE  UNCHANGED phone
  BY <1>1 DEF CheckCooldown, SendCode, ReadOtp, CountAttempt, DropOtp, FindOrCreateUser
<1>2. ASSUME NEW h \in Handlers,
             \/ ReadRefresh(h) \/ LookupUser(h) \/ Rotate(h) \/ IssueTokens(h) \/ ReadMembers(h)
             \/ RevokeFamily(h) \/ ServerError(h)
      PROVE  UNCHANGED phone
  BY <1>2 DEF ReadRefresh, LookupUser, Rotate, IssueTokens, ReadMembers, RevokeFamily, ServerError
<1>3. ASSUME UNCHANGED vars \/ OtpRunsOut \/ Block \/ \E t \in Tokens : ExpireAccess(t)
      PROVE  UNCHANGED phone
  BY <1>3 DEF vars, OtpRunsOut, Block, ExpireAccess
<1>4. QED
  BY <1>1, <1>2, <1>3, NextCases

-----------------------------------------------------------------------------
(* Types *)

LEMMA EndsTyped ==
    ASSUME Typed, NEW c \in Calls, NEW result, Ends(c, result)
    PROVE  app' \in AppRow /\ discarded' \in Nat
BY DEF Typed, Ends, SignsOut, Enters

LEMMA FailsTyped ==
    ASSUME Typed, NEW result, Fails(result)
    PROVE  /\ app' \in AppRow /\ discarded' \in Nat /\ login' \in LoginRow /\ refresh' \in RefreshRow
           /\ call' \in [Calls -> CallRow]
<1>1. app' \in AppRow /\ discarded' \in Nat
  BY EndsTyped DEF Fails, Typed
<1>2. QED
  BY <1>1, FreeWait DEF Fails, Typed

LEMMA TypedStep ==
    ASSUME Base, [Next]_vars
    PROVE  Typed'
<1>1. CASE UNCHANGED vars
  BY <1>1 DEF vars, redis, phone, tally, Base, Typed
<1>2. ASSUME NEW h \in Handlers, AskCode(h)
      PROVE  Typed'
  BY <1>2, AskCodeDoes DEF redis, phone, tally, Quiet, Base, Typed, LoginRow, RefreshRow, Wait,
     None, Starts
<1>3. ASSUME NEW h \in Handlers, NEW c \in 0..sent, TypeCode(h, c)
      PROVE  Typed'
  BY <1>3, TypeCodeDoes DEF redis, phone, tally, Quiet, Base, Typed, LoginRow, RefreshRow, Wait,
     None, Starts
<1>4. ASSUME NEW h \in Handlers, TypeAgain(h)
      PROVE  Typed'
  BY <1>4, TypeAgainDoes DEF redis, phone, tally, Quiet, Base, Typed, Starts
<1>5. ASSUME NEW h \in Handlers, CheckCooldown(h)
      PROVE  Typed'
  BY <1>5, CheckCooldownDoes DEF redis, phone, tally, Quiet, Base, Typed
<1>6. ASSUME NEW h \in Handlers, SendCode(h)
      PROVE  Typed'
  <2>1. sent + 1 \in Codes
    <3>1. IsFiniteSet(Asks) /\ h \in Asks
      BY <1>6, SendCodeDoes, Bounds, FS_Subset DEF Asks
    <3>2. Cardinality(Asks) \in Nat /\ Cardinality(Asks) # 0
      BY <3>1, FS_CardinalityType, FS_EmptySet
    <3>3. QED
      BY <3>2, Bounds DEF Base, Typed, Spare, Codes
  <2>2. QED
    BY <1>6, <2>1, SendCodeDoes DEF redis, phone, tally, Base, Typed, OtpRow
<1>7. ASSUME NEW h \in Handlers, ReadOtp(h)
      PROVE  Typed'
  BY <1>7, ReadOtpDoes DEF redis, phone, tally, Quiet, Base, Typed, OtpRow
<1>8. ASSUME NEW h \in Handlers, CountAttempt(h)
      PROVE  Typed'
  BY <1>8, CountAttemptDoes DEF redis, phone, tally, Quiet, Base, Typed
<1>9. ASSUME NEW h \in Handlers, DropOtp(h)
      PROVE  Typed'
  BY <1>9, DropOtpDoes DEF redis, phone, tally, Quiet, Base, Typed
<1>10. ASSUME NEW h \in Handlers, FindOrCreateUser(h)
      PROVE  Typed'
  BY <1>10, FindOrCreateUserDoes DEF redis, phone, tally, Quiet, Base, Typed
<1>11. ASSUME NEW h \in Handlers, ReadRefresh(h)
      PROVE  Typed'
  BY <1>11, ReadRefreshDoes DEF redis, phone, tally, Quiet, Base, Typed
<1>12. ASSUME NEW h \in Handlers, LookupUser(h)
      PROVE  Typed'
  BY <1>12, LookupUserDoes DEF redis, phone, tally, Quiet, Base, Typed
<1>13. ASSUME NEW h \in Handlers, Rotate(h)
      PROVE  Typed'
  BY ZenonT(40), <1>13, RotateDoes DEF redis, phone, tally, Quiet, Base, Typed
<1>14. ASSUME NEW h \in Handlers, IssueTokens(h)
      PROVE  Typed'
  <2>1. PICK t \in Tokens, f \in Tokens : Issues(h, t, f)
    BY <1>14, IssueTokensDoes
  <2>2. redeemed' \subseteq Codes
    BY <1>14, IssueTokensDoes DEF Base, Typed, Job
  <2>3. QED
    BY <1>14, <2>1, <2>2, IssueTokensDoes DEF Issues, redis, phone, tally, Base, Typed
<1>15. ASSUME NEW h \in Handlers, ReadMembers(h)
      PROVE  Typed'
  BY <1>15, ReadMembersDoes DEF redis, phone, tally, Quiet, Base, Typed
<1>16. ASSUME NEW h \in Handlers, RevokeFamily(h)
      PROVE  Typed'
  BY <1>16, RevokeFamilyDoes DEF redis, phone, tally, Quiet, Base, Typed, Revokes
<1>17. ASSUME NEW h \in Handlers, ServerError(h)
      PROVE  Typed'
  BY <1>17, ServerErrorDoes DEF redis, phone, tally, Quiet, Base, Typed
<1>18. ASSUME NEW h \in Handlers, SignInTimesOut(h)
      PROVE  Typed'
  BY <1>18, SignInTimesOutDoes, FreeWait DEF redis, phone, tally, Base, Typed, LoginRow, Wait
<1>19. ASSUME NEW h \in Handlers, StartRefresh(h)
      PROVE  Typed'
  <2>1. app.refresh \in Nat
    BY <1>19, StartRefreshDoes, Bounds
  <2>2. refresh' \in RefreshRow
    BY <1>19, <2>1, StartRefreshDoes DEF RefreshRow, Wait
  <2>3. QED
    BY <1>19, <2>2, StartRefreshDoes DEF redis, phone, tally, Base, Typed
<1>20. ASSUME SignInAnswered
      PROVE  Typed'
  <2>1. app' \in AppRow /\ refresh' \in RefreshRow
    BY <1>20, SignInAnsweredDoes DEF Base, Typed
  <2>2. login' \in LoginRow
    <3> DEFINE t == handler[login.h].t
    <3>1. CASE t \in Tokens /\ login' = [at |-> "access", h |-> None, t |-> t]
      <4> HIDE DEF t
      <4>1. t \in Nat
        BY <3>1, Bounds
      <4>2. QED
        BY <3>1, <4>1 DEF LoginRow, Wait
    <3>2. QED
      BY <1>20, <3>1, SignInAnsweredDoes, FreeWait
  <2>3. QED
    BY <1>20, <2>1, <2>2, SignInAnsweredDoes DEF redis, phone, tally, Base, Typed
<1>21. ASSUME SaveSignIn
      PROVE  Typed'
  BY <1>21, SaveSignInDoes, FreeWait DEF redis, phone, tally, Base, Typed, LoginRow, Wait
<1>22. ASSUME SaveFails
      PROVE  Typed'
  BY <1>22, SaveFailsDoes, FailsTyped, FreeWait DEF redis, phone, tally, Base, Typed
<1>23. ASSUME BackToPhone
      PROVE  Typed'
  BY <1>23, BackToPhoneDoes DEF redis, phone, tally, Quiet, Base, Typed
<1>24. ASSUME NEW c \in Calls, NEW kind \in {"api", "logout"}, StartCall(c, kind)
      PROVE  Typed'
  BY <1>24, StartCallDoes DEF redis, phone, tally, Quiet, Base, Typed, Sends
<1>25. ASSUME NEW c \in Calls, Answered(c)
      PROVE  Typed'
  BY <1>25, AnsweredDoes, EndsTyped DEF redis, phone, tally, Base, Typed, Over, Sends
<1>26. ASSUME NEW c \in Calls, Unanswered(c)
      PROVE  Typed'
  BY <1>26, UnansweredDoes, EndsTyped DEF redis, phone, tally, Base, Typed, Over, Sends
<1>27. ASSUME NEW c \in Calls, Restore(c)
      PROVE  Typed'
  <2>1. app' \in AppRow /\ call' \in [Calls -> CallRow]
    BY <1>27, RestoreDoes DEF Base, Typed, Sends
  <2>2. faults' \in Nat
    <3>1. faults' = faults \/ faults' = faults + 1
      BY <1>27 DEF Restore
    <3>2. faults \in Nat
      BY DEF Base, Typed
    <3>3. QED
      BY <3>1, <3>2
  <2>3. QED
    BY <1>27, <2>1, <2>2, RestoreDoes DEF redis, phone, tally, Base, Typed
<1>28. ASSUME NothingToRefresh
      PROVE  Typed'
  BY <1>28, NothingToRefreshDoes, FailsTyped DEF redis, phone, tally, Base, Typed
<1>29. ASSUME RefreshRefused
      PROVE  Typed'
  BY <1>29, RefreshRefusedDoes, FailsTyped DEF redis, phone, tally, Base, Typed
<1>30. ASSUME RefreshGranted
      PROVE  Typed'
  <2>1. handler[refresh.h].t \in Nat
    BY <1>30, RefreshGrantedDoes, Bounds
  <2>2. refresh' \in RefreshRow
    BY <1>30, <2>1, RefreshGrantedDoes DEF RefreshRow, Wait
  <2>3. QED
    BY <1>30, <2>2, RefreshGrantedDoes DEF redis, phone, tally, Base, Typed
<1>31. ASSUME SaveRefreshed
      PROVE  Typed'
  BY <1>31, SaveRefreshedDoes, FreeWait DEF redis, phone, tally, Base, Typed, LoginRow, Wait
<1>32. ASSUME NEW result \in {"network", "401"}, RefreshLost(result)
      PROVE  Typed'
  BY <1>32, RefreshLostDoes, FailsTyped DEF redis, phone, tally, Base, Typed
<1>33. ASSUME NEW t \in Tokens, ExpireAccess(t)
      PROVE  Typed'
  BY <1>33, ExpireAccessDoes DEF redis, phone, tally, Quiet, Base, Typed, AppRow
<1>34. ASSUME Launch
      PROVE  Typed'
  BY <1>34, LaunchDoes, FreeWait DEF redis, phone, tally, Base, Typed, LoginRow, Wait
<1>35. ASSUME OtpRunsOut
      PROVE  Typed'
  BY <1>35, OtpRunsOutDoes DEF redis, phone, tally, Quiet, Base, Typed
<1>36. ASSUME Block
      PROVE  Typed'
  <2>1. blocked' \in BOOLEAN
    BY <1>36 DEF Block
  <2>2. UNCHANGED <<otp, cooldown, token, member, handler, app, login, refresh, call, expired>>
    BY <1>36 DEF Block, redis, phone
  <2>3. faults' = faults + 1 /\ UNCHANGED <<sent, guesses, compared, redeemed, abandoned,
     discarded, launches>>
    BY <1>36 DEF Block
  <2>4. Typed
    BY DEF Base
  <2>5. QED
    BY <2>1, <2>2, <2>3, <2>4 DEF Typed
<1>37. QED
  BY <1>1, <1>2, <1>3, <1>4, <1>5, <1>6, <1>7, <1>8, <1>9, <1>10, <1>11, <1>12, <1>13, <1>14,
     <1>15, <1>16, <1>17, <1>18, <1>19, <1>20, <1>21, <1>22, <1>23, <1>24, <1>25, <1>26, <1>27,
     <1>28, <1>29, <1>30, <1>31, <1>32, <1>33, <1>34, <1>35, <1>36, NextCases

-----------------------------------------------------------------------------
(* Clients and handlers *)

\* A step of the server on one request: it is under way still, answered, or forgotten.
ServerTurn(h) ==
    /\ handler[h].at \notin Done \cup {"idle"}
    /\ Others(h)
    /\ \/ handler[h].client = "nobody" /\ handler'[h] = Idle
       \/ /\ handler'[h].client = handler[h].client /\ handler'[h].at # "idle"
          /\ handler'[h].at \in Done => handler[h].client # "nobody"
          /\ handler[h].client = "refresh" =>
                 /\ handler'[h].at \notin Coding
                 /\ handler'[h].at = "ok" => handler'[h].t # None

LEMMA ServerTurnAttended ==
    ASSUME Typed, Attended, NEW h \in Handlers, ServerTurn(h), UNCHANGED phone
    PROVE  Attended'
<1>1. UNCHANGED <<login, refresh>>
  BY DEF phone
<1>2. \A k \in Handlers : Serves(k)'
  BY <1>1, IdleJob DEF Attended, Serves, ServerTurn, Others, Done
<1>3. /\ login.h # None => login.h \in Handlers
      /\ refresh.h # None => refresh.h \in Handlers
  BY DEF Typed, LoginRow, RefreshRow, Wait
<1>4. /\ login.h # None => handler'[login.h].client = "login"
      /\ refresh.h # None => handler'[refresh.h].client = "refresh"
  BY <1>3 DEF Attended, LoginWaits, RefreshWaits, Serves, ServerTurn, Others
<1>5. QED
  BY <1>1, <1>2, <1>4 DEF Attended, LoginWaits, RefreshWaits

LEMMA AttendedStep ==
    ASSUME Base, [Next]_vars
    PROVE  Attended'
<1>1. CASE UNCHANGED vars
  BY <1>1 DEF vars, redis, phone, tally, Base, Attended, Serves, LoginWaits, RefreshWaits
<1>2. ASSUME NEW h \in Handlers, AskCode(h)
      PROVE  Attended'
  <2>1. ASSUME NEW k \in Handlers PROVE Serves(k)'
    BY <1>2, AskCodeDoes, IdleJob, FreeWait, Bounds DEF phone, None, Typed, LoginRow, RefreshRow,
       Wait, Base, Attended, Serves, LoginWaits, RefreshWaits, Coding, Done, Starts, Others
  <2>2. LoginWaits'
    BY <1>2, AskCodeDoes, IdleJob, FreeWait, Bounds DEF phone, None, Typed, LoginRow, RefreshRow,
       Wait, Base, Attended, Serves, LoginWaits, RefreshWaits, Coding, Done, Starts, Others
  <2>3. RefreshWaits'
    BY <1>2, AskCodeDoes, IdleJob, FreeWait, Bounds DEF phone, None, Typed, LoginRow, RefreshRow,
       Wait, Base, Attended, Serves, LoginWaits, RefreshWaits, Coding, Done, Starts, Others
  <2>4. QED
    BY <2>1, <2>2, <2>3 DEF Attended
<1>3. ASSUME NEW h \in Handlers, NEW c \in 0..sent, TypeCode(h, c)
      PROVE  Attended'
  <2>1. ASSUME NEW k \in Handlers PROVE Serves(k)'
    BY <1>3, TypeCodeDoes, IdleJob, FreeWait, Bounds DEF phone, None, Typed, LoginRow, RefreshRow,
       Wait, Base, Attended, Serves, LoginWaits, RefreshWaits, Coding, Done, Starts, Others
  <2>2. LoginWaits'
    BY <1>3, TypeCodeDoes, IdleJob, FreeWait, Bounds DEF phone, None, Typed, LoginRow, RefreshRow,
       Wait, Base, Attended, Serves, LoginWaits, RefreshWaits, Coding, Done, Starts, Others
  <2>3. RefreshWaits'
    BY <1>3, TypeCodeDoes, IdleJob, FreeWait, Bounds DEF phone, None, Typed, LoginRow, RefreshRow,
       Wait, Base, Attended, Serves, LoginWaits, RefreshWaits, Coding, Done, Starts, Others
  <2>4. QED
    BY <2>1, <2>2, <2>3 DEF Attended
<1>4. ASSUME NEW h \in Handlers, TypeAgain(h)
      PROVE  Attended'
  <2>1. ASSUME NEW k \in Handlers PROVE Serves(k)'
    BY <1>4, TypeAgainDoes, IdleJob, FreeWait, Bounds DEF phone, None, Typed, LoginRow,
       RefreshRow, Wait, Base, Attended, Serves, LoginWaits, RefreshWaits, Coding, Done, Starts,
       Others
  <2>2. LoginWaits'
    BY <1>4, TypeAgainDoes, IdleJob, FreeWait, Bounds DEF phone, None, Typed, LoginRow,
       RefreshRow, Wait, Base, Attended, Serves, LoginWaits, RefreshWaits, Coding, Done, Starts,
       Others
  <2>3. RefreshWaits'
    BY <1>4, TypeAgainDoes, IdleJob, FreeWait, Bounds DEF phone, None, Typed, LoginRow,
       RefreshRow, Wait, Base, Attended, Serves, LoginWaits, RefreshWaits, Coding, Done, Starts,
       Others
  <2>4. QED
    BY <2>1, <2>2, <2>3 DEF Attended
<1>5. ASSUME NEW h \in Handlers, CheckCooldown(h)
      PROVE  Attended'
  <2>1. ServerTurn(h)
    BY <1>5, CheckCooldownDoes DEF ServerTurn, Replies, Moves, Turns, Coding, Done, Working, Base,
       Typed, Attended, Serves, Job, None
  <2>2. UNCHANGED phone
    BY <1>5, CheckCooldownDoes DEF Quiet
  <2>3. QED
    BY <2>1, <2>2, ServerTurnAttended DEF Base
<1>6. ASSUME NEW h \in Handlers, SendCode(h)
      PROVE  Attended'
  <2>1. ServerTurn(h)
    BY <1>6, SendCodeDoes DEF ServerTurn, Replies, Moves, Turns, Coding, Done, Working, Base,
       Typed, Attended, Serves, Job, None
  <2>2. UNCHANGED phone
    BY <1>6, SendCodeDoes DEF Quiet
  <2>3. QED
    BY <2>1, <2>2, ServerTurnAttended DEF Base
<1>7. ASSUME NEW h \in Handlers, ReadOtp(h)
      PROVE  Attended'
  <2>1. ServerTurn(h)
    BY <1>7, ReadOtpDoes DEF ServerTurn, Replies, Moves, Turns, Coding, Done, Working, Base,
       Typed, Attended, Serves, Job, None
  <2>2. UNCHANGED phone
    BY <1>7, ReadOtpDoes DEF Quiet
  <2>3. QED
    BY <2>1, <2>2, ServerTurnAttended DEF Base
<1>8. ASSUME NEW h \in Handlers, CountAttempt(h)
      PROVE  Attended'
  <2>1. ServerTurn(h)
    BY <1>8, CountAttemptDoes DEF ServerTurn, Replies, Moves, Turns, Coding, Done, Working, Base,
       Typed, Attended, Serves, Job, None
  <2>2. UNCHANGED phone
    BY <1>8, CountAttemptDoes DEF Quiet
  <2>3. QED
    BY <2>1, <2>2, ServerTurnAttended DEF Base
<1>9. ASSUME NEW h \in Handlers, DropOtp(h)
      PROVE  Attended'
  <2>1. ServerTurn(h)
    BY <1>9, DropOtpDoes DEF ServerTurn, Replies, Moves, Turns, Coding, Done, Working, Base,
       Typed, Attended, Serves, Job, None
  <2>2. UNCHANGED phone
    BY <1>9, DropOtpDoes DEF Quiet
  <2>3. QED
    BY <2>1, <2>2, ServerTurnAttended DEF Base
<1>10. ASSUME NEW h \in Handlers, FindOrCreateUser(h)
      PROVE  Attended'
  <2>1. ServerTurn(h)
    BY <1>10, FindOrCreateUserDoes DEF ServerTurn, Replies, Moves, Turns, Coding, Done, Working,
       Base, Typed, Attended, Serves, Job, None
  <2>2. UNCHANGED phone
    BY <1>10, FindOrCreateUserDoes DEF Quiet
  <2>3. QED
    BY <2>1, <2>2, ServerTurnAttended DEF Base
<1>11. ASSUME NEW h \in Handlers, ReadRefresh(h)
      PROVE  Attended'
  <2>1. ServerTurn(h)
    BY <1>11, ReadRefreshDoes DEF ServerTurn, Replies, Moves, Turns, Coding, Done, Working, Base,
       Typed, Attended, Serves, Job, None
  <2>2. UNCHANGED phone
    BY <1>11, ReadRefreshDoes DEF Quiet
  <2>3. QED
    BY <2>1, <2>2, ServerTurnAttended DEF Base
<1>12. ASSUME NEW h \in Handlers, LookupUser(h)
      PROVE  Attended'
  <2>1. ServerTurn(h)
    BY <1>12, LookupUserDoes DEF ServerTurn, Replies, Moves, Turns, Coding, Done, Working, Base,
       Typed, Attended, Serves, Job, None
  <2>2. UNCHANGED phone
    BY <1>12, LookupUserDoes DEF Quiet
  <2>3. QED
    BY <2>1, <2>2, ServerTurnAttended DEF Base
<1>13. ASSUME NEW h \in Handlers, Rotate(h)
      PROVE  Attended'
  <2>1. ServerTurn(h)
    BY <1>13, RotateDoes DEF ServerTurn, Replies, Moves, Turns, Coding, Done, Working, Base,
       Typed, Attended, Serves, Job, None
  <2>2. UNCHANGED phone
    BY <1>13, RotateDoes DEF Quiet
  <2>3. QED
    BY <2>1, <2>2, ServerTurnAttended DEF Base
<1>14. ASSUME NEW h \in Handlers, IssueTokens(h)
      PROVE  Attended'
  <2>1. PICK t \in Tokens, f \in Tokens : Issues(h, t, f)
    BY <1>14, IssueTokensDoes
  <2>2. Replies(h, "ok", t) /\ handler[h].at = "issue" /\ t # None
    BY <1>14, <2>1, IssueTokensDoes, Bounds DEF Issues
  <2>3. ServerTurn(h)
    BY <2>2 DEF ServerTurn, Replies, Coding, Done, Base, Typed, Attended, Serves, Job
  <2>4. UNCHANGED phone
    BY <1>14, IssueTokensDoes
  <2>5. QED
    BY <2>3, <2>4, ServerTurnAttended DEF Base
<1>15. ASSUME NEW h \in Handlers, ReadMembers(h)
      PROVE  Attended'
  <2>1. ServerTurn(h)
    BY <1>15, ReadMembersDoes DEF ServerTurn, Replies, Moves, Turns, Coding, Done, Working, Base,
       Typed, Attended, Serves, Job, None
  <2>2. UNCHANGED phone
    BY <1>15, ReadMembersDoes DEF Quiet
  <2>3. QED
    BY <2>1, <2>2, ServerTurnAttended DEF Base
<1>16. ASSUME NEW h \in Handlers, RevokeFamily(h)
      PROVE  Attended'
  <2>1. ServerTurn(h)
    BY <1>16, RevokeFamilyDoes DEF ServerTurn, Replies, Moves, Turns, Coding, Done, Working, Base,
       Typed, Attended, Serves, Job, None
  <2>2. UNCHANGED phone
    BY <1>16, RevokeFamilyDoes DEF Quiet
  <2>3. QED
    BY <2>1, <2>2, ServerTurnAttended DEF Base
<1>17. ASSUME NEW h \in Handlers, ServerError(h)
      PROVE  Attended'
  <2>1. ServerTurn(h)
    BY <1>17, ServerErrorDoes DEF ServerTurn, Replies, Moves, Turns, Coding, Done, Working, Base,
       Typed, Attended, Serves, Job, None
  <2>2. UNCHANGED phone
    BY <1>17, ServerErrorDoes DEF Quiet
  <2>3. QED
    BY <2>1, <2>2, ServerTurnAttended DEF Base
<1>18. ASSUME NEW h \in Handlers, SignInTimesOut(h)
      PROVE  Attended'
  <2>1. ASSUME NEW k \in Handlers PROVE Serves(k)'
    BY <1>18, SignInTimesOutDoes, IdleJob, FreeWait, Bounds DEF phone, None, Typed, LoginRow,
       RefreshRow, Wait, Base, Attended, Serves, LoginWaits, RefreshWaits, Coding, Done, Forsakes,
       LeftAlone, Others, Fails
  <2>2. LoginWaits'
    BY <1>18, SignInTimesOutDoes, IdleJob, FreeWait, Bounds DEF phone, None, Typed, LoginRow,
       RefreshRow, Wait, Base, Attended, Serves, LoginWaits, RefreshWaits, Coding, Done, Forsakes,
       LeftAlone, Others, Fails
  <2>3. RefreshWaits'
    BY <1>18, SignInTimesOutDoes, IdleJob, FreeWait, Bounds DEF phone, None, Typed, LoginRow,
       RefreshRow, Wait, Base, Attended, Serves, LoginWaits, RefreshWaits, Coding, Done, Forsakes,
       LeftAlone, Others, Fails
  <2>4. QED
    BY <2>1, <2>2, <2>3 DEF Attended
<1>19. ASSUME NEW h \in Handlers, StartRefresh(h)
      PROVE  Attended'
  <2>1. ASSUME NEW k \in Handlers PROVE Serves(k)'
    BY <1>19, StartRefreshDoes, IdleJob, FreeWait, Bounds DEF phone, None, Typed, LoginRow,
       RefreshRow, Wait, Base, Attended, Serves, LoginWaits, RefreshWaits, Coding, Done, Starts,
       Others
  <2>2. LoginWaits'
    BY <1>19, StartRefreshDoes, IdleJob, FreeWait, Bounds DEF phone, None, Typed, LoginRow,
       RefreshRow, Wait, Base, Attended, Serves, LoginWaits, RefreshWaits, Coding, Done, Starts,
       Others
  <2>3. RefreshWaits'
    BY <1>19, StartRefreshDoes, IdleJob, FreeWait, Bounds DEF phone, None, Typed, LoginRow,
       RefreshRow, Wait, Base, Attended, Serves, LoginWaits, RefreshWaits, Coding, Done, Starts,
       Others
  <2>4. QED
    BY <2>1, <2>2, <2>3 DEF Attended
<1>20. ASSUME SignInAnswered
      PROVE  Attended'
  <2>1. ASSUME NEW k \in Handlers PROVE Serves(k)'
    BY <1>20, SignInAnsweredDoes, IdleJob, FreeWait, Bounds DEF phone, None, Typed, LoginRow,
       RefreshRow, Wait, Base, Attended, Serves, LoginWaits, RefreshWaits, Coding, Done, Heard,
       Others, Fails, Joins
  <2>2. LoginWaits'
    BY <1>20, SignInAnsweredDoes, IdleJob, FreeWait, Bounds DEF phone, None, Typed, LoginRow,
       RefreshRow, Wait, Base, Attended, Serves, LoginWaits, RefreshWaits, Coding, Done, Heard,
       Others, Fails, Joins
  <2>3. RefreshWaits'
    BY <1>20, SignInAnsweredDoes, IdleJob, FreeWait, Bounds DEF phone, None, Typed, LoginRow,
       RefreshRow, Wait, Base, Attended, Serves, LoginWaits, RefreshWaits, Coding, Done, Heard,
       Others, Fails, Joins
  <2>4. QED
    BY <2>1, <2>2, <2>3 DEF Attended
<1>21. ASSUME SaveSignIn
      PROVE  Attended'
  <2>1. ASSUME NEW k \in Handlers PROVE Serves(k)'
    BY <1>21, SaveSignInDoes, IdleJob, FreeWait, Bounds DEF phone, None, Typed, LoginRow,
       RefreshRow, Wait, Base, Attended, Serves, LoginWaits, RefreshWaits, Coding, Done, Fails
  <2>2. LoginWaits'
    BY <1>21, SaveSignInDoes, IdleJob, FreeWait, Bounds DEF phone, None, Typed, LoginRow,
       RefreshRow, Wait, Base, Attended, Serves, LoginWaits, RefreshWaits, Coding, Done, Fails
  <2>3. RefreshWaits'
    BY <1>21, SaveSignInDoes, IdleJob, FreeWait, Bounds DEF phone, None, Typed, LoginRow,
       RefreshRow, Wait, Base, Attended, Serves, LoginWaits, RefreshWaits, Coding, Done, Fails
  <2>4. QED
    BY <2>1, <2>2, <2>3 DEF Attended
<1>22. ASSUME SaveFails
      PROVE  Attended'
  <2>1. ASSUME NEW k \in Handlers PROVE Serves(k)'
    BY <1>22, SaveFailsDoes, IdleJob, FreeWait, Bounds DEF phone, None, Typed, LoginRow,
       RefreshRow, Wait, Base, Attended, Serves, LoginWaits, RefreshWaits, Coding, Done, Fails
  <2>2. LoginWaits'
    BY <1>22, SaveFailsDoes, IdleJob, FreeWait, Bounds DEF phone, None, Typed, LoginRow,
       RefreshRow, Wait, Base, Attended, Serves, LoginWaits, RefreshWaits, Coding, Done, Fails
  <2>3. RefreshWaits'
    BY <1>22, SaveFailsDoes, IdleJob, FreeWait, Bounds DEF phone, None, Typed, LoginRow,
       RefreshRow, Wait, Base, Attended, Serves, LoginWaits, RefreshWaits, Coding, Done, Fails
  <2>4. QED
    BY <2>1, <2>2, <2>3 DEF Attended
<1>23. ASSUME BackToPhone
      PROVE  Attended'
  BY <1>23, BackToPhoneDoes DEF redis, phone, tally, Quiet, Base, Attended, Serves, LoginWaits,
     RefreshWaits
<1>24. ASSUME NEW c \in Calls, NEW kind \in {"api", "logout"}, StartCall(c, kind)
      PROVE  Attended'
  BY ZenonT(40), <1>24, StartCallDoes DEF redis, phone, tally, Quiet, Base, Attended, Serves, LoginWaits,
     RefreshWaits
<1>25. ASSUME NEW c \in Calls, Answered(c)
      PROVE  Attended'
  <2>1. ASSUME NEW k \in Handlers PROVE Serves(k)'
    BY <1>25, AnsweredDoes, IdleJob, FreeWait, Bounds DEF phone, None, Typed, LoginRow,
       RefreshRow, Wait, Base, Attended, Serves, LoginWaits, RefreshWaits, Coding, Done, Joins
  <2>2. LoginWaits'
    BY <1>25, AnsweredDoes, IdleJob, FreeWait, Bounds DEF phone, None, Typed, LoginRow,
       RefreshRow, Wait, Base, Attended, Serves, LoginWaits, RefreshWaits, Coding, Done, Joins
  <2>3. RefreshWaits'
    BY <1>25, AnsweredDoes, IdleJob, FreeWait, Bounds DEF phone, None, Typed, LoginRow,
       RefreshRow, Wait, Base, Attended, Serves, LoginWaits, RefreshWaits, Coding, Done, Joins
  <2>4. QED
    BY <2>1, <2>2, <2>3 DEF Attended
<1>26. ASSUME NEW c \in Calls, Unanswered(c)
      PROVE  Attended'
  BY <1>26, UnansweredDoes DEF redis, phone, tally, Quiet, Base, Attended, Serves, LoginWaits,
     RefreshWaits
<1>27. ASSUME NEW c \in Calls, Restore(c)
      PROVE  Attended'
  BY <1>27, RestoreDoes DEF redis, phone, tally, Quiet, Base, Attended, Serves, LoginWaits,
     RefreshWaits
<1>28. ASSUME NothingToRefresh
      PROVE  Attended'
  <2>1. ASSUME NEW k \in Handlers PROVE Serves(k)'
    BY <1>28, NothingToRefreshDoes, IdleJob, FreeWait, Bounds DEF phone, None, Typed, LoginRow,
       RefreshRow, Wait, Base, Attended, Serves, LoginWaits, RefreshWaits, Coding, Done, Fails
  <2>2. LoginWaits'
    BY <1>28, NothingToRefreshDoes, IdleJob, FreeWait, Bounds DEF phone, None, Typed, LoginRow,
       RefreshRow, Wait, Base, Attended, Serves, LoginWaits, RefreshWaits, Coding, Done, Fails
  <2>3. RefreshWaits'
    BY <1>28, NothingToRefreshDoes, IdleJob, FreeWait, Bounds DEF phone, None, Typed, LoginRow,
       RefreshRow, Wait, Base, Attended, Serves, LoginWaits, RefreshWaits, Coding, Done, Fails
  <2>4. QED
    BY <2>1, <2>2, <2>3 DEF Attended
<1>29. ASSUME RefreshRefused
      PROVE  Attended'
  <2>1. ASSUME NEW k \in Handlers PROVE Serves(k)'
    BY <1>29, RefreshRefusedDoes, IdleJob, FreeWait, Bounds DEF phone, None, Typed, LoginRow,
       RefreshRow, Wait, Base, Attended, Serves, LoginWaits, RefreshWaits, Coding, Done, Heard,
       Others, Fails, Joins
  <2>2. LoginWaits'
    BY <1>29, RefreshRefusedDoes, IdleJob, FreeWait, Bounds DEF phone, None, Typed, LoginRow,
       RefreshRow, Wait, Base, Attended, Serves, LoginWaits, RefreshWaits, Coding, Done, Heard,
       Others, Fails, Joins
  <2>3. RefreshWaits'
    BY <1>29, RefreshRefusedDoes, IdleJob, FreeWait, Bounds DEF phone, None, Typed, LoginRow,
       RefreshRow, Wait, Base, Attended, Serves, LoginWaits, RefreshWaits, Coding, Done, Heard,
       Others, Fails, Joins
  <2>4. QED
    BY <2>1, <2>2, <2>3 DEF Attended
<1>30. ASSUME RefreshGranted
      PROVE  Attended'
  <2>1. ASSUME NEW k \in Handlers PROVE Serves(k)'
    BY <1>30, RefreshGrantedDoes, IdleJob, FreeWait, Bounds DEF phone, None, Typed, LoginRow,
       RefreshRow, Wait, Base, Attended, Serves, LoginWaits, RefreshWaits, Coding, Done, Heard,
       Others, Fails, Joins
  <2>2. LoginWaits'
    BY <1>30, RefreshGrantedDoes, IdleJob, FreeWait, Bounds DEF phone, None, Typed, LoginRow,
       RefreshRow, Wait, Base, Attended, Serves, LoginWaits, RefreshWaits, Coding, Done, Heard,
       Others, Fails, Joins
  <2>3. RefreshWaits'
    BY <1>30, RefreshGrantedDoes, IdleJob, FreeWait, Bounds DEF phone, None, Typed, LoginRow,
       RefreshRow, Wait, Base, Attended, Serves, LoginWaits, RefreshWaits, Coding, Done, Heard,
       Others, Fails, Joins
  <2>4. QED
    BY <2>1, <2>2, <2>3 DEF Attended
<1>31. ASSUME SaveRefreshed
      PROVE  Attended'
  <2>1. ASSUME NEW k \in Handlers PROVE Serves(k)'
    <3>1. UNCHANGED handler /\ login'.h = login.h /\ refresh.h = None
      BY <1>31, SaveRefreshedDoes
    <3>2. Serves(k) /\ handler[k].client # "refresh"
      BY <3>1, Bounds DEF Base, Attended, Serves
    <3>3. QED
      BY <3>1, <3>2 DEF Serves
  <2>2. LoginWaits'
    BY <1>31, SaveRefreshedDoes, IdleJob, FreeWait, Bounds DEF phone, None, Typed, LoginRow,
       RefreshRow, Wait, Base, Attended, Serves, LoginWaits, RefreshWaits, Coding, Done, Fails
  <2>3. RefreshWaits'
    BY <1>31, SaveRefreshedDoes, IdleJob, FreeWait, Bounds DEF phone, None, Typed, LoginRow,
       RefreshRow, Wait, Base, Attended, Serves, LoginWaits, RefreshWaits, Coding, Done, Fails
  <2>4. QED
    BY <2>1, <2>2, <2>3 DEF Attended
<1>32. ASSUME NEW result \in {"network", "401"}, RefreshLost(result)
      PROVE  Attended'
  <2>1. ASSUME NEW k \in Handlers PROVE Serves(k)'
    BY <1>32, RefreshLostDoes, IdleJob, FreeWait, Bounds DEF phone, None, Typed, LoginRow,
       RefreshRow, Wait, Base, Attended, Serves, LoginWaits, RefreshWaits, Coding, Done, Forsakes,
       LeftAlone, Others, Fails
  <2>2. LoginWaits'
    BY <1>32, RefreshLostDoes, IdleJob, FreeWait, Bounds DEF phone, None, Typed, LoginRow,
       RefreshRow, Wait, Base, Attended, Serves, LoginWaits, RefreshWaits, Coding, Done, Forsakes,
       LeftAlone, Others, Fails
  <2>3. RefreshWaits'
    BY <1>32, RefreshLostDoes, IdleJob, FreeWait, Bounds DEF phone, None, Typed, LoginRow,
       RefreshRow, Wait, Base, Attended, Serves, LoginWaits, RefreshWaits, Coding, Done, Forsakes,
       LeftAlone, Others, Fails
  <2>4. QED
    BY <2>1, <2>2, <2>3 DEF Attended
<1>33. ASSUME NEW t \in Tokens, ExpireAccess(t)
      PROVE  Attended'
  BY <1>33, ExpireAccessDoes DEF redis, phone, tally, Quiet, Base, Attended, Serves, LoginWaits,
     RefreshWaits
<1>34. ASSUME Launch
      PROVE  Attended'
  <2>1. ASSUME NEW k \in Handlers PROVE Serves(k)'
    BY <1>34, LaunchDoes, IdleJob, FreeWait, Bounds DEF phone, None, Typed, LoginRow, RefreshRow,
       Wait, Base, Attended, Serves, LoginWaits, RefreshWaits, Coding, Done, Forsakes, LeftAlone,
       Others, Fails
  <2>2. LoginWaits'
    BY <1>34, LaunchDoes, IdleJob, FreeWait, Bounds DEF phone, None, Typed, LoginRow, RefreshRow,
       Wait, Base, Attended, Serves, LoginWaits, RefreshWaits, Coding, Done, Forsakes, LeftAlone,
       Others, Fails
  <2>3. RefreshWaits'
    BY <1>34, LaunchDoes, IdleJob, FreeWait, Bounds DEF phone, None, Typed, LoginRow, RefreshRow,
       Wait, Base, Attended, Serves, LoginWaits, RefreshWaits, Coding, Done, Forsakes, LeftAlone,
       Others, Fails
  <2>4. QED
    BY <2>1, <2>2, <2>3 DEF Attended
<1>35. ASSUME OtpRunsOut
      PROVE  Attended'
  BY <1>35, OtpRunsOutDoes DEF redis, phone, tally, Quiet, Base, Attended, Serves, LoginWaits,
     RefreshWaits
<1>36. ASSUME Block
      PROVE  Attended'
  BY <1>36, BlockDoes DEF redis, phone, tally, Quiet, Base, Attended, Serves, LoginWaits,
     RefreshWaits
<1>37. QED
  BY <1>1, <1>2, <1>3, <1>4, <1>5, <1>6, <1>7, <1>8, <1>9, <1>10, <1>11, <1>12, <1>13, <1>14,
     <1>15, <1>16, <1>17, <1>18, <1>19, <1>20, <1>21, <1>22, <1>23, <1>24, <1>25, <1>26, <1>27,
     <1>28, <1>29, <1>30, <1>31, <1>32, <1>33, <1>34, <1>35, <1>36, NextCases

-----------------------------------------------------------------------------
(* Numbers of things *)

LEMMA Part ==
    ASSUME NEW S, IsFiniteSet(S), NEW T, T \subseteq S
    PROVE  IsFiniteSet(T) /\ Cardinality(T) \in Nat /\ Cardinality(S) \in Nat
           /\ Cardinality(T) <= Cardinality(S)
BY FS_Subset, FS_CardinalityType

LEMMA Grown ==
    ASSUME NEW S, IsFiniteSet(S), NEW x, NEW T, T \subseteq S \cup {x}
    PROVE  IsFiniteSet(T) /\ Cardinality(T) \in Nat /\ Cardinality(S) \in Nat
           /\ Cardinality(T) <= Cardinality(S) + 1
<1>1. /\ IsFiniteSet(S \cup {x}) /\ Cardinality(S) \in Nat
      /\ Cardinality(S \cup {x}) \in {Cardinality(S), Cardinality(S) + 1}
  BY FS_AddElement, FS_CardinalityType
<1>2. QED
  BY <1>1, Part

LEMMA Shrunk ==
    ASSUME NEW S, IsFiniteSet(S), NEW x \in S, NEW T, T \subseteq S \ {x}
    PROVE  IsFiniteSet(T) /\ Cardinality(T) \in Nat /\ Cardinality(S) \in Nat
           /\ Cardinality(T) <= Cardinality(S) - 1
<1>1. /\ IsFiniteSet(S \ {x}) /\ Cardinality(S) \in Nat
      /\ Cardinality(S \ {x}) = Cardinality(S) - 1
  BY FS_RemoveElement, FS_CardinalityType
<1>2. QED
  BY <1>1, Part

LEMMA Finite ==
    /\ IsFiniteSet(Minting) /\ IsFiniteSet(Asks) /\ IsFiniteSet(Unborn) /\ IsFiniteSet(Live)
    /\ IsFiniteSet(Nobody) /\ IsFiniteSet(Counting) /\ \A c : IsFiniteSet(Comparing(c))
<1>1. IsFiniteSet(Handlers) /\ IsFiniteSet(Tokens)
  BY Bounds, FS_Interval DEF Tokens
<1>2. QED
  BY <1>1, FS_Subset DEF Minting, Asks, Unborn, Live, Nobody, Counting, Comparing

LEMMA MintsKept ==
    ASSUME Spare, Minting' \subseteq Minting, Unborn' = Unborn
    PROVE  Cardinality(Minting') <= Cardinality(Unborn')
BY Part, Finite DEF Spare

LEMMA MintsGrown ==
    ASSUME MayMint, NEW h, Minting' \subseteq Minting \cup {h}, Unborn' = Unborn
    PROVE  Cardinality(Minting') <= Cardinality(Unborn')
<1>1. Cardinality(Minting') <= Cardinality(Minting) + 1 /\ Cardinality(Minting') \in Nat
  BY Grown, Finite
<1>2. Cardinality(Minting) \in Nat /\ Cardinality(Unborn) \in Nat
  BY Finite, FS_CardinalityType
<1>3. QED
  BY <1>1, <1>2 DEF MayMint

LEMMA MintsShrunk ==
    ASSUME Spare, NEW h \in Minting, Minting' \subseteq Minting \ {h}, NEW t \in Unborn, Unborn' = Unborn \ {t}
    PROVE  Cardinality(Minting') <= Cardinality(Unborn')
<1>1. Cardinality(Minting') <= Cardinality(Minting) - 1 /\ Cardinality(Minting') \in Nat
  BY Shrunk, Finite
<1>2. Cardinality(Unborn') = Cardinality(Unborn) - 1 /\ Cardinality(Unborn) \in Nat
  BY FS_RemoveElement, Finite, FS_CardinalityType
<1>3. Cardinality(Minting) \in Nat
  BY Finite, FS_CardinalityType
<1>4. QED
  BY <1>1, <1>2, <1>3 DEF Spare

LEMMA AsksKept ==
    ASSUME Typed, Spare, Asks' \subseteq Asks, sent' = sent
    PROVE  sent' + Cardinality(Asks') <= MaxCodes
BY Part, Finite, Bounds DEF Typed, Spare

LEMMA AsksGrown ==
    ASSUME Typed, MayAsk, NEW h, Asks' \subseteq Asks \cup {h}, sent' = sent
    PROVE  sent' + Cardinality(Asks') <= MaxCodes
<1>1. Cardinality(Asks') <= Cardinality(Asks) + 1 /\ Cardinality(Asks') \in Nat
  BY Grown, Finite
<1>2. Cardinality(Asks) \in Nat
  BY Finite, FS_CardinalityType
<1>3. QED
  BY <1>1, <1>2, Bounds DEF Typed, MayAsk

LEMMA AsksShrunk ==
    ASSUME Typed, Spare, NEW h \in Asks, Asks' \subseteq Asks \ {h}, sent' = sent + 1
    PROVE  sent' + Cardinality(Asks') <= MaxCodes
BY Shrunk, Finite, Bounds DEF Typed, Spare

LEMMA SpareStep ==
    ASSUME Base, [Next]_vars
    PROVE  Spare'
<1>1. CASE UNCHANGED vars
  BY <1>1 DEF vars, redis, phone, tally, Base, Spare, MayMint, Minting, Unborn, Asks
<1>2. ASSUME NEW h \in Handlers, AskCode(h)
      PROVE  Spare'
  <2>1. Minting' \subseteq Minting /\ Unborn' = Unborn
    BY <1>2, AskCodeDoes DEF Starts, Others, Base, Typed, Minting, Unborn, Asks, redis, phone, tally
  <2>2. MayAsk /\ Asks' \subseteq Asks \cup {h} /\ sent' = sent
    BY <1>2, AskCodeDoes DEF Starts, Others, Base, Typed, Minting, Unborn, Asks, redis, phone, tally
  <2>3. QED
    BY <1>2, <2>1, <2>2, MintsKept, AsksGrown DEF Base, Spare
<1>3. ASSUME NEW h \in Handlers, NEW c \in 0..sent, TypeCode(h, c)
      PROVE  Spare'
  <2>1. MayMint /\ Minting' \subseteq Minting \cup {h} /\ Unborn' = Unborn
    BY <1>3, TypeCodeDoes DEF Starts, Others, Base, Typed, Minting, Unborn, Asks, redis, phone,
       tally
  <2>2. Asks' \subseteq Asks /\ sent' = sent
    BY <1>3, TypeCodeDoes DEF Starts, Others, Base, Typed, Minting, Unborn, Asks, redis, phone,
       tally
  <2>3. QED
    BY <1>3, <2>1, <2>2, MintsGrown, AsksKept DEF Base, Spare
<1>4. ASSUME NEW h \in Handlers, TypeAgain(h)
      PROVE  Spare'
  <2>1. MayMint /\ Minting' \subseteq Minting \cup {h} /\ Unborn' = Unborn
    BY <1>4, TypeAgainDoes DEF Starts, Others, Base, Typed, Minting, Unborn, Asks, redis, phone,
       tally
  <2>2. Asks' \subseteq Asks /\ sent' = sent
    BY <1>4, TypeAgainDoes DEF Starts, Others, Base, Typed, Minting, Unborn, Asks, redis, phone,
       tally
  <2>3. QED
    BY <1>4, <2>1, <2>2, MintsGrown, AsksKept DEF Base, Spare
<1>5. ASSUME NEW h \in Handlers, CheckCooldown(h)
      PROVE  Spare'
  <2>1. Minting' \subseteq Minting /\ Unborn' = Unborn
    BY <1>5, CheckCooldownDoes, IdleJob DEF Quiet, Replies, Moves, Turns, Others, Done, Working,
       Base, Typed, Minting, Unborn, Asks, redis, phone, tally
  <2>2. Asks' \subseteq Asks /\ sent' = sent
    BY <1>5, CheckCooldownDoes, IdleJob DEF Quiet, Replies, Moves, Turns, Others, Done, Working,
       Base, Typed, Minting, Unborn, Asks, redis, phone, tally
  <2>3. QED
    BY <1>5, <2>1, <2>2, MintsKept, AsksKept DEF Base, Spare
<1>6. ASSUME NEW h \in Handlers, SendCode(h)
      PROVE  Spare'
  <2>1. Minting' \subseteq Minting /\ Unborn' = Unborn
    BY <1>6, SendCodeDoes, IdleJob DEF Quiet, Replies, Moves, Turns, Others, Done, Working, Base,
       Typed, Minting, Unborn, Asks, redis, phone, tally
  <2>2. h \in Asks /\ Asks' \subseteq Asks \ {h} /\ sent' = sent + 1
    BY <1>6, SendCodeDoes, IdleJob DEF Quiet, Replies, Moves, Turns, Others, Done, Working, Base,
       Typed, Minting, Unborn, Asks, redis, phone, tally
  <2>3. QED
    BY <2>1, <2>2, MintsKept, AsksShrunk DEF Base, Spare
<1>7. ASSUME NEW h \in Handlers, ReadOtp(h)
      PROVE  Spare'
  <2>1. Minting' \subseteq Minting /\ Unborn' = Unborn
    BY <1>7, ReadOtpDoes, IdleJob DEF Quiet, Replies, Moves, Turns, Others, Done, Working, Base,
       Typed, Minting, Unborn, Asks, redis, phone, tally
  <2>2. Asks' \subseteq Asks /\ sent' = sent
    BY <1>7, ReadOtpDoes, IdleJob DEF Quiet, Replies, Moves, Turns, Others, Done, Working, Base,
       Typed, Minting, Unborn, Asks, redis, phone, tally
  <2>3. QED
    BY <1>7, <2>1, <2>2, MintsKept, AsksKept DEF Base, Spare
<1>8. ASSUME NEW h \in Handlers, CountAttempt(h)
      PROVE  Spare'
  <2>1. Minting' \subseteq Minting /\ Unborn' = Unborn
    BY <1>8, CountAttemptDoes, IdleJob DEF Quiet, Replies, Moves, Turns, Others, Done, Working,
       Base, Typed, Minting, Unborn, Asks, redis, phone, tally
  <2>2. Asks' \subseteq Asks /\ sent' = sent
    BY <1>8, CountAttemptDoes, IdleJob DEF Quiet, Replies, Moves, Turns, Others, Done, Working,
       Base, Typed, Minting, Unborn, Asks, redis, phone, tally
  <2>3. QED
    BY <1>8, <2>1, <2>2, MintsKept, AsksKept DEF Base, Spare
<1>9. ASSUME NEW h \in Handlers, DropOtp(h)
      PROVE  Spare'
  <2>1. Minting' \subseteq Minting /\ Unborn' = Unborn
    BY <1>9, DropOtpDoes, IdleJob DEF Quiet, Replies, Moves, Turns, Others, Done, Working, Base,
       Typed, Minting, Unborn, Asks, redis, phone, tally
  <2>2. Asks' \subseteq Asks /\ sent' = sent
    BY <1>9, DropOtpDoes, IdleJob DEF Quiet, Replies, Moves, Turns, Others, Done, Working, Base,
       Typed, Minting, Unborn, Asks, redis, phone, tally
  <2>3. QED
    BY <1>9, <2>1, <2>2, MintsKept, AsksKept DEF Base, Spare
<1>10. ASSUME NEW h \in Handlers, FindOrCreateUser(h)
      PROVE  Spare'
  <2>1. Minting' \subseteq Minting /\ Unborn' = Unborn
    BY <1>10, FindOrCreateUserDoes, IdleJob DEF Quiet, Replies, Moves, Turns, Others, Done,
       Working, Base, Typed, Minting, Unborn, Asks, redis, phone, tally
  <2>2. Asks' \subseteq Asks /\ sent' = sent
    BY <1>10, FindOrCreateUserDoes, IdleJob DEF Quiet, Replies, Moves, Turns, Others, Done,
       Working, Base, Typed, Minting, Unborn, Asks, redis, phone, tally
  <2>3. QED
    BY <1>10, <2>1, <2>2, MintsKept, AsksKept DEF Base, Spare
<1>11. ASSUME NEW h \in Handlers, ReadRefresh(h)
      PROVE  Spare'
  <2>1. Minting' \subseteq Minting /\ Unborn' = Unborn
    BY <1>11, ReadRefreshDoes, IdleJob DEF Quiet, Replies, Moves, Turns, Others, Done, Working,
       Base, Typed, Minting, Unborn, Asks, redis, phone, tally
  <2>2. Asks' \subseteq Asks /\ sent' = sent
    BY <1>11, ReadRefreshDoes, IdleJob DEF Quiet, Replies, Moves, Turns, Others, Done, Working,
       Base, Typed, Minting, Unborn, Asks, redis, phone, tally
  <2>3. QED
    BY <1>11, <2>1, <2>2, MintsKept, AsksKept DEF Base, Spare
<1>12. ASSUME NEW h \in Handlers, LookupUser(h)
      PROVE  Spare'
  <2>1. Minting' \subseteq Minting /\ Unborn' = Unborn
    BY <1>12, LookupUserDoes, IdleJob DEF Quiet, Replies, Moves, Turns, Others, Done, Working,
       Base, Typed, Minting, Unborn, Asks, redis, phone, tally
  <2>2. Asks' \subseteq Asks /\ sent' = sent
    BY <1>12, LookupUserDoes, IdleJob DEF Quiet, Replies, Moves, Turns, Others, Done, Working,
       Base, Typed, Minting, Unborn, Asks, redis, phone, tally
  <2>3. QED
    BY <1>12, <2>1, <2>2, MintsKept, AsksKept DEF Base, Spare
<1>13. ASSUME NEW h \in Handlers, Rotate(h)
      PROVE  Spare'
  <2>1. Minting' \subseteq Minting /\ Unborn' = Unborn
    BY <1>13, RotateDoes, IdleJob DEF Quiet, Replies, Moves, Turns, Others, Done, Working, Base,
       Typed, Minting, Unborn, Asks, redis, phone, tally, Untouched, Born
  <2>2. Asks' \subseteq Asks /\ sent' = sent
    BY <1>13, RotateDoes, IdleJob DEF Quiet, Replies, Moves, Turns, Others, Done, Working, Base,
       Typed, Minting, Unborn, Asks, redis, phone, tally, Untouched, Born
  <2>3. QED
    BY <1>13, <2>1, <2>2, MintsKept, AsksKept DEF Base, Spare
<1>14. ASSUME NEW h \in Handlers, IssueTokens(h)
      PROVE  Spare'
  <2>1. PICK t \in Tokens, f \in Tokens : Issues(h, t, f)
    BY <1>14, IssueTokensDoes
  <2>2. h \in Minting /\ Minting' \subseteq Minting \ {h} /\ t \in Unborn /\ Unborn' = Unborn \ {t}
    BY <1>14, <2>1, IssueTokensDoes, IdleJob DEF Quiet, Replies, Moves, Turns, Others, Done,
       Working, Base, Typed, Minting, Unborn, Asks, redis, phone, tally, Issues, Untouched
  <2>3. Asks' \subseteq Asks /\ sent' = sent
    BY <1>14, <2>1, IssueTokensDoes, IdleJob DEF Quiet, Replies, Moves, Turns, Others, Done,
       Working, Base, Typed, Minting, Unborn, Asks, redis, phone, tally, Issues
  <2>4. QED
    BY <2>2, <2>3, MintsShrunk, AsksKept DEF Base, Spare
<1>15. ASSUME NEW h \in Handlers, ReadMembers(h)
      PROVE  Spare'
  <2>1. Minting' \subseteq Minting /\ Unborn' = Unborn
    BY <1>15, ReadMembersDoes, IdleJob DEF Quiet, Replies, Moves, Turns, Others, Done, Working,
       Base, Typed, Minting, Unborn, Asks, redis, phone, tally
  <2>2. Asks' \subseteq Asks /\ sent' = sent
    BY <1>15, ReadMembersDoes, IdleJob DEF Quiet, Replies, Moves, Turns, Others, Done, Working,
       Base, Typed, Minting, Unborn, Asks, redis, phone, tally
  <2>3. QED
    BY <1>15, <2>1, <2>2, MintsKept, AsksKept DEF Base, Spare
<1>16. ASSUME NEW h \in Handlers, RevokeFamily(h)
      PROVE  Spare'
  <2>1. Minting' \subseteq Minting /\ Unborn' = Unborn
    BY <1>16, RevokeFamilyDoes, IdleJob DEF Quiet, Replies, Moves, Turns, Others, Done, Working,
       Base, Typed, Minting, Unborn, Asks, redis, phone, tally, Revokes
  <2>2. Asks' \subseteq Asks /\ sent' = sent
    BY <1>16, RevokeFamilyDoes, IdleJob DEF Quiet, Replies, Moves, Turns, Others, Done, Working,
       Base, Typed, Minting, Unborn, Asks, redis, phone, tally, Revokes
  <2>3. QED
    BY <1>16, <2>1, <2>2, MintsKept, AsksKept DEF Base, Spare
<1>17. ASSUME NEW h \in Handlers, ServerError(h)
      PROVE  Spare'
  <2>1. Minting' \subseteq Minting /\ Unborn' = Unborn
    BY <1>17, ServerErrorDoes, IdleJob DEF Quiet, Replies, Moves, Turns, Others, Done, Working,
       Base, Typed, Minting, Unborn, Asks, redis, phone, tally
  <2>2. Asks' \subseteq Asks /\ sent' = sent
    BY <1>17, ServerErrorDoes, IdleJob DEF Quiet, Replies, Moves, Turns, Others, Done, Working,
       Base, Typed, Minting, Unborn, Asks, redis, phone, tally
  <2>3. QED
    BY <1>17, <2>1, <2>2, MintsKept, AsksKept DEF Base, Spare
<1>18. ASSUME NEW h \in Handlers, SignInTimesOut(h)
      PROVE  Spare'
  <2>1. CASE Forsakes(login.h)
    <3>1. Minting' \subseteq Minting /\ Unborn' = Unborn /\ Asks' \subseteq Asks /\ sent' = sent
      BY SMTT(30), <1>18, <2>1, SignInTimesOutDoes, IdleJob DEF Forsakes, LeftAlone, Others, Done, Base,
         Typed, Minting, Unborn, Asks, redis, phone, tally
    <3>2. QED
      BY <3>1, MintsKept, AsksKept DEF Base, Spare
  <2>2. CASE /\ h # login.h /\ handler[h].at = "idle" /\ MayMint
             /\ LeftAlone(handler[login.h], handler'[login.h])
             /\ \A k \in Handlers \ {h, login.h} : handler'[k] = handler[k]
             /\ \/ MayAsk /\ handler'[h].at = "ask"
                \/ handler'[h].at = "verify"
    <3>1. /\ Unborn' = Unborn /\ sent' = sent
          /\ \A k \in Handlers \ {h} : handler'[k].at \in {handler[k].at, "idle"}
      BY <1>18, <2>2, SignInTimesOutDoes, IdleJob DEF LeftAlone, Done, Base, Typed, Minting,
         Unborn, Asks, redis, phone, tally
    <3>2. CASE MayAsk /\ handler'[h].at = "ask"
      <4>1. Minting' \subseteq Minting /\ Asks' \subseteq Asks \cup {h}
        BY <3>1, <3>2 DEF Minting, Asks
      <4>2. QED
        BY <3>1, <3>2, <4>1, MintsKept, AsksGrown DEF Base, Spare
    <3>3. CASE handler'[h].at = "verify"
      <4>1. Minting' \subseteq Minting \cup {h} /\ Asks' \subseteq Asks
        BY <3>1, <3>3 DEF Minting, Asks
      <4>2. QED
        BY <2>2, <3>1, <4>1, MintsGrown, AsksKept DEF Base, Spare
    <3>4. QED
      BY <2>2, <3>2, <3>3
  <2>3. QED
    BY <1>18, <2>1, <2>2, SignInTimesOutDoes
<1>19. ASSUME NEW h \in Handlers, StartRefresh(h)
      PROVE  Spare'
  <2>1. MayMint /\ Minting' \subseteq Minting \cup {h} /\ Unborn' = Unborn
    BY <1>19, StartRefreshDoes DEF Starts, Others, Base, Typed, Minting, Unborn, Asks, redis,
       phone, tally
  <2>2. Asks' \subseteq Asks /\ sent' = sent
    BY <1>19, StartRefreshDoes DEF Starts, Others, Base, Typed, Minting, Unborn, Asks, redis,
       phone, tally
  <2>3. QED
    BY <1>19, <2>1, <2>2, MintsGrown, AsksKept DEF Base, Spare
<1>20. ASSUME SignInAnswered
      PROVE  Spare'
  <2>1. Minting' \subseteq Minting /\ Unborn' = Unborn
    BY <1>20, SignInAnsweredDoes, IdleJob DEF Heard, Others, Done, Base, Typed, Minting, Unborn,
       Asks, redis, phone, tally
  <2>2. Asks' \subseteq Asks /\ sent' = sent
    BY <1>20, SignInAnsweredDoes, IdleJob DEF Heard, Others, Done, Base, Typed, Minting, Unborn,
       Asks, redis, phone, tally
  <2>3. QED
    BY <1>20, <2>1, <2>2, MintsKept, AsksKept DEF Base, Spare
<1>21. ASSUME SaveSignIn
      PROVE  Spare'
  <2>1. Minting' \subseteq Minting /\ Unborn' = Unborn
    BY <1>21, SaveSignInDoes DEF Base, Typed, Minting, Unborn, Asks, redis, phone, tally
  <2>2. Asks' \subseteq Asks /\ sent' = sent
    BY <1>21, SaveSignInDoes DEF Base, Typed, Minting, Unborn, Asks, redis, phone, tally
  <2>3. QED
    BY <1>21, <2>1, <2>2, MintsKept, AsksKept DEF Base, Spare
<1>22. ASSUME SaveFails
      PROVE  Spare'
  <2>1. Minting' \subseteq Minting /\ Unborn' = Unborn
    BY <1>22, SaveFailsDoes DEF Base, Typed, Minting, Unborn, Asks, redis, phone, tally
  <2>2. Asks' \subseteq Asks /\ sent' = sent
    BY <1>22, SaveFailsDoes DEF Base, Typed, Minting, Unborn, Asks, redis, phone, tally
  <2>3. QED
    BY <1>22, <2>1, <2>2, MintsKept, AsksKept DEF Base, Spare
<1>23. ASSUME BackToPhone
      PROVE  Spare'
  <2>1. Minting' \subseteq Minting /\ Unborn' = Unborn
    BY <1>23, BackToPhoneDoes DEF Base, Typed, Minting, Unborn, Asks, redis, phone, tally
  <2>2. Asks' \subseteq Asks /\ sent' = sent
    BY <1>23, BackToPhoneDoes DEF Base, Typed, Minting, Unborn, Asks, redis, phone, tally
  <2>3. QED
    BY <1>23, <2>1, <2>2, MintsKept, AsksKept DEF Base, Spare
<1>24. ASSUME NEW c \in Calls, NEW kind \in {"api", "logout"}, StartCall(c, kind)
      PROVE  Spare'
  <2>1. Minting' \subseteq Minting /\ Unborn' = Unborn
    BY <1>24, StartCallDoes DEF Base, Typed, Minting, Unborn, Asks, redis, phone, tally
  <2>2. Asks' \subseteq Asks /\ sent' = sent
    BY <1>24, StartCallDoes DEF Base, Typed, Minting, Unborn, Asks, redis, phone, tally
  <2>3. QED
    BY <1>24, <2>1, <2>2, MintsKept, AsksKept DEF Base, Spare
<1>25. ASSUME NEW c \in Calls, Answered(c)
      PROVE  Spare'
  <2>1. Minting' \subseteq Minting /\ Unborn' = Unborn
    BY <1>25, AnsweredDoes DEF Base, Typed, Minting, Unborn, Asks, redis, phone, tally
  <2>2. Asks' \subseteq Asks /\ sent' = sent
    BY <1>25, AnsweredDoes DEF Base, Typed, Minting, Unborn, Asks, redis, phone, tally
  <2>3. QED
    BY <1>25, <2>1, <2>2, MintsKept, AsksKept DEF Base, Spare
<1>26. ASSUME NEW c \in Calls, Unanswered(c)
      PROVE  Spare'
  <2>1. Minting' \subseteq Minting /\ Unborn' = Unborn
    BY <1>26, UnansweredDoes DEF Base, Typed, Minting, Unborn, Asks, redis, phone, tally
  <2>2. Asks' \subseteq Asks /\ sent' = sent
    BY <1>26, UnansweredDoes DEF Base, Typed, Minting, Unborn, Asks, redis, phone, tally
  <2>3. QED
    BY <1>26, <2>1, <2>2, MintsKept, AsksKept DEF Base, Spare
<1>27. ASSUME NEW c \in Calls, Restore(c)
      PROVE  Spare'
  <2>1. Minting' \subseteq Minting /\ Unborn' = Unborn
    BY <1>27, RestoreDoes DEF Base, Typed, Minting, Unborn, Asks, redis, phone, tally
  <2>2. Asks' \subseteq Asks /\ sent' = sent
    BY <1>27, RestoreDoes DEF Base, Typed, Minting, Unborn, Asks, redis, phone, tally
  <2>3. QED
    BY <1>27, <2>1, <2>2, MintsKept, AsksKept DEF Base, Spare
<1>28. ASSUME NothingToRefresh
      PROVE  Spare'
  <2>1. Minting' \subseteq Minting /\ Unborn' = Unborn
    BY <1>28, NothingToRefreshDoes DEF Base, Typed, Minting, Unborn, Asks, redis, phone, tally
  <2>2. Asks' \subseteq Asks /\ sent' = sent
    BY <1>28, NothingToRefreshDoes DEF Base, Typed, Minting, Unborn, Asks, redis, phone, tally
  <2>3. QED
    BY <1>28, <2>1, <2>2, MintsKept, AsksKept DEF Base, Spare
<1>29. ASSUME RefreshRefused
      PROVE  Spare'
  <2>1. Minting' \subseteq Minting /\ Unborn' = Unborn
    BY <1>29, RefreshRefusedDoes, IdleJob DEF Heard, Others, Done, Base, Typed, Minting, Unborn,
       Asks, redis, phone, tally
  <2>2. Asks' \subseteq Asks /\ sent' = sent
    BY <1>29, RefreshRefusedDoes, IdleJob DEF Heard, Others, Done, Base, Typed, Minting, Unborn,
       Asks, redis, phone, tally
  <2>3. QED
    BY <1>29, <2>1, <2>2, MintsKept, AsksKept DEF Base, Spare
<1>30. ASSUME RefreshGranted
      PROVE  Spare'
  <2>1. Minting' \subseteq Minting /\ Unborn' = Unborn
    BY <1>30, RefreshGrantedDoes, IdleJob DEF Heard, Others, Done, Base, Typed, Minting, Unborn,
       Asks, redis, phone, tally
  <2>2. Asks' \subseteq Asks /\ sent' = sent
    BY <1>30, RefreshGrantedDoes, IdleJob DEF Heard, Others, Done, Base, Typed, Minting, Unborn,
       Asks, redis, phone, tally
  <2>3. QED
    BY <1>30, <2>1, <2>2, MintsKept, AsksKept DEF Base, Spare
<1>31. ASSUME SaveRefreshed
      PROVE  Spare'
  <2>1. Minting' \subseteq Minting /\ Unborn' = Unborn
    BY <1>31, SaveRefreshedDoes DEF Base, Typed, Minting, Unborn, Asks, redis, phone, tally
  <2>2. Asks' \subseteq Asks /\ sent' = sent
    BY <1>31, SaveRefreshedDoes DEF Base, Typed, Minting, Unborn, Asks, redis, phone, tally
  <2>3. QED
    BY <1>31, <2>1, <2>2, MintsKept, AsksKept DEF Base, Spare
<1>32. ASSUME NEW result \in {"network", "401"}, RefreshLost(result)
      PROVE  Spare'
  <2>1. Minting' \subseteq Minting /\ Unborn' = Unborn
    BY <1>32, RefreshLostDoes, IdleJob DEF Forsakes, LeftAlone, Others, Done, Base, Typed,
       Minting, Unborn, Asks, redis, phone, tally
  <2>2. Asks' \subseteq Asks /\ sent' = sent
    BY <1>32, RefreshLostDoes, IdleJob DEF Forsakes, LeftAlone, Others, Done, Base, Typed,
       Minting, Unborn, Asks, redis, phone, tally
  <2>3. QED
    BY <1>32, <2>1, <2>2, MintsKept, AsksKept DEF Base, Spare
<1>33. ASSUME NEW t \in Tokens, ExpireAccess(t)
      PROVE  Spare'
  <2>1. Minting' \subseteq Minting /\ Unborn' = Unborn
    BY <1>33, ExpireAccessDoes DEF Base, Typed, Minting, Unborn, Asks, redis, phone, tally
  <2>2. Asks' \subseteq Asks /\ sent' = sent
    BY <1>33, ExpireAccessDoes DEF Base, Typed, Minting, Unborn, Asks, redis, phone, tally
  <2>3. QED
    BY <1>33, <2>1, <2>2, MintsKept, AsksKept DEF Base, Spare
<1>34. ASSUME Launch
      PROVE  Spare'
  <2>1. Minting' \subseteq Minting /\ Unborn' = Unborn
    BY <1>34, LaunchDoes, IdleJob DEF Forsakes, LeftAlone, Others, Done, Base, Typed, Minting,
       Unborn, Asks, redis, phone, tally
  <2>2. Asks' \subseteq Asks /\ sent' = sent
    BY <1>34, LaunchDoes, IdleJob DEF Forsakes, LeftAlone, Others, Done, Base, Typed, Minting,
       Unborn, Asks, redis, phone, tally
  <2>3. QED
    BY <1>34, <2>1, <2>2, MintsKept, AsksKept DEF Base, Spare
<1>35. ASSUME OtpRunsOut
      PROVE  Spare'
  <2>1. Minting' \subseteq Minting /\ Unborn' = Unborn
    BY <1>35, OtpRunsOutDoes DEF Base, Typed, Minting, Unborn, Asks, redis, phone, tally
  <2>2. Asks' \subseteq Asks /\ sent' = sent
    BY <1>35, OtpRunsOutDoes DEF Base, Typed, Minting, Unborn, Asks, redis, phone, tally
  <2>3. QED
    BY <1>35, <2>1, <2>2, MintsKept, AsksKept DEF Base, Spare
<1>36. ASSUME Block
      PROVE  Spare'
  <2>1. Minting' \subseteq Minting /\ Unborn' = Unborn
    BY <1>36, BlockDoes DEF Base, Typed, Minting, Unborn, Asks, redis, phone, tally
  <2>2. Asks' \subseteq Asks /\ sent' = sent
    BY <1>36, BlockDoes DEF Base, Typed, Minting, Unborn, Asks, redis, phone, tally
  <2>3. QED
    BY <1>36, <2>1, <2>2, MintsKept, AsksKept DEF Base, Spare
<1>37. QED
  BY <1>1, <1>2, <1>3, <1>4, <1>5, <1>6, <1>7, <1>8, <1>9, <1>10, <1>11, <1>12, <1>13, <1>14,
     <1>15, <1>16, <1>17, <1>18, <1>19, <1>20, <1>21, <1>22, <1>23, <1>24, <1>25, <1>26, <1>27,
     <1>28, <1>29, <1>30, <1>31, <1>32, <1>33, <1>34, <1>35, <1>36, NextCases

-----------------------------------------------------------------------------
(* Families of tokens *)

\* What every step does to the tokens: those issued stay in their families.
Grows == \A t \in Tokens : Born(t) => Born(t)' /\ token'[t].family = token[t].family

\* A handler knows the same as before; or it has just begun or just ended.
Same(h) ==
    /\ handler'[h].at = handler[h].at /\ handler'[h].t = handler[h].t
    /\ handler'[h].code = handler[h].code /\ handler'[h].family = handler[h].family
    /\ handler'[h].device = handler[h].device /\ handler'[h].doomed = handler[h].doomed
Fresh(h) ==
    /\ handler'[h].family = None /\ handler'[h].doomed = {} /\ handler'[h].code = None
    /\ handler'[h].at \in Done \cup {"idle", "ask", "verify", "read"}

LEMMA SameFamily ==
    ASSUME Base, Grows, NEW h \in Handlers, Same(h)
    PROVE  JobFamily(h)'
<1>1. JobFamily(h) /\ handler[h].doomed \subseteq Tokens
  BY DEF Base, Families, Typed, Job
<1>2. \A t : Born(t) => t \in Tokens
  BY DEF Born
<1>3. QED
  BY <1>1, <1>2 DEF JobFamily, Grows, Same, Born

LEMMA FreshFamily ==
    ASSUME NEW h \in Handlers, Fresh(h)
    PROVE  JobFamily(h)'
BY DEF JobFamily, Fresh, Done

LEMMA RepliedFamily ==
    ASSUME NEW h \in Handlers, NEW outcome \in Done, NEW t, Replies(h, outcome, t)
    PROVE  JobFamily(h)'
BY FreshFamily, IdleJob DEF Fresh, Replies, Done

LEMMA MovedFamily ==
    ASSUME Base, Grows, NEW h \in Handlers, NEW step \in Steps, Moves(h, step),
           handler[h].at \notin Done,
           \/ step \notin {"lookup", "rotate", "members", "revoke", "issue", "verify", "burn", "user"}
           \/ step \in {"rotate", "issue"} /\ handler[h].at \in {"lookup", "rotate"}
           \/ step \in {"burn", "user", "issue"} /\ handler[h].at \in {"verify", "burn", "user"}
    PROVE  JobFamily(h)'
<1>1. JobFamily(h) /\ handler[h].doomed \subseteq Tokens
  BY DEF Base, Families, Typed, Job
<1>2. \A t : Born(t) => t \in Tokens
  BY DEF Born
<1>3. QED
  BY <1>1, <1>2 DEF JobFamily, Grows, Moves, Turns, Born

LEMMA FamiliesKept ==
    ASSUME Base, UNCHANGED <<token, member>>, \A h \in Handlers : JobFamily(h)'
    PROVE  Families'
BY DEF Base, Families, TokenFamily, Born

LEMMA FamiliesStay ==
    ASSUME Base, UNCHANGED <<token, member, handler>>
    PROVE  Families'
BY DEF Base, Families, TokenFamily, JobFamily, Born

LEMMA FamiliesStep ==
    ASSUME Base, [Next]_vars
    PROVE  Families'
<1>1. CASE UNCHANGED vars
  BY <1>1, FamiliesStay DEF vars, redis
<1>2. ASSUME NEW h \in Handlers, AskCode(h)
      PROVE  Families'
  <2>1. Grows /\ UNCHANGED <<token, member>>
    BY <1>2, AskCodeDoes DEF Grows, Born, redis
  <2>2. \A k \in Handlers : Same(k) \/ Fresh(k)
    BY <1>2, AskCodeDoes, IdleJob DEF Same, Fresh, Done, phone, Starts, Others
  <2>3. QED
    BY <2>1, <2>2, SameFamily, FreshFamily, FamiliesKept
<1>3. ASSUME NEW h \in Handlers, NEW c \in 0..sent, TypeCode(h, c)
      PROVE  Families'
  <2>1. Grows /\ UNCHANGED <<token, member>>
    BY <1>3, TypeCodeDoes DEF Grows, Born, redis
  <2>2. \A k \in Handlers : Same(k) \/ Fresh(k)
    BY <1>3, TypeCodeDoes, IdleJob DEF Same, Fresh, Done, phone, Starts, Others
  <2>3. QED
    BY <2>1, <2>2, SameFamily, FreshFamily, FamiliesKept
<1>4. ASSUME NEW h \in Handlers, TypeAgain(h)
      PROVE  Families'
  <2>1. Grows /\ UNCHANGED <<token, member>>
    BY <1>4, TypeAgainDoes DEF Grows, Born, redis
  <2>2. \A k \in Handlers : Same(k) \/ Fresh(k)
    BY <1>4, TypeAgainDoes, IdleJob DEF Same, Fresh, Done, phone, Starts, Others
  <2>3. QED
    BY <2>1, <2>2, SameFamily, FreshFamily, FamiliesKept
<1>5. ASSUME NEW h \in Handlers, CheckCooldown(h)
      PROVE  Families'
  <2>1. Grows /\ UNCHANGED <<token, member>>
    BY <1>5, CheckCooldownDoes DEF Grows, Born, redis, Quiet
  <2>2. \A k \in Handlers \ {h} : JobFamily(k)'
    BY <1>5, <2>1, CheckCooldownDoes, SameFamily DEF Same, Others, Replies, Moves, Turns
  <2>3. JobFamily(h)'
    BY <1>5, <2>1, CheckCooldownDoes, MovedFamily, RepliedFamily DEF Done, Steps
  <2>4. QED
    BY <2>1, <2>2, <2>3, FamiliesKept
<1>6. ASSUME NEW h \in Handlers, SendCode(h)
      PROVE  Families'
  <2>1. Grows /\ UNCHANGED <<token, member>>
    BY <1>6, SendCodeDoes DEF Grows, Born, redis, Quiet
  <2>2. \A k \in Handlers \ {h} : JobFamily(k)'
    BY <1>6, <2>1, SendCodeDoes, SameFamily DEF Same, Others, Replies, Moves, Turns
  <2>3. JobFamily(h)'
    BY <1>6, <2>1, SendCodeDoes, RepliedFamily DEF Done
  <2>4. QED
    BY <2>1, <2>2, <2>3, FamiliesKept
<1>7. ASSUME NEW h \in Handlers, ReadOtp(h)
      PROVE  Families'
  <2>1. Grows /\ UNCHANGED <<token, member>>
    BY <1>7, ReadOtpDoes DEF Grows, Born, redis
  <2>2. \A k \in Handlers \ {h} : JobFamily(k)'
    BY <1>7, <2>1, ReadOtpDoes, SameFamily DEF Same, Others, Replies, Moves, Turns
  <2>3. CASE Replies(h, "refused", None)
    BY <2>1, <2>2, <2>3, RepliedFamily, FamiliesKept DEF Done
  <2>4. CASE /\ handler'[h].at \in {"lock", "burn", "count"} /\ handler'[h].t = handler[h].t
             /\ handler'[h].family = handler[h].family /\ handler'[h].doomed = handler[h].doomed
    <3>1. handler[h].family = None /\ JobFamily(h) /\ handler[h].doomed \subseteq Tokens
      BY <1>7, ReadOtpDoes DEF Base, Families, JobFamily, Typed, Job
    <3>2. JobFamily(h)'
      BY <2>1, <2>4, <3>1 DEF JobFamily, Grows, Born
    <3>3. QED
      BY <2>1, <2>2, <3>2, FamiliesKept
  <2>5. QED
    BY <1>7, <2>3, <2>4, ReadOtpDoes DEF Moves, Turns
<1>8. ASSUME NEW h \in Handlers, CountAttempt(h)
      PROVE  Families'
  <2>1. Grows /\ UNCHANGED <<token, member>>
    BY <1>8, CountAttemptDoes DEF Grows, Born, redis, Quiet
  <2>2. \A k \in Handlers \ {h} : JobFamily(k)'
    BY <1>8, <2>1, CountAttemptDoes, SameFamily DEF Same, Others, Replies, Moves, Turns
  <2>3. JobFamily(h)'
    BY <1>8, <2>1, CountAttemptDoes, RepliedFamily DEF Done
  <2>4. QED
    BY <2>1, <2>2, <2>3, FamiliesKept
<1>9. ASSUME NEW h \in Handlers, DropOtp(h)
      PROVE  Families'
  <2>1. Grows /\ UNCHANGED <<token, member>>
    BY <1>9, DropOtpDoes DEF Grows, Born, redis, Quiet
  <2>2. \A k \in Handlers \ {h} : JobFamily(k)'
    BY <1>9, <2>1, DropOtpDoes, SameFamily DEF Same, Others, Replies, Moves, Turns
  <2>3. JobFamily(h)'
    BY <1>9, <2>1, DropOtpDoes, MovedFamily, RepliedFamily DEF Done, Steps
  <2>4. QED
    BY <2>1, <2>2, <2>3, FamiliesKept
<1>10. ASSUME NEW h \in Handlers, FindOrCreateUser(h)
      PROVE  Families'
  <2>1. Grows /\ UNCHANGED <<token, member>>
    BY <1>10, FindOrCreateUserDoes DEF Grows, Born, redis, Quiet
  <2>2. \A k \in Handlers \ {h} : JobFamily(k)'
    BY <1>10, <2>1, FindOrCreateUserDoes, SameFamily DEF Same, Others, Replies, Moves, Turns
  <2>3. JobFamily(h)'
    BY <1>10, <2>1, FindOrCreateUserDoes, MovedFamily, RepliedFamily DEF Done, Steps
  <2>4. QED
    BY <2>1, <2>2, <2>3, FamiliesKept
<1>11. ASSUME NEW h \in Handlers, ReadRefresh(h)
      PROVE  Families'
  <2> DEFINE t == handler[h].t  row == token[t]
  <2>1. Grows /\ UNCHANGED <<token, member>>
    BY <1>11, ReadRefreshDoes DEF Grows, Born, redis, Quiet
  <2>2. \A k \in Handlers \ {h} : JobFamily(k)'
    BY <1>11, <2>1, ReadRefreshDoes, SameFamily DEF Same, Others, Replies, Turns
  <2>3. CASE Replies(h, "refused", None)
    BY <2>1, <2>2, <2>3, RepliedFamily, FamiliesKept DEF Done
  <2>4. CASE \E step \in {"lookup", "members"} : Turns(h, step, handler[h].code, row.family,
     handler[h].doomed)
    <3>1. /\ handler[h].at = "read" /\ Born(t) /\ Born(row.family) /\ t \in Tokens
          /\ handler'[h].at \in {"lookup", "members"} /\ handler'[h].t = t
          /\ handler'[h].family = row.family /\ handler'[h].doomed = handler[h].doomed
      BY <1>11, <2>4, ReadRefreshDoes DEF Base, Families, TokenFamily, Turns, Born
    <3>2. \A u \in handler[h].doomed : token[u].family = row.family /\ Born(u)
      <4>1. CASE handler[h].family = None
        BY ZenonT(40), <4>1, Bounds DEF Base, Families, JobFamily, TokenFamily, Born
      <4>2. CASE handler[h].family # None
        BY <3>1, <4>2 DEF Base, Families, JobFamily, Done
      <4>3. QED
        BY <4>1, <4>2
    <3>3. JobFamily(h)'
      BY <2>1, <3>1, <3>2 DEF JobFamily, Born
    <3>4. QED
      BY <2>1, <2>2, <3>3, FamiliesKept
  <2>5. QED
    BY <1>11, <2>3, <2>4, ReadRefreshDoes
<1>12. ASSUME NEW h \in Handlers, LookupUser(h)
      PROVE  Families'
  <2>1. Grows /\ UNCHANGED <<token, member>>
    BY <1>12, LookupUserDoes DEF Grows, Born, redis, Quiet
  <2>2. \A k \in Handlers \ {h} : JobFamily(k)'
    BY <1>12, <2>1, LookupUserDoes, SameFamily DEF Same, Others, Replies, Moves, Turns
  <2>3. JobFamily(h)'
    BY <1>12, <2>1, LookupUserDoes, MovedFamily, RepliedFamily DEF Done, Steps
  <2>4. QED
    BY <2>1, <2>2, <2>3, FamiliesKept
<1>13. ASSUME NEW h \in Handlers, Rotate(h)
      PROVE  Families'
  <2> DEFINE t == handler[h].t
  <2>1. /\ Grows /\ UNCHANGED member /\ Born(t) /\ t \in Tokens
        /\ \A u \in Tokens : token'[u].family = token[u].family /\ (Born(u)' <=> Born(u))
    BY <1>13, RotateDoes DEF Grows, Born, Untouched
  <2>2. \A k \in Handlers \ {h} : JobFamily(k)'
    <3>1. Others(h)
      BY <1>13, RotateDoes DEF Moves, Turns
    <3>2. QED
      BY <2>1, <3>1, SameFamily DEF Same, Others
  <2>3. JobFamily(h)'
    <3>1. Moves(h, "issue") /\ handler[h].at = "rotate"
      BY <1>13, RotateDoes
    <3>2. QED
      BY <2>1, <3>1, MovedFamily DEF Steps, Done
  <2>4. \A u \in Tokens : TokenFamily(u)'
    BY <2>1, Bounds DEF Base, Typed, TokenRow, Families, TokenFamily, Born
  <2>5. QED
    BY <2>2, <2>3, <2>4 DEF Families
<1>14. ASSUME NEW h \in Handlers, IssueTokens(h)
      PROVE  Families'
  <2>1. PICK t \in Tokens, f \in Tokens : Issues(h, t, f)
    BY <1>14, IssueTokensDoes
  <2>2. /\ Grows /\ ~Born(t) /\ Born(t)' /\ Born(f)'
        /\ \A u \in Tokens \ {t} : token'[u] = token[u] /\ (Born(u)' <=> Born(u))
    BY <1>14, <2>1, IssueTokensDoes DEF Grows, Born, Issues, Untouched, Base, Families, JobFamily
  <2>3. \A k \in Handlers \ {h} : JobFamily(k)'
    BY <2>1, <2>2, SameFamily DEF Issues, Same, Others, Replies
  <2>4. JobFamily(h)'
    BY <2>1, <2>2, RepliedFamily DEF Issues, Done
  <2>5. ASSUME NEW u \in Tokens PROVE TokenFamily(u)'
    <3>1. CASE u = t
      <4>1. member[t] = {}
        <5>1. ASSUME NEW v \in member[t] PROVE FALSE
          <6>1. v \in Tokens /\ token[v].family = t /\ Born(v)
            BY <5>1 DEF Base, Typed, Families, TokenFamily
          <6>2. QED
            BY <2>2, <6>1 DEF Base, Families, TokenFamily
        <5>2. QED
          BY <5>1
      <4>2. \A v \in member'[t] : v = t /\ f = t
        BY <2>1, <4>1 DEF Issues
      <4>3. QED
        BY <2>1, <2>2, <3>1, <4>2 DEF TokenFamily, Issues
    <3>2. CASE u # t
      <4>1. TokenFamily(u) /\ token'[u] = token[u] /\ (Born(u)' <=> Born(u))
        BY <2>2, <3>2 DEF Base, Families
      <4>2. Born(u)' => Born(token[u].family)'
        BY <2>2, <4>1 DEF TokenFamily, Grows, Born
      <4>3. \A v \in member'[u] : token'[v].family = u /\ Born(v)'
        <5>1. \A v \in member[u] : v \in Tokens /\ token'[v].family = u /\ Born(v)'
          BY <2>2, <4>1 DEF TokenFamily, Grows, Base, Typed
        <5>2. CASE u = f
          BY <2>1, <2>2, <5>1, <5>2 DEF Issues
        <5>3. CASE u # f
          BY <2>1, <5>1, <5>3 DEF Issues
        <5>4. QED
          BY <5>2, <5>3
      <4>4. QED
        BY <4>1, <4>2, <4>3 DEF TokenFamily
    <3>3. QED
      BY <3>1, <3>2
  <2>6. QED
    BY <2>3, <2>4, <2>5 DEF Families
<1>15. ASSUME NEW h \in Handlers, ReadMembers(h)
      PROVE  Families'
  <2>1. Grows /\ UNCHANGED <<token, member>>
    BY <1>15, ReadMembersDoes DEF Grows, Born, redis, Quiet
  <2>2. \A k \in Handlers \ {h} : JobFamily(k)'
    BY <1>15, <2>1, ReadMembersDoes, SameFamily DEF Same, Others, Replies, Moves, Turns
  <2>3. JobFamily(h)'
    BY <1>15, <2>1, ReadMembersDoes DEF Turns, Base, Families, JobFamily, TokenFamily, Born, Done
  <2>4. QED
    BY <2>1, <2>2, <2>3, FamiliesKept
<1>16. ASSUME NEW h \in Handlers, RevokeFamily(h)
      PROVE  Families'
  <2>1. /\ Grows
        /\ \A u \in Tokens : /\ token'[u].family = token[u].family /\ (Born(u)' <=> Born(u))
                             /\ member'[u] = member[u] \/ member'[u] = {}
    BY <1>16, RevokeFamilyDoes DEF Grows, Born, Revokes
  <2>2. \A k \in Handlers \ {h} : JobFamily(k)'
    BY <1>16, <2>1, RevokeFamilyDoes, SameFamily DEF Same, Others, Replies
  <2>3. JobFamily(h)'
    BY <1>16, <2>1, RevokeFamilyDoes, RepliedFamily DEF Done
  <2>4. ASSUME NEW u \in Tokens PROVE TokenFamily(u)'
    <3>1. \A v \in Tokens : Born(v)' <=> Born(v)
      BY <2>1
    <3>2. /\ Born(u)' => Born(token[u].family)' /\ token[u].family \in Tokens
          /\ ~Born(u)' => token'[u].family = None
      BY <2>1 DEF Base, Families, TokenFamily, Born
    <3>3. \A v \in member'[u] : token'[v].family = u /\ Born(v)'
      BY <2>1 DEF Base, Typed, Families, TokenFamily
    <3>4. QED
      BY <3>2, <3>3 DEF TokenFamily
  <2>5. QED
    BY <2>2, <2>3, <2>4 DEF Families
<1>17. ASSUME NEW h \in Handlers, ServerError(h)
      PROVE  Families'
  <2>1. Grows /\ UNCHANGED <<token, member>>
    BY <1>17, ServerErrorDoes DEF Grows, Born, redis, Quiet
  <2>2. \A k \in Handlers \ {h} : JobFamily(k)'
    BY <1>17, <2>1, ServerErrorDoes, SameFamily DEF Same, Others, Replies, Moves, Turns
  <2>3. JobFamily(h)'
    BY <1>17, <2>1, ServerErrorDoes, RepliedFamily DEF Done
  <2>4. QED
    BY <2>1, <2>2, <2>3, FamiliesKept
<1>18. ASSUME NEW h \in Handlers, SignInTimesOut(h)
      PROVE  Families'
  <2>1. Grows /\ UNCHANGED <<token, member>>
    BY <1>18, SignInTimesOutDoes DEF Grows, Born, redis
  <2>2. \A k \in Handlers : Same(k) \/ Fresh(k)
    BY <1>18, SignInTimesOutDoes, IdleJob DEF Same, Fresh, Done, phone, Forsakes, LeftAlone, Others
  <2>3. QED
    BY <2>1, <2>2, SameFamily, FreshFamily, FamiliesKept
<1>19. ASSUME NEW h \in Handlers, StartRefresh(h)
      PROVE  Families'
  <2>1. Grows /\ UNCHANGED <<token, member>>
    BY <1>19, StartRefreshDoes DEF Grows, Born, redis
  <2>2. \A k \in Handlers : Same(k) \/ Fresh(k)
    BY <1>19, StartRefreshDoes, IdleJob DEF Same, Fresh, Done, phone, Starts, Others
  <2>3. QED
    BY <2>1, <2>2, SameFamily, FreshFamily, FamiliesKept
<1>20. ASSUME SignInAnswered
      PROVE  Families'
  <2>1. Grows /\ UNCHANGED <<token, member>>
    BY <1>20, SignInAnsweredDoes DEF Grows, Born, redis
  <2>2. \A k \in Handlers : Same(k) \/ Fresh(k)
    BY <1>20, SignInAnsweredDoes, IdleJob DEF Same, Fresh, Done, phone, Heard, Others
  <2>3. QED
    BY <2>1, <2>2, SameFamily, FreshFamily, FamiliesKept
<1>21. ASSUME SaveSignIn
      PROVE  Families'
  <2>1. UNCHANGED <<token, member, handler>>
    BY <1>21, SaveSignInDoes DEF redis
  <2>2. QED
    BY <2>1, FamiliesStay
<1>22. ASSUME SaveFails
      PROVE  Families'
  <2>1. UNCHANGED <<token, member, handler>>
    BY <1>22, SaveFailsDoes DEF redis
  <2>2. QED
    BY <2>1, FamiliesStay
<1>23. ASSUME BackToPhone
      PROVE  Families'
  <2>1. UNCHANGED <<token, member, handler>>
    BY <1>23, BackToPhoneDoes DEF redis
  <2>2. QED
    BY <2>1, FamiliesStay
<1>24. ASSUME NEW c \in Calls, NEW kind \in {"api", "logout"}, StartCall(c, kind)
      PROVE  Families'
  <2>1. UNCHANGED <<token, member, handler>>
    BY <1>24, StartCallDoes DEF redis
  <2>2. QED
    BY <2>1, FamiliesStay
<1>25. ASSUME NEW c \in Calls, Answered(c)
      PROVE  Families'
  <2>1. UNCHANGED <<token, member, handler>>
    BY <1>25, AnsweredDoes DEF redis
  <2>2. QED
    BY <2>1, FamiliesStay
<1>26. ASSUME NEW c \in Calls, Unanswered(c)
      PROVE  Families'
  <2>1. UNCHANGED <<token, member, handler>>
    BY <1>26, UnansweredDoes DEF redis
  <2>2. QED
    BY <2>1, FamiliesStay
<1>27. ASSUME NEW c \in Calls, Restore(c)
      PROVE  Families'
  <2>1. UNCHANGED <<token, member, handler>>
    BY <1>27, RestoreDoes DEF redis
  <2>2. QED
    BY <2>1, FamiliesStay
<1>28. ASSUME NothingToRefresh
      PROVE  Families'
  <2>1. UNCHANGED <<token, member, handler>>
    BY <1>28, NothingToRefreshDoes DEF redis
  <2>2. QED
    BY <2>1, FamiliesStay
<1>29. ASSUME RefreshRefused
      PROVE  Families'
  <2>1. Grows /\ UNCHANGED <<token, member>>
    BY <1>29, RefreshRefusedDoes DEF Grows, Born, redis
  <2>2. \A k \in Handlers : Same(k) \/ Fresh(k)
    BY <1>29, RefreshRefusedDoes, IdleJob DEF Same, Fresh, Done, phone, Heard, Others
  <2>3. QED
    BY <2>1, <2>2, SameFamily, FreshFamily, FamiliesKept
<1>30. ASSUME RefreshGranted
      PROVE  Families'
  <2>1. Grows /\ UNCHANGED <<token, member>>
    BY <1>30, RefreshGrantedDoes DEF Grows, Born, redis
  <2>2. \A k \in Handlers : Same(k) \/ Fresh(k)
    BY <1>30, RefreshGrantedDoes, IdleJob DEF Same, Fresh, Done, phone, Heard, Others
  <2>3. QED
    BY <2>1, <2>2, SameFamily, FreshFamily, FamiliesKept
<1>31. ASSUME SaveRefreshed
      PROVE  Families'
  <2>1. UNCHANGED <<token, member, handler>>
    BY <1>31, SaveRefreshedDoes DEF redis
  <2>2. QED
    BY <2>1, FamiliesStay
<1>32. ASSUME NEW result \in {"network", "401"}, RefreshLost(result)
      PROVE  Families'
  <2>1. Grows /\ UNCHANGED <<token, member>>
    BY <1>32, RefreshLostDoes DEF Grows, Born, redis
  <2>2. \A k \in Handlers : Same(k) \/ Fresh(k)
    BY <1>32, RefreshLostDoes, IdleJob DEF Same, Fresh, Done, phone, Forsakes, LeftAlone, Others
  <2>3. QED
    BY <2>1, <2>2, SameFamily, FreshFamily, FamiliesKept
<1>33. ASSUME NEW t \in Tokens, ExpireAccess(t)
      PROVE  Families'
  <2>1. UNCHANGED <<token, member, handler>>
    BY <1>33, ExpireAccessDoes DEF redis
  <2>2. QED
    BY <2>1, FamiliesStay
<1>34. ASSUME Launch
      PROVE  Families'
  <2>1. Grows /\ UNCHANGED <<token, member>>
    BY <1>34, LaunchDoes DEF Grows, Born, redis
  <2>2. \A k \in Handlers : Same(k) \/ Fresh(k)
    BY <1>34, LaunchDoes, IdleJob DEF Same, Fresh, Done, phone, Forsakes, LeftAlone, Others
  <2>3. QED
    BY <2>1, <2>2, SameFamily, FreshFamily, FamiliesKept
<1>35. ASSUME OtpRunsOut
      PROVE  Families'
  <2>1. UNCHANGED <<token, member, handler>>
    BY <1>35, OtpRunsOutDoes DEF redis
  <2>2. QED
    BY <2>1, FamiliesStay
<1>36. ASSUME Block
      PROVE  Families'
  <2>1. UNCHANGED <<token, member, handler>>
    BY <1>36, BlockDoes DEF redis
  <2>2. QED
    BY <2>1, FamiliesStay
<1>37. QED
  BY <1>1, <1>2, <1>3, <1>4, <1>5, <1>6, <1>7, <1>8, <1>9, <1>10, <1>11, <1>12, <1>13, <1>14,
     <1>15, <1>16, <1>17, <1>18, <1>19, <1>20, <1>21, <1>22, <1>23, <1>24, <1>25, <1>26, <1>27,
     <1>28, <1>29, <1>30, <1>31, <1>32, <1>33, <1>34, <1>35, <1>36, NextCases

-----------------------------------------------------------------------------
(* Where the pairs are *)

\* A handler brings no pair it had not, and presents no token it did not.
Follows(h) ==
    /\ Granted(h)' => Granted(h) /\ handler'[h].t = handler[h].t
    /\ Presented(h)' => Presented(h) /\ handler'[h].t = handler[h].t
\* Nothing arrives at the app, and nothing new is in the keystore.
Settles ==
    /\ Arriving(login)' \subseteq Arriving(login) /\ Arriving(refresh)' \subseteq Arriving(refresh)
    /\ app'.refresh \in {app.refresh, None}

LEMMA DistinctKept ==
    ASSUME Base, Grows, \A h \in Handlers : Follows(h), Settles, \A h \in Handlers : Presenting(h)'
    PROVE  Distinct'
<1>1. Unread' \subseteq Unread /\ Arriving(login)' \cap Arriving(refresh)' = {}
  BY DEF Settles, Unread, Base, Distinct, OnePlace
<1>2. \A t \in Tokens : Born(t) => Born(t)'
  BY DEF Grows
<1>3. OnePlace'
  BY <1>1, <1>2 DEF Base, Distinct, OnePlace, Follows, Born
<1>4. Arrived'
  BY <1>1, <1>2 DEF Base, Distinct, Arrived, Elsewhere, Follows, Settles, Born
<1>5. QED
  BY <1>3, <1>4 DEF Distinct

LEMMA DistinctStep ==
    ASSUME Base, [Next]_vars
    PROVE  Distinct'
<1>1. CASE Gentle
  <2>1. Grows
    BY <1>1 DEF Grows, Gentle, Born
  <2>2. \A k \in Handlers : Follows(k)
    BY <1>1 DEF Gentle, Aside, Follows, Granted, Presented
  <2>3. Settles
    BY <1>1 DEF Gentle, Settles, Arriving
  <2>4. ASSUME NEW k \in Handlers PROVE Presenting(k)'
    BY <1>1 DEF Gentle, Aside, Presenting, Base, Distinct
  <2>5. QED
    BY <2>1, <2>2, <2>3, <2>4, DistinctKept
<1>2. ASSUME NEW h \in Handlers, ReadRefresh(h)
      PROVE  Distinct'
  <2>1. Grows
    BY <1>2, ReadRefreshDoes DEF Grows, Born, redis, Quiet
  <2>2. \A k \in Handlers : Follows(k)
    BY <1>2, ReadRefreshDoes, IdleJob DEF Follows, Granted, Presented, Others, Replies, Moves,
       Turns, Done, Working
  <2>3. Settles
    BY <1>2, ReadRefreshDoes, FreeWait DEF Settles, Arriving, phone, Quiet, None
  <2>4. ASSUME NEW k \in Handlers PROVE Presenting(k)'
    BY <1>2, ReadRefreshDoes, IdleJob, FreeWait, Bounds DEF phone, Quiet, Base, Distinct,
       Presenting, Attended, Serves, RefreshWaits, Done, Others, Replies, Moves, Turns, Done,
       Working, None
  <2>5. QED
    BY <2>1, <2>2, <2>3, <2>4, DistinctKept
<1>3. ASSUME NEW h \in Handlers, LookupUser(h)
      PROVE  Distinct'
  <2>1. Grows
    BY <1>3, LookupUserDoes DEF Grows, Born, redis, Quiet
  <2>2. \A k \in Handlers : Follows(k)
    BY <1>3, LookupUserDoes, IdleJob DEF Follows, Granted, Presented, Others, Replies, Moves,
       Turns, Done, Working
  <2>3. Settles
    BY <1>3, LookupUserDoes, FreeWait DEF Settles, Arriving, phone, Quiet, None
  <2>4. ASSUME NEW k \in Handlers PROVE Presenting(k)'
    BY <1>3, LookupUserDoes, IdleJob, FreeWait, Bounds DEF phone, Quiet, Base, Distinct,
       Presenting, Attended, Serves, RefreshWaits, Done, Others, Replies, Moves, Turns, Done,
       Working, None
  <2>5. QED
    BY <2>1, <2>2, <2>3, <2>4, DistinctKept
<1>4. ASSUME NEW h \in Handlers, Rotate(h)
      PROVE  Distinct'
  <2>1. Grows
    BY <1>4, RotateDoes DEF Grows, Born, Untouched
  <2>2. Moves(h, "issue") /\ handler[h].at = "rotate" /\ UNCHANGED phone
    BY <1>4, RotateDoes
  <2>3. \A k \in Handlers : Follows(k)
    BY <2>2 DEF Follows, Granted, Presented, Moves, Turns, Others
  <2>4. Settles
    BY <2>2 DEF Settles, Arriving, phone
  <2>5. ASSUME NEW k \in Handlers PROVE Presenting(k)'
    BY <2>2 DEF phone, Base, Distinct, Presenting, Moves, Turns, Others, Done
  <2>6. QED
    BY <2>1, <2>3, <2>4, <2>5, DistinctKept
<1>5. ASSUME NEW h \in Handlers, IssueTokens(h)
      PROVE  Distinct'
  <2>1. PICK t \in Tokens, f \in Tokens : Issues(h, t, f)
    BY <1>5, IssueTokensDoes
  <2>2. /\ Replies(h, "ok", t) /\ handler[h].at = "issue" /\ ~Born(t) /\ Born(t)' /\ UNCHANGED phone
    BY <1>5, <2>1, IssueTokensDoes DEF Issues, Born
  <2>3. Grows
    BY <2>1, <2>2 DEF Grows, Born, Issues, Untouched
  <2>4. \A k \in Handlers \ {h} : handler'[k] = handler[k]
    BY <2>2 DEF Replies, Others
  <2>5. ~Presented(h)' /\ (Granted(h)' => handler'[h].t = t)
    BY <2>2, IdleJob DEF Presented, Granted, Replies
  <2>6. /\ t \notin Unread /\ t # app.refresh
        /\ \A k \in Handlers : (Granted(k) \/ Presented(k)) => handler[k].t # t
    BY <2>2, Bounds DEF Base, Distinct, OnePlace, Arrived
  <2>7. UNCHANGED <<login, refresh, app>> /\ Unread' = Unread
    BY <2>2 DEF phone, Unread, Arriving
  <2>8. \A k \in Handlers :
          /\ Granted(k)' => \/ k = h /\ handler'[k].t = t
                            \/ k # h /\ Granted(k) /\ handler'[k].t = handler[k].t
          /\ Presented(k)' => Presented(k) /\ handler'[k].t = handler[k].t
    BY <2>4, <2>5 DEF Granted, Presented
  <2>9. OnePlace'
    <3>1. \A u \in Unread' : Born(u)'
      BY <2>3, <2>7 DEF Base, Distinct, OnePlace, Grows, Born
    <3>2. Arriving(login)' \cap Arriving(refresh)' = {}
      BY <2>7 DEF Base, Distinct, OnePlace, Arriving
    <3>3. ASSUME NEW k \in Handlers, Granted(k)'
          PROVE  /\ Born(handler[k].t)' /\ handler'[k].t \notin Unread
                 /\ \A j \in Handlers \ {k} : Granted(j)' => handler'[j].t # handler'[k].t
      BY <2>2, <2>3, <2>6, <2>8, <3>3 DEF Base, Distinct, OnePlace, Grows, Born
    <3>4. QED
      BY <2>7, <3>1, <3>2, <3>3 DEF OnePlace
  <2>10. Arrived'
    BY <2>3, <2>6, <2>7, <2>8 DEF Base, Distinct, Arrived, Elsewhere, Grows, Born
  <2>11. ASSUME NEW k \in Handlers PROVE Presenting(k)'
    BY <2>2, <2>4, <2>7, IdleJob DEF Base, Distinct, Presenting, Replies, Done
  <2>12. QED
    BY <2>9, <2>10, <2>11 DEF Distinct
<1>6. ASSUME NEW h \in Handlers, ReadMembers(h)
      PROVE  Distinct'
  <2>1. Grows
    BY <1>6, ReadMembersDoes DEF Grows, Born, redis, Quiet
  <2>2. \A k \in Handlers : Follows(k)
    BY <1>6, ReadMembersDoes, IdleJob DEF Follows, Granted, Presented, Others, Replies, Moves,
       Turns, Done, Working
  <2>3. Settles
    BY <1>6, ReadMembersDoes, FreeWait DEF Settles, Arriving, phone, Quiet, None
  <2>4. ASSUME NEW k \in Handlers PROVE Presenting(k)'
    BY <1>6, ReadMembersDoes, IdleJob, FreeWait, Bounds DEF phone, Quiet, Base, Distinct,
       Presenting, Attended, Serves, RefreshWaits, Done, Others, Replies, Moves, Turns, Done,
       Working, None
  <2>5. QED
    BY <2>1, <2>2, <2>3, <2>4, DistinctKept
<1>7. ASSUME NEW h \in Handlers, RevokeFamily(h)
      PROVE  Distinct'
  <2>1. Grows
    BY <1>7, RevokeFamilyDoes DEF Grows, Born, redis, Quiet, Revokes
  <2>2. \A k \in Handlers : Follows(k)
    BY <1>7, RevokeFamilyDoes, IdleJob DEF Follows, Granted, Presented, Others, Replies, Moves,
       Turns, Done, Working
  <2>3. Settles
    BY <1>7, RevokeFamilyDoes, FreeWait DEF Settles, Arriving, phone, Quiet, None
  <2>4. ASSUME NEW k \in Handlers PROVE Presenting(k)'
    BY <1>7, RevokeFamilyDoes, IdleJob, FreeWait, Bounds DEF phone, Quiet, Base, Distinct,
       Presenting, Attended, Serves, RefreshWaits, Done, Others, Replies, Moves, Turns, Done,
       Working, None
  <2>5. QED
    BY <2>1, <2>2, <2>3, <2>4, DistinctKept
<1>8. ASSUME NEW h \in Handlers, ServerError(h)
      PROVE  Distinct'
  <2>1. Grows
    BY <1>8, ServerErrorDoes DEF Grows, Born, redis, Quiet
  <2>2. \A k \in Handlers : Follows(k)
    BY <1>8, ServerErrorDoes, IdleJob DEF Follows, Granted, Presented, Others, Replies, Moves,
       Turns, Done, Working
  <2>3. Settles
    BY <1>8, ServerErrorDoes, FreeWait DEF Settles, Arriving, phone, Quiet, None
  <2>4. ASSUME NEW k \in Handlers PROVE Presenting(k)'
    BY <1>8, ServerErrorDoes, IdleJob, FreeWait, Bounds DEF phone, Quiet, Base, Distinct,
       Presenting, Attended, Serves, RefreshWaits, Done, Others, Replies, Moves, Turns, Done,
       Working, None
  <2>5. QED
    BY <2>1, <2>2, <2>3, <2>4, DistinctKept
<1>9. ASSUME NEW h \in Handlers, SignInTimesOut(h)
      PROVE  Distinct'
  <2>1. Grows
    BY <1>9, SignInTimesOutDoes DEF Grows, Born, redis, Quiet
  <2>2. \A k \in Handlers : Follows(k)
    BY <1>9, SignInTimesOutDoes, IdleJob DEF Follows, Granted, Presented, Forsakes, LeftAlone,
       Others, Done
  <2>3. Settles
    BY <1>9, SignInTimesOutDoes, FreeWait DEF Settles, Arriving, phone, Quiet, Fails, Ends,
       SignsOut, Enters
  <2>4. ASSUME NEW k \in Handlers PROVE Presenting(k)'
    BY <1>9, SignInTimesOutDoes, IdleJob, FreeWait, Bounds DEF phone, Quiet, Base, Distinct,
       Presenting, Attended, Serves, RefreshWaits, Done, Forsakes, LeftAlone, Others, Done, Fails,
       Ends, SignsOut, Enters
  <2>5. QED
    BY <2>1, <2>2, <2>3, <2>4, DistinctKept
<1>10. ASSUME NEW h \in Handlers, StartRefresh(h)
      PROVE  Distinct'
  <2>1. /\ Grows /\ Starts(h, "read", "refresh", app.refresh, app.device) /\ app.refresh \in Tokens
        /\ refresh.at = "reading" /\ UNCHANGED <<login, app>>
        /\ refresh' = [at |-> "sent", h |-> h, t |-> app.refresh]
    BY <1>10, StartRefreshDoes DEF Grows, Born, redis
  <2>2. \A k \in Handlers : Granted(k)' => Granted(k) /\ handler'[k].t = handler[k].t
    BY <2>1 DEF Granted, Starts, Others
  <2>3. \A k \in Handlers : Presented(k)' => handler'[k].t = app.refresh \/ (Presented(k) /\
     handler'[k].t = handler[k].t)
    BY <2>1 DEF Presented, Starts, Others
  <2>4. Arriving(login)' = Arriving(login) /\ Arriving(refresh)' = {}
    BY <2>1 DEF Arriving
  <2>5. OnePlace'
    BY <2>1, <2>2, <2>4 DEF Base, Distinct, OnePlace, Unread, Grows, Born
  <2>6. Arrived'
    BY <2>1, <2>2, <2>3, <2>4, Bounds DEF Base, Distinct, Arrived, Elsewhere, Unread, Grows, Born
  <2>7. ASSUME NEW k \in Handlers PROVE Presenting(k)'
    BY <2>1, Bounds DEF Base, Attended, Serves, RefreshWaits, Presenting, Starts, Others
  <2>8. QED
    BY <2>5, <2>6, <2>7 DEF Distinct
<1>11. ASSUME SignInAnswered
      PROVE  Distinct'
  <2> DEFINE g == login.h
  <2>1. Grows /\ g \in Handlers /\ Heard(g) /\ handler[g].client = "login" /\ handler[g].at \in Done
    BY <1>11, SignInAnsweredDoes DEF Grows, Born, redis
  <2>2. \A k \in Handlers : Follows(k) /\ (Granted(k)' => k # g)
    BY <2>1, IdleJob DEF Follows, Granted, Presented, Heard, Others
  <2>3. app'.refresh = app.refresh /\ app'.device = app.device
    BY <1>11, SignInAnsweredDoes
  <2>4. ASSUME NEW k \in Handlers PROVE Presenting(k)'
    BY <1>11, <2>1, <2>3, SignInAnsweredDoes, IdleJob, FreeWait, Bounds
       DEF Base, Distinct, Presenting, Attended, Serves, Heard, Others, Joins
  <2>5. CASE Granted(g) /\ login' = [at |-> "access", h |-> None, t |-> handler[g].t] /\ UNCHANGED
     refresh
    <3>1. Arriving(login)' = {handler[g].t} /\ Arriving(refresh)' = Arriving(refresh)
      BY <2>5 DEF Arriving
    <3>2. OnePlace'
      BY <2>1, <2>2, <2>5, <3>1 DEF Base, Distinct, OnePlace, Unread, Grows, Born, Follows
    <3>3. Arrived'
      BY <2>1, <2>2, <2>3, <2>5, <3>1 DEF Base, Distinct, Arrived, Elsewhere, Unread, Grows, Born,
         Follows
    <3>4. QED
      BY <2>4, <3>2, <3>3 DEF Distinct
  <2>6. CASE Arriving(login)' = {} /\ Arriving(refresh)' \subseteq Arriving(refresh)
    BY <2>1, <2>2, <2>3, <2>4, <2>6, DistinctKept DEF Settles
  <2>7. QED
    BY <1>11, <2>5, <2>6, SignInAnsweredDoes, FreeWait, Bounds DEF Granted, Arriving, Joins
<1>12. ASSUME SaveSignIn
      PROVE  Distinct'
  <2>1. Grows /\ UNCHANGED <<token, handler>> /\ app'.device = app.device
    BY <1>12, SaveSignInDoes DEF Grows, Born, redis
  <2>2. \A k \in Handlers : Follows(k)
    BY <2>1 DEF Follows, Granted, Presented
  <2>3. ASSUME NEW k \in Handlers PROVE Presenting(k)'
    BY <1>12, <2>1, SaveSignInDoes, FreeWait, Bounds DEF Base, Distinct, Presenting, Attended,
       Serves
  <2>4. CASE login.at = "access"
    <3>1. Settles
      BY <1>12, <2>4, SaveSignInDoes DEF Settles, Arriving
    <3>2. QED
      BY <2>1, <2>2, <2>3, <3>1, DistinctKept
  <2>5. CASE login.at = "refresh"
    <3>1. /\ app'.refresh = login.t /\ Arriving(login) = {login.t} /\ Arriving(login)' = {}
          /\ Arriving(refresh)' = Arriving(refresh)
      BY <1>12, <2>5, SaveSignInDoes, FreeWait DEF Arriving
    <3>2. OnePlace'
      BY <2>1, <2>2, <3>1 DEF Base, Distinct, OnePlace, Unread, Granted, Born
    <3>3. Arrived'
      BY <2>1, <2>2, <3>1 DEF Base, Distinct, OnePlace, Arrived, Elsewhere, Unread, Granted,
         Presented, Born
    <3>4. QED
      BY <2>3, <3>2, <3>3 DEF Distinct
  <2>6. QED
    BY <1>12, <2>4, <2>5, SaveSignInDoes
<1>13. ASSUME SaveFails
      PROVE  Distinct'
  <2>1. Grows
    BY <1>13, SaveFailsDoes DEF Grows, Born, redis, Quiet
  <2>2. \A k \in Handlers : Follows(k)
    BY <1>13, SaveFailsDoes, IdleJob DEF Follows, Granted, Presented, None
  <2>3. Settles
    BY <1>13, SaveFailsDoes, FreeWait DEF Settles, Arriving, phone, Quiet, Fails, Ends, SignsOut,
       Enters
  <2>4. ASSUME NEW k \in Handlers PROVE Presenting(k)'
    BY <1>13, SaveFailsDoes, IdleJob, FreeWait, Bounds DEF phone, Quiet, Base, Distinct,
       Presenting, Attended, Serves, RefreshWaits, Done, None, Fails, Ends, SignsOut, Enters
  <2>5. QED
    BY <2>1, <2>2, <2>3, <2>4, DistinctKept
<1>14. ASSUME NEW c \in Calls, Answered(c)
      PROVE  Distinct'
  <2>1. Grows
    BY <1>14, AnsweredDoes DEF Grows, Born, redis, Quiet
  <2>2. \A k \in Handlers : Follows(k)
    BY <1>14, AnsweredDoes, IdleJob DEF Follows, Granted, Presented, None
  <2>3. Settles
    BY <1>14, AnsweredDoes, FreeWait DEF Settles, Arriving, phone, Quiet, Over, Ends, SignsOut,
       Enters, Joins, Sends
  <2>4. ASSUME NEW k \in Handlers PROVE Presenting(k)'
    BY <1>14, AnsweredDoes, IdleJob, FreeWait, Bounds DEF phone, Quiet, Base, Distinct,
       Presenting, Attended, Serves, RefreshWaits, Done, None, Over, Ends, SignsOut, Enters,
       Joins, Sends
  <2>5. QED
    BY <2>1, <2>2, <2>3, <2>4, DistinctKept
<1>15. ASSUME NEW c \in Calls, Unanswered(c)
      PROVE  Distinct'
  <2>1. Grows
    BY <1>15, UnansweredDoes DEF Grows, Born, redis, Quiet
  <2>2. \A k \in Handlers : Follows(k)
    BY <1>15, UnansweredDoes, IdleJob DEF Follows, Granted, Presented, None
  <2>3. Settles
    BY <1>15, UnansweredDoes, FreeWait DEF Settles, Arriving, phone, Quiet, Over, Ends, SignsOut,
       Enters, Joins, Sends
  <2>4. ASSUME NEW k \in Handlers PROVE Presenting(k)'
    BY <1>15, UnansweredDoes, IdleJob, FreeWait, Bounds DEF phone, Quiet, Base, Distinct,
       Presenting, Attended, Serves, RefreshWaits, Done, None, Over, Ends, SignsOut, Enters,
       Joins, Sends
  <2>5. QED
    BY <2>1, <2>2, <2>3, <2>4, DistinctKept
<1>16. ASSUME NothingToRefresh
      PROVE  Distinct'
  <2>1. Grows
    BY <1>16, NothingToRefreshDoes DEF Grows, Born, redis, Quiet
  <2>2. \A k \in Handlers : Follows(k)
    BY <1>16, NothingToRefreshDoes, IdleJob DEF Follows, Granted, Presented, None
  <2>3. Settles
    BY <1>16, NothingToRefreshDoes, FreeWait DEF Settles, Arriving, phone, Quiet, Fails, Ends,
       SignsOut, Enters
  <2>4. ASSUME NEW k \in Handlers PROVE Presenting(k)'
    BY <1>16, NothingToRefreshDoes, IdleJob, FreeWait, Bounds DEF phone, Quiet, Base, Distinct,
       Presenting, Attended, Serves, RefreshWaits, Done, None, Fails, Ends, SignsOut, Enters
  <2>5. QED
    BY <2>1, <2>2, <2>3, <2>4, DistinctKept
<1>17. ASSUME RefreshRefused
      PROVE  Distinct'
  <2>1. Grows
    BY <1>17, RefreshRefusedDoes DEF Grows, Born, redis, Quiet
  <2>2. \A k \in Handlers : Follows(k)
    BY <1>17, RefreshRefusedDoes, IdleJob DEF Follows, Granted, Presented, Heard, Others, Done
  <2>3. Settles
    BY <1>17, RefreshRefusedDoes, FreeWait DEF Settles, Arriving, phone, Quiet, Fails, Ends,
       SignsOut, Enters
  <2>4. ASSUME NEW k \in Handlers PROVE Presenting(k)'
    BY <1>17, RefreshRefusedDoes, IdleJob, FreeWait, Bounds DEF phone, Quiet, Base, Distinct,
       Presenting, Attended, Serves, RefreshWaits, Done, Heard, Others, Done, Fails, Ends,
       SignsOut, Enters
  <2>5. QED
    BY <2>1, <2>2, <2>3, <2>4, DistinctKept
<1>18. ASSUME RefreshGranted
      PROVE  Distinct'
  <2> DEFINE g == refresh.h
  <2>1. /\ Grows /\ g \in Handlers /\ Heard(g) /\ handler[g].client = "refresh" /\ Granted(g)
        /\ refresh' = [at |-> "access", h |-> None, t |-> handler[g].t] /\ UNCHANGED <<app, login>>
    BY <1>18, RefreshGrantedDoes, Bounds DEF Grows, Born, redis, Granted
  <2>2. \A k \in Handlers : Follows(k) /\ (Granted(k)' => k # g)
    BY <2>1, IdleJob DEF Follows, Granted, Presented, Heard, Others
  <2>3. Arriving(refresh)' = {handler[g].t} /\ Arriving(login)' = Arriving(login)
    BY <2>1 DEF Arriving
  <2>4. ASSUME NEW k \in Handlers PROVE Presenting(k)'
    BY <2>1, IdleJob, Bounds DEF Base, Distinct, Presenting, Attended, Serves, Heard, Others,
       Granted, Done
  <2>5. OnePlace'
    BY <2>1, <2>2, <2>3 DEF Base, Distinct, OnePlace, Unread, Grows, Born, Follows
  <2>6. Arrived'
    BY <2>1, <2>2, <2>3 DEF Base, Distinct, Arrived, Elsewhere, Unread, Grows, Born, Follows
  <2>7. QED
    BY <2>4, <2>5, <2>6 DEF Distinct
<1>19. ASSUME SaveRefreshed
      PROVE  Distinct'
  <2>1. Grows /\ UNCHANGED <<token, handler>> /\ app'.device = app.device
    BY <1>19, SaveRefreshedDoes DEF Grows, Born, redis
  <2>2. \A k \in Handlers : Follows(k)
    BY <2>1 DEF Follows, Granted, Presented
  <2>3. ASSUME NEW k \in Handlers PROVE Presenting(k)'
    BY <1>19, <2>1, SaveRefreshedDoes, FreeWait, Bounds DEF Base, Distinct, Presenting, Attended,
       Serves
  <2>4. CASE refresh.at = "access"
    <3>1. Settles
      BY <1>19, <2>4, SaveRefreshedDoes DEF Settles, Arriving
    <3>2. QED
      BY <2>1, <2>2, <2>3, <3>1, DistinctKept
  <2>5. CASE refresh.at = "refresh"
    <3>1. /\ app'.refresh = refresh.t /\ Arriving(refresh) = {refresh.t} /\ Arriving(refresh)' = {}
          /\ Arriving(login)' = Arriving(login)
      BY <1>19, <2>5, SaveRefreshedDoes, FreeWait DEF Arriving
    <3>2. OnePlace'
      BY <2>1, <2>2, <3>1 DEF Base, Distinct, OnePlace, Unread, Granted, Born
    <3>3. Arrived'
      BY <2>1, <2>2, <3>1 DEF Base, Distinct, OnePlace, Arrived, Elsewhere, Unread, Granted,
         Presented, Born
    <3>4. QED
      BY <2>3, <3>2, <3>3 DEF Distinct
  <2>6. QED
    BY <1>19, <2>4, <2>5, SaveRefreshedDoes
<1>20. ASSUME NEW result \in {"network", "401"}, RefreshLost(result)
      PROVE  Distinct'
  <2>1. Grows
    BY <1>20, RefreshLostDoes DEF Grows, Born, redis, Quiet
  <2>2. \A k \in Handlers : Follows(k)
    BY <1>20, RefreshLostDoes, IdleJob DEF Follows, Granted, Presented, Forsakes, LeftAlone,
       Others, Done
  <2>3. Settles
    BY <1>20, RefreshLostDoes, FreeWait DEF Settles, Arriving, phone, Quiet, Fails, Ends,
       SignsOut, Enters
  <2>4. ASSUME NEW k \in Handlers PROVE Presenting(k)'
    BY <1>20, RefreshLostDoes, IdleJob, FreeWait, Bounds DEF phone, Quiet, Base, Distinct,
       Presenting, Attended, Serves, RefreshWaits, Done, Forsakes, LeftAlone, Others, Done, Fails,
       Ends, SignsOut, Enters
  <2>5. QED
    BY <2>1, <2>2, <2>3, <2>4, DistinctKept
<1>21. ASSUME Launch
      PROVE  Distinct'
  <2>1. Grows
    BY <1>21, LaunchDoes DEF Grows, Born, redis, Quiet
  <2>2. \A k \in Handlers : Follows(k)
    BY <1>21, LaunchDoes, IdleJob DEF Follows, Granted, Presented, Forsakes, LeftAlone, Others, Done
  <2>3. Settles
    BY <1>21, LaunchDoes, FreeWait DEF Settles, Arriving, phone, Quiet, Fails, Ends, SignsOut,
       Enters
  <2>4. ASSUME NEW k \in Handlers PROVE Presenting(k)'
    BY <1>21, LaunchDoes, IdleJob, FreeWait, Bounds DEF phone, Quiet, Base, Distinct, Presenting,
       Attended, Serves, RefreshWaits, Done, Forsakes, LeftAlone, Others, Done, Fails, Ends,
       SignsOut, Enters
  <2>5. QED
    BY <2>1, <2>2, <2>3, <2>4, DistinctKept
<1>22. QED
  BY <1>1, <1>2, <1>3, <1>4, <1>5, <1>6, <1>7, <1>8, <1>9, <1>10, <1>11, <1>12, <1>13, <1>14,
     <1>15, <1>16, <1>17, <1>18, <1>19, <1>20, <1>21, NextPairs

-----------------------------------------------------------------------------
(* Guesses *)

\* A handler has no code it had not, and none where a refresh is served.
Remembers(h) ==
    /\ handler'[h].code # None => handler'[h].code = handler[h].code
    /\ handler'[h].at \in {"read", "lookup", "rotate"} => handler'[h].code = None
\* It goes on without comparing anything, and without being left.
Calm(h) ==
    /\ h \in Nobody' => h \in Nobody
    /\ handler'[h].at = "count" <=> handler[h].at = "count"
    /\ handler'[h].at = "burn" <=> handler[h].at = "burn"
    /\ handler[h].at \in {"count", "burn"} => handler'[h].code = handler[h].code
    /\ handler'[h].at \in {"user", "issue"} /\ handler'[h].code # None => handler[h].at \in {"user", "issue"}
    /\ Remembers(h)

\* What is written down of codes and guesses, but for what a sign-in redeems.
Redeems == \A c \in redeemed' : c \in redeemed \/ \E h \in Handlers :
              handler[h].at = "issue" /\ handler[h].code = c /\ c # None

LEMMA Comparisons ==
    ASSUME Typed, NEW c \in Codes
    PROVE  /\ Cardinality(Comparing(c)) \in Nat /\ Cardinality(Nobody) \in Nat
           /\ compared[c] \in Nat /\ otp.attempts \in Nat /\ abandoned \in Nat /\ sent \in Nat
BY Finite, FS_CardinalityType DEF Typed, OtpRow

LEMMA Balance ==
    ASSUME NEW a \in Nat, NEW n \in Nat, NEW n2 \in Nat, NEW m \in Nat, NEW m2 \in Nat, NEW t \in Nat,
           NEW b \in Nat, NEW d \in Nat, a + n <= t + m + b, n2 + m <= n + m2 + d
    PROVE  a + n2 <= t + m2 + (b + d)
OBVIOUS

LEMMA CalmKeeps ==
    ASSUME Base, Guessing, abandoned' \in Nat, abandoned <= abandoned',
           UNCHANGED <<otp, sent, compared>>, Redeems, \A h \in Handlers : Calm(h)
    PROVE  Guessing'
<1>1. Nobody' \subseteq Nobody /\ Counting' = Counting /\ \A c : Comparing(c)' = Comparing(c)
  BY DEF Calm, Nobody, Counting, Comparing
<1>2. /\ Cardinality(Nobody') <= Cardinality(Nobody) /\ Cardinality(Nobody') \in Nat
      /\ Cardinality(Nobody) \in Nat
  BY <1>1, Part, Finite
<1>3. Abandonments'
  BY <1>2 DEF Abandonments, Guessing, Base, Typed
<1>4. AttemptsBounded'
  BY <1>1 DEF AttemptsBounded, Guessing
<1>5. Counted'
  <2>1. SUFFICES ASSUME otp.code # None
                 PROVE  compared[otp.code] + Cardinality(Nobody')
                            <= otp.attempts + Cardinality(Comparing(otp.code)) + abandoned'
    BY <1>1 DEF Counted
  <2>2. otp.code \in Codes
    BY <2>1 DEF Base, Typed, OtpRow
  <2>3. compared[otp.code] + Cardinality(Nobody)
            <= otp.attempts + Cardinality(Comparing(otp.code)) + abandoned
    BY <2>1 DEF Guessing, Counted
  <2>4. QED
    BY <1>2, <2>2, <2>3, Comparisons DEF Base
<1>6. CodesSent'
  <2>1. sent \in Nat
    BY DEF Base, Typed
  <2>2. QED
    BY <2>1 DEF CodesSent, Guessing, Calm, Remembers, Redeems, None
<1>7. Spent'
  BY DEF Spent, Guessing, Calm, Remembers, Redeems
<1>8. GuessesCapped'
  BY Bounds DEF GuessesCapped, Guessing, Base, Typed
<1>9. QED
  BY <1>3, <1>4, <1>5, <1>6, <1>7, <1>8 DEF Guessing

\* Requests are left behind, or fail: d of them.
LEMMA AbandonedKeeps ==
    ASSUME Base, Guessing, NEW d \in Nat, abandoned' = abandoned + d,
           UNCHANGED <<otp, sent, compared, redeemed>>,
           Cardinality(Nobody') \in Nat, Cardinality(Nobody') <= Cardinality(Nobody) + d,
           Counting' \subseteq Counting,
           \A c \in Codes : /\ Cardinality(Comparing(c)') \in Nat
                            /\ Cardinality(Nobody') + Cardinality(Comparing(c))
                                  <= Cardinality(Nobody) + Cardinality(Comparing(c)') + d,
           \A h \in Handlers : /\ Remembers(h)
                               /\ handler'[h].at \in {"user", "issue"} /\ handler'[h].code # None =>
                                     handler[h].at \in {"user", "issue"}
    PROVE  Guessing'
<1>1. abandoned \in Nat /\ Cardinality(Nobody) \in Nat
  BY Finite, FS_CardinalityType DEF Base, Typed
<1>2. Abandonments'
  BY <1>1 DEF Abandonments, Guessing
<1>3. AttemptsBounded'
  <2>1. /\ Cardinality(Counting') <= Cardinality(Counting)
        /\ Cardinality(Counting') \in Nat /\ Cardinality(Counting) \in Nat
    BY Part, Finite
  <2>2. otp.attempts \in Nat /\ Cardinality(Handlers) \in Nat
    BY Bounds, FS_CardinalityType DEF Base, Typed, OtpRow
  <2>3. QED
    BY <2>1, <2>2, Bounds DEF AttemptsBounded, Guessing
<1>4. Counted'
  <2>1. ASSUME NEW c \in Codes, c = otp.code
        PROVE  compared[c] + Cardinality(Nobody') <= otp.attempts + Cardinality(Comparing(c)') + abandoned'
    <3>1. /\ Cardinality(Comparing(c)) \in Nat /\ compared[c] \in Nat /\ otp.attempts \in Nat
      BY Comparisons DEF Base
    <3>2. /\ Cardinality(Comparing(c)') \in Nat
          /\ Cardinality(Nobody') + Cardinality(Comparing(c)) <= Cardinality(Nobody) + Cardinality(Comparing(c)') + d
      OBVIOUS
    <3>3. compared[c] + Cardinality(Nobody) <= otp.attempts + Cardinality(Comparing(c)) + abandoned
      BY <2>1, Bounds DEF Guessing, Counted
    <3>4. QED
      BY <1>1, <3>1, <3>2, <3>3, Balance
  <2>2. QED
    BY <2>1 DEF Counted, Comparing, Base, Typed, OtpRow
<1>5. CodesSent'
  <2>1. sent \in Nat
    BY DEF Base, Typed
  <2>2. QED
    BY <2>1 DEF CodesSent, Guessing, Remembers, None
<1>6. Spent'
  BY DEF Spent, Guessing, Remembers
<1>7. GuessesCapped'
  BY <1>1, Bounds DEF GuessesCapped, Guessing, Base, Typed
<1>8. QED
  BY <1>2, <1>3, <1>4, <1>5, <1>6, <1>7 DEF Guessing

\* The record of the code is gone.
LEMMA GoneKeeps ==
    ASSUME Base, Guessing, UNCHANGED <<sent, compared, redeemed, abandoned>>,
           otp'.code = None, otp'.attempts = 0, Nobody' \subseteq Nobody, \A h \in Handlers : Remembers(h)
    PROVE  Guessing'
<1>1. Abandonments'
  <2>1. /\ Cardinality(Nobody') <= Cardinality(Nobody) /\ Cardinality(Nobody') \in Nat
        /\ Cardinality(Nobody) \in Nat
    BY Part, Finite
  <2>2. QED
    BY <2>1 DEF Abandonments, Guessing, Base, Typed
<1>2. AttemptsBounded'
  <2>1. Cardinality(Counting') <= Cardinality(Handlers) /\ Cardinality(Counting') \in Nat
        /\ Cardinality(Handlers) \in Nat
    BY Part, Bounds DEF Counting
  <2>2. QED
    BY <2>1, Bounds DEF AttemptsBounded
<1>3. Counted'
  BY DEF Counted
<1>4. CodesSent'
  <2>1. sent \in Nat
    BY DEF Base, Typed
  <2>2. QED
    BY <2>1 DEF CodesSent, Guessing, Remembers, None
<1>5. Spent'
  BY Bounds DEF Spent, Guessing, Remembers, Base, Typed
<1>6. GuessesCapped'
  BY DEF GuessesCapped, Guessing
<1>7. QED
  BY <1>1, <1>2, <1>3, <1>4, <1>5, <1>6 DEF Guessing

LEMMA CalmStays ==
    ASSUME Base, Guessing, UNCHANGED <<otp, sent, compared, redeemed, abandoned>>,
           \A h \in Handlers : Calm(h)
    PROVE  Guessing'
BY CalmKeeps DEF Base, Typed, Redeems

LEMMA LessOne ==
    ASSUME NEW S, IsFiniteSet(S), NEW x
    PROVE  /\ Cardinality(S \ {x}) \in Nat /\ Cardinality(S) \in Nat
           /\ Cardinality(S) <= Cardinality(S \ {x}) + 1
<1>1. CASE x \in S
  <2>1. Cardinality(S \ {x}) = Cardinality(S) - 1 /\ IsFiniteSet(S \ {x})
    BY <1>1, FS_RemoveElement
  <2>2. Cardinality(S \ {x}) \in Nat /\ Cardinality(S) \in Nat
    BY <2>1, FS_CardinalityType
  <2>3. QED
    BY <2>1, <2>2
<1>2. CASE x \notin S
  <2>1. S \ {x} = S
    BY <1>2
  <2>2. Cardinality(S) \in Nat
    BY FS_CardinalityType
  <2>3. QED
    BY <2>1, <2>2
<1>3. QED
  BY <1>1, <1>2

\* Beside a request about to compare, those comparing are fewer than those left behind.
LEMMA ComparingFew ==
    ASSUME Base, NEW h \in Handlers, handler[h].at = "verify", NEW c \in Codes
    PROVE  Cardinality(Comparing(c)) <= Cardinality(Nobody)
<1>1. \A k \in Comparing(c) : k \in Nobody \/ (k = login.h /\ k # h)
  BY DEF Comparing, Nobody, Base, Typed, Job, Attended, Serves, Coding
<1>2. handler[h].client = "login" => login.h = h
  BY DEF Base, Attended, Serves
<1>3. handler[h].client # "login" => h \in Nobody
  BY DEF Nobody, Base, Typed, Job, Attended, Serves, Coding
<1>4. CASE handler[h].client = "login"
  BY <1>1, <1>2, <1>4, Part, Finite
<1>5. CASE handler[h].client # "login"
  <2>1. h \in Nobody /\ Comparing(c) \subseteq (Nobody \ {h}) \cup {login.h}
    BY <1>1, <1>3, <1>5 DEF Comparing
  <2>2. /\ IsFiniteSet(Nobody \ {h}) /\ Cardinality(Nobody) \in Nat
        /\ Cardinality(Nobody \ {h}) = Cardinality(Nobody) - 1
    BY <2>1, FS_RemoveElement, FS_CardinalityType, Finite
  <2>3. Cardinality(Comparing(c)) <= Cardinality(Nobody \ {h}) + 1 /\ Cardinality(Comparing(c)) \in Nat
    BY <2>1, <2>2, Grown
  <2>4. QED
    BY <2>2, <2>3
<1>6. QED
  BY <1>4, <1>5

LEMMA SendCodeGuesses ==
    ASSUME Base, Guessing, NEW h \in Handlers, SendCode(h), sent' \in Codes
    PROVE  Guessing'
<1>1. /\ Replies(h, "ok", None) /\ handler[h].at = "send"
      /\ otp'.code = sent + 1 /\ otp'.attempts = 0 /\ sent' = sent + 1
      /\ UNCHANGED <<compared, redeemed, abandoned>>
  BY SendCodeDoes
<1>2. Nobody' \subseteq Nobody
  BY <1>1, IdleJob DEF Nobody, Replies, Others
<1>3. /\ Cardinality(Nobody') <= Cardinality(Nobody) /\ Cardinality(Nobody') \in Nat
      /\ Cardinality(Nobody) \in Nat /\ abandoned \in Nat /\ sent \in Nat
  BY <1>2, Part, Finite DEF Base, Typed
<1>4. Abandonments'
  BY <1>1, <1>3 DEF Abandonments, Guessing
<1>5. AttemptsBounded'
  <2>1. Cardinality(Counting') <= Cardinality(Handlers) /\ Cardinality(Counting') \in Nat
        /\ Cardinality(Handlers) \in Nat
    BY Part, Bounds DEF Counting
  <2>2. QED
    BY <1>1, <2>1, Bounds DEF AttemptsBounded
<1>6. ASSUME NEW c \in Codes, c = otp'.code
      PROVE  compared[c] + Cardinality(Nobody') <= Cardinality(Comparing(c)') + abandoned
  <2>1. compared[c] = 0
    BY <1>1, <1>3, <1>6 DEF Guessing, CodesSent
  <2>2. Cardinality(Nobody') <= abandoned
    BY <1>3 DEF Guessing, Abandonments
  <2>3. Cardinality(Comparing(c)') \in Nat
    <3>1. Comparing(c)' \subseteq Handlers
      BY DEF Comparing
    <3>2. QED
      BY <3>1, Part, Bounds
  <2>4. QED
    BY <1>3, <2>1, <2>2, <2>3
<1>7. Counted'
  <2>1. otp'.code \in Codes /\ otp'.attempts = 0 /\ UNCHANGED <<compared, abandoned>>
    BY <1>1
  <2>2. ASSUME NEW c \in Codes, c = otp'.code
        PROVE  compared'[c] + Cardinality(Nobody') <= otp'.attempts + Cardinality(Comparing(c)') + abandoned'
    <3>1. Cardinality(Comparing(c)') \in Nat
      <4>1. Comparing(c)' \subseteq Handlers
        BY DEF Comparing
      <4>2. QED
        BY <4>1, Part, Bounds
    <3>2. QED
      BY <1>3, <1>6, <2>1, <2>2, <3>1
  <2>3. QED
    BY <2>1, <2>2 DEF Counted, Comparing
<1>8. CodesSent'
  <2>1. \A k \in Handlers : handler'[k].code = None \/ handler'[k].code = handler[k].code
    BY <1>1, IdleJob DEF Replies, Others
  <2>2. \A k \in Handlers : handler[k].code \in Nat
    <3>1. ASSUME NEW k \in Handlers
          PROVE  handler[k].code \in Nat
      <4>1. handler[k].code \in Codes \cup {None}
        BY DEF Base, Typed, Job
      <4>2. QED
        BY <4>1, CodesAreNumbers
    <3>2. QED
      BY <3>1
  <2>3. \A c \in redeemed : c \in Nat
    BY Bounds DEF Base, Typed
  <2>4. \A k \in Handlers : handler'[k].code <= sent + 1
    BY <1>3, <2>1, <2>2 DEF Guessing, CodesSent, None
  <2>5. \A c \in redeemed : c <= sent + 1
    BY <1>3, <2>3 DEF Guessing, CodesSent
  <2>6. \A c \in Codes : c > sent + 1 => compared[c] = 0
    <3>1. ASSUME NEW c \in Codes, c > sent + 1
          PROVE  compared[c] = 0
      <4>1. c \in Nat
        BY Bounds
      <4>2. c > sent
        BY <1>3, <3>1, <4>1
      <4>3. QED
        BY <4>2 DEF Guessing, CodesSent
    <3>2. QED
      BY <3>1
  <2>7. QED
    BY <1>1, <1>3, <2>4, <2>5, <2>6 DEF CodesSent
<1>9. Spent'
  <2>1. /\ \A k \in Handlers : handler[k].code # sent + 1
        /\ sent + 1 \notin redeemed
    <3>1. \A c \in Codes \cup {None} : c \in Nat
      BY CodesAreNumbers
    <3>2. QED
      BY <1>3, <3>1 DEF Guessing, CodesSent, Base, Typed, Job
  <2>2. \A k \in Handlers : /\ handler'[k].code # None => handler'[k].code = handler[k].code
                            /\ handler'[k].at \in {"read", "lookup", "rotate"} => handler'[k].code = None
    BY <1>1, IdleJob DEF Replies, Others, Guessing, Spent
  <2>3. QED
    BY <1>1, <2>1, <2>2 DEF Spent
<1>10. GuessesCapped'
  BY <1>1 DEF GuessesCapped, Guessing
<1>11. QED
  BY <1>4, <1>5, <1>7, <1>8, <1>9, <1>10 DEF Guessing

LEMMA ReadOtpGuesses ==
    ASSUME Base, Guessing, NEW h \in Handlers, ReadOtp(h)
    PROVE  Guessing'
<1>1. /\ handler[h].at = "verify" /\ UNCHANGED <<otp, sent, redeemed, abandoned>>
  BY ReadOtpDoes DEF redis
<1>2. CASE UNCHANGED compared /\ (Replies(h, "refused", None) \/ Moves(h, "lock"))
  <2>1. \A k \in Handlers : Calm(k)
    BY <1>1, <1>2, IdleJob DEF Calm, Remembers, Nobody, Guessing, Spent, Replies, Moves, Turns, Others
  <2>2. QED
    BY <1>1, <1>2, <2>1, CalmKeeps DEF Base, Typed, Redeems
<1>3. ASSUME NEW step \in {"burn", "count"}, NEW c \in Codes, c = otp.code, ~(otp.attempts >= MaxAttempts),
             compared' = [compared EXCEPT ![c] = @ + 1],
             Turns(h, step, c, handler[h].family, handler[h].doomed)
      PROVE  Guessing'
  <2>1. /\ compared'[c] = compared[c] + 1 /\ compared[c] \in Nat /\ compared' \in [Codes -> Nat]
        /\ \A d \in Codes \ {c} : compared'[d] = compared[d]
    BY <1>3 DEF Base, Typed
  <2>2. Nobody' = Nobody /\ Comparing(c)' = Comparing(c) \cup {h} /\ h \notin Comparing(c)
    BY <1>1, <1>3 DEF Nobody, Comparing, Turns, Others
  <2>3. /\ Cardinality(Comparing(c)') = Cardinality(Comparing(c)) + 1
        /\ Cardinality(Comparing(c)) <= Cardinality(Nobody)
        /\ Cardinality(Comparing(c)) \in Nat /\ Cardinality(Nobody) \in Nat
        /\ abandoned \in Nat /\ otp.attempts \in Nat /\ sent \in Nat
    BY <1>1, <2>2, FS_AddElement, Finite, Comparisons, ComparingFew DEF Base
  <2>4. compared[c] + Cardinality(Nobody) <= otp.attempts + Cardinality(Comparing(c)) + abandoned
    BY <1>3, Bounds DEF Guessing, Counted
  <2>5. Abandonments'
    BY <1>1, <2>2 DEF Abandonments, Guessing
  <2>6. AttemptsBounded'
    <3>1. Cardinality(Counting') <= Cardinality(Handlers) /\ Cardinality(Counting') \in Nat
          /\ Cardinality(Handlers) \in Nat
      BY Part, Bounds DEF Counting
    <3>2. QED
      BY <1>1, <1>3, <2>3, <3>1, Bounds DEF AttemptsBounded
  <2>7. Counted'
    <3>1. compared'[c] + Cardinality(Nobody') <= otp.attempts + Cardinality(Comparing(c)') + abandoned
      BY <2>1, <2>2, <2>3, <2>4
    <3>2. QED
      BY <1>1, <1>3, <3>1 DEF Counted, Comparing
  <2>8. CodesSent'
    <3>1. c <= sent /\ c \in Nat
      BY <1>3, Bounds DEF CodesSent, Guessing
    <3>2. \A k \in Handlers : handler'[k].code <= sent
      BY <1>3, <3>1 DEF CodesSent, Guessing, Turns, Others
    <3>3. \A d \in Codes : d > sent => compared'[d] = 0
      BY <2>1, <2>3, <3>1, Bounds DEF CodesSent, Guessing
    <3>4. QED
      BY <1>1, <3>2, <3>3 DEF CodesSent, Guessing
  <2>9. Spent'
    BY <1>1, <1>3 DEF Spent, Guessing, Turns, Others
  <2>10. compared'[c] <= MaxAttempts + abandoned
    BY <1>3, <2>1, <2>3, <2>4, Bounds
  <2>11. GuessesCapped'
    BY <1>1, <2>1, <2>10 DEF GuessesCapped, Guessing
  <2>12. QED
    BY <2>5, <2>6, <2>7, <2>8, <2>9, <2>11 DEF Guessing
<1>4. otp.code # None => otp.code \in Codes
  BY DEF Base, Typed, OtpRow
<1>5. QED
  BY <1>2, <1>3, <1>4, ReadOtpDoes

LEMMA CountAttemptGuesses ==
    ASSUME Base, Guessing, NEW h \in Handlers, CountAttempt(h)
    PROVE  Guessing'
<1>1. /\ handler[h].at = "count" /\ Replies(h, "refused", None)
      /\ otp'.code = otp.code /\ otp'.attempts = otp.attempts + 1
      /\ UNCHANGED <<sent, compared, redeemed, abandoned>>
  BY CountAttemptDoes DEF tally
<1>2. /\ Nobody' \subseteq Nobody /\ h \in Counting /\ Counting' = Counting \ {h}
      /\ \A c \in Codes : Comparing(c)' = Comparing(c) \ {h}
  BY <1>1, IdleJob DEF Nobody, Counting, Comparing, Replies, Others
<1>3. /\ Cardinality(Nobody') <= Cardinality(Nobody) /\ Cardinality(Nobody') \in Nat
      /\ Cardinality(Nobody) \in Nat /\ abandoned \in Nat /\ sent \in Nat /\ otp.attempts \in Nat
  BY <1>2, Part, Finite DEF Base, Typed, OtpRow
<1>4. Abandonments'
  BY <1>1, <1>3 DEF Abandonments, Guessing
<1>5. AttemptsBounded'
  <2>1. Cardinality(Counting') = Cardinality(Counting) - 1 /\ Cardinality(Counting) \in Nat
    BY <1>2, FS_RemoveElement, FS_CardinalityType, Finite
  <2>2. Cardinality(Handlers) \in Nat
    BY Bounds, FS_CardinalityType
  <2>3. QED
    BY <1>1, <1>3, <2>1, <2>2, Bounds DEF AttemptsBounded, Guessing
<1>6. ASSUME NEW c \in Codes, c = otp.code
      PROVE  compared[c] + Cardinality(Nobody') <= otp.attempts + 1 + Cardinality(Comparing(c)') + abandoned
  <2>1. /\ Cardinality(Comparing(c)') \in Nat /\ Cardinality(Comparing(c)) \in Nat
        /\ Cardinality(Comparing(c)) <= Cardinality(Comparing(c)') + 1
    BY <1>2, LessOne, Finite
  <2>2. compared[c] \in Nat
    BY DEF Base, Typed
  <2>3. compared[c] + Cardinality(Nobody) <= otp.attempts + Cardinality(Comparing(c)) + abandoned
    BY <1>6, Bounds DEF Guessing, Counted
  <2>4. QED
    BY <1>3, <2>1, <2>2, <2>3
<1>7. Counted'
  BY <1>1, <1>6 DEF Counted, Comparing, Base, Typed, OtpRow
<1>8. CodesSent'
  BY <1>1, <1>3, IdleJob DEF CodesSent, Guessing, Replies, Others, None
<1>9. Spent'
  BY <1>1, IdleJob DEF Spent, Guessing, Replies, Others
<1>10. GuessesCapped'
  BY <1>1 DEF GuessesCapped, Guessing
<1>11. QED
  BY <1>4, <1>5, <1>7, <1>8, <1>9, <1>10 DEF Guessing

LEMMA LaunchGuesses ==
    ASSUME Base, Guessing, Launch
    PROVE  Guessing'
<1> DEFINE d == (IF login = Free THEN 0 ELSE 1) + (IF refresh = Free THEN 0 ELSE 1)
<1>1. /\ abandoned' = abandoned + d /\ d \in Nat
      /\ \A k \in Handlers : LeftAlone(handler[k], handler'[k])
      /\ UNCHANGED <<otp, sent, compared, redeemed>>
  BY LaunchDoes DEF redis, Base, Typed
<1>2. /\ \A k \in Nobody' : k \in Nobody \/ k = login.h \/ k = refresh.h
      /\ Nobody' \subseteq Handlers /\ Counting' = Counting
      /\ \A c \in Codes : Comparing(c)' = Comparing(c)
  BY <1>1, IdleJob DEF Nobody, Counting, Comparing, LeftAlone, Done, Base, Typed, Job, Attended, Serves
<1>3. /\ Cardinality(Nobody') <= Cardinality(Nobody) + d /\ Cardinality(Nobody') \in Nat
      /\ Cardinality(Nobody) \in Nat
  <2>1. (login = Free => login.h \notin Handlers) /\ (refresh = Free => refresh.h \notin Handlers)
    BY FreeWait, Bounds
  <2>2. CASE login = Free /\ refresh = Free
    <3>1. Nobody' \subseteq Nobody
      BY <1>2, <2>1, <2>2
    <3>2. QED
      BY <2>2, <3>1, Part, Finite
  <2>3. CASE login = Free /\ refresh # Free
    <3>1. Nobody' \subseteq Nobody \cup {refresh.h}
      BY <1>2, <2>1, <2>3
    <3>2. d = 1
      BY <2>3
    <3>3. QED
      BY <3>1, <3>2, Grown, Finite
  <2>4. CASE login # Free /\ refresh = Free
    <3>1. Nobody' \subseteq Nobody \cup {login.h}
      BY <1>2, <2>1, <2>4
    <3>2. QED
      BY <2>4, <3>1, Grown, Finite
  <2>5. CASE login # Free /\ refresh # Free
    <3> DEFINE S == Nobody \cup {login.h}
    <3>1. Nobody' \subseteq S \cup {refresh.h} /\ S \subseteq Nobody \cup {login.h}
      BY <1>2
    <3> HIDE DEF S
    <3>2. IsFiniteSet(S) /\ Cardinality(S) <= Cardinality(Nobody) + 1 /\ Cardinality(S) \in Nat
          /\ Cardinality(Nobody) \in Nat
      BY <3>1, Grown, Finite
    <3>3. Cardinality(Nobody') <= Cardinality(S) + 1 /\ Cardinality(Nobody') \in Nat
      BY <3>1, <3>2, Grown
    <3>4. QED
      BY <2>5, <3>2, <3>3
  <2>6. QED
    BY <2>2, <2>3, <2>4, <2>5
<1>4. \A c \in Codes : Cardinality(Comparing(c)) \in Nat
  BY Finite, FS_CardinalityType
<1>5. \A k \in Handlers : /\ Remembers(k)
                          /\ handler'[k].at \in {"user", "issue"} /\ handler'[k].code # None =>
                                handler[k].at \in {"user", "issue"}
  BY <1>1, IdleJob DEF Remembers, Guessing, Spent, LeftAlone
<1> HIDE DEF d
<1>6. QED
  BY <1>1, <1>2, <1>3, <1>4, <1>5, AbandonedKeeps

LEMMA GuessingStep ==
    ASSUME Base, Guessing, sent' \in Nat, sent' <= MaxCodes, [Next]_vars
    PROVE  Guessing'
<1>1. CASE UNCHANGED vars
  <2>1. \A k \in Handlers : Calm(k)
    BY <1>1 DEF vars, Calm, Remembers, Nobody, Guessing, Spent
  <2>2. QED
    BY <1>1, <2>1, CalmKeeps DEF vars, redis, tally, Base, Typed, Redeems
<1>2. ASSUME NEW h \in Handlers, AskCode(h)
      PROVE  Guessing'
  <2>1. UNCHANGED <<otp, sent, compared, redeemed, abandoned>>
    BY <1>2, AskCodeDoes DEF redis, tally, Quiet
  <2>2. \A k \in Handlers : Calm(k)
    BY <1>2, AskCodeDoes, IdleJob DEF Calm, Remembers, Nobody, Guessing, Spent, Quiet, Starts,
       Others
  <2>3. QED
    BY <2>1, <2>2, CalmStays
<1>3. ASSUME NEW h \in Handlers, NEW c \in 0..sent, TypeCode(h, c)
      PROVE  Guessing'
  <2>1. UNCHANGED <<otp, sent, compared, redeemed, abandoned>>
    BY <1>3, TypeCodeDoes DEF redis, tally, Quiet
  <2>2. \A k \in Handlers : Calm(k)
    BY <1>3, TypeCodeDoes, IdleJob DEF Calm, Remembers, Nobody, Guessing, Spent, Quiet, Starts,
       Others
  <2>3. QED
    BY <2>1, <2>2, CalmStays
<1>4. ASSUME NEW h \in Handlers, TypeAgain(h)
      PROVE  Guessing'
  <2>1. UNCHANGED <<otp, sent, compared, redeemed, abandoned>>
    BY <1>4, TypeAgainDoes DEF redis, tally, Quiet
  <2>2. \A k \in Handlers : Calm(k)
    BY <1>4, TypeAgainDoes, IdleJob DEF Calm, Remembers, Nobody, Guessing, Spent, Quiet, Starts,
       Others
  <2>3. QED
    BY <2>1, <2>2, CalmStays
<1>5. ASSUME NEW h \in Handlers, CheckCooldown(h)
      PROVE  Guessing'
  <2>1. UNCHANGED <<otp, sent, compared, redeemed, abandoned>>
    BY <1>5, CheckCooldownDoes DEF redis, tally, Quiet
  <2>2. \A k \in Handlers : Calm(k)
    BY <1>5, CheckCooldownDoes, IdleJob DEF Calm, Remembers, Nobody, Guessing, Spent, Quiet,
       Others, Replies, Moves, Turns, Done, Working
  <2>3. QED
    BY <2>1, <2>2, CalmStays
<1>6. ASSUME NEW h \in Handlers, SendCode(h)
      PROVE  Guessing'
  <2>1. sent' \in Codes
    BY <1>6, SendCodeDoes DEF Codes, Base, Typed
  <2>2. QED
    BY <1>6, <2>1, SendCodeGuesses
<1>7. ASSUME NEW h \in Handlers, ReadOtp(h)
      PROVE  Guessing'
  BY <1>7, ReadOtpGuesses
<1>8. ASSUME NEW h \in Handlers, CountAttempt(h)
      PROVE  Guessing'
  BY <1>8, CountAttemptGuesses
<1>9. ASSUME NEW h \in Handlers, DropOtp(h)
      PROVE  Guessing'
  BY <1>9, DropOtpDoes, GoneKeeps, IdleJob
     DEF Nobody, Remembers, Guessing, Spent, tally, Others, Replies, Moves, Turns, Done, Working
<1>10. ASSUME NEW h \in Handlers, FindOrCreateUser(h)
      PROVE  Guessing'
  <2>1. UNCHANGED <<otp, sent, compared, redeemed, abandoned>>
    BY <1>10, FindOrCreateUserDoes DEF redis, tally, Quiet
  <2>2. \A k \in Handlers : Calm(k)
    BY <1>10, FindOrCreateUserDoes, IdleJob DEF Calm, Remembers, Nobody, Guessing, Spent, Quiet,
       Others, Replies, Moves, Turns, Done, Working
  <2>3. QED
    BY <2>1, <2>2, CalmStays
<1>11. ASSUME NEW h \in Handlers, ReadRefresh(h)
      PROVE  Guessing'
  <2>1. UNCHANGED <<otp, sent, compared, redeemed, abandoned>>
    BY <1>11, ReadRefreshDoes DEF redis, tally, Quiet
  <2>2. \A k \in Handlers : Calm(k)
    BY <1>11, ReadRefreshDoes, IdleJob DEF Calm, Remembers, Nobody, Guessing, Spent, Quiet,
       Others, Replies, Moves, Turns, Done, Working
  <2>3. QED
    BY <2>1, <2>2, CalmStays
<1>12. ASSUME NEW h \in Handlers, LookupUser(h)
      PROVE  Guessing'
  <2>1. UNCHANGED <<otp, sent, compared, redeemed, abandoned>>
    BY <1>12, LookupUserDoes DEF redis, tally, Quiet
  <2>2. \A k \in Handlers : Calm(k)
    BY <1>12, LookupUserDoes, IdleJob DEF Calm, Remembers, Nobody, Guessing, Spent, Quiet, Others,
       Replies, Moves, Turns, Done, Working
  <2>3. QED
    BY <2>1, <2>2, CalmStays
<1>13. ASSUME NEW h \in Handlers, Rotate(h)
      PROVE  Guessing'
  <2>1. /\ Moves(h, "issue") /\ handler[h].at = "rotate" /\ handler[h].code = None
        /\ UNCHANGED <<otp, cooldown, member, blocked, phone, expired, tally>>
    BY <1>13, RotateDoes DEF Guessing, Spent
  <2>2. \A k \in Handlers : Calm(k)
    BY <2>1 DEF Calm, Remembers, Nobody, Guessing, Spent, Moves, Turns, Others
  <2>3. QED
    BY <2>1, <2>2, CalmStays DEF tally
<1>14. ASSUME NEW h \in Handlers, IssueTokens(h)
      PROVE  Guessing'
  <2>1. PICK t \in Tokens, f \in Tokens : Issues(h, t, f)
    BY <1>14, IssueTokensDoes
  <2>2. /\ Replies(h, "ok", t) /\ handler[h].at = "issue"
        /\ redeemed' = redeemed \cup ({handler[h].code} \ {None})
        /\ UNCHANGED <<otp, sent, compared, abandoned>>
    BY <1>14, <2>1, IssueTokensDoes DEF Issues
  <2>3. Redeems
    BY <2>2 DEF Redeems
  <2>4. \A k \in Handlers : Calm(k)
    BY <2>2, IdleJob DEF Calm, Remembers, Nobody, Guessing, Spent, Replies, Others
  <2>5. QED
    BY <2>2, <2>3, <2>4, CalmKeeps DEF Base, Typed
<1>15. ASSUME NEW h \in Handlers, ReadMembers(h)
      PROVE  Guessing'
  <2>1. UNCHANGED <<otp, sent, compared, redeemed, abandoned>>
    BY <1>15, ReadMembersDoes DEF redis, tally, Quiet
  <2>2. \A k \in Handlers : Calm(k)
    BY <1>15, ReadMembersDoes, IdleJob DEF Calm, Remembers, Nobody, Guessing, Spent, Quiet,
       Others, Replies, Moves, Turns, Done, Working
  <2>3. QED
    BY <2>1, <2>2, CalmStays
<1>16. ASSUME NEW h \in Handlers, RevokeFamily(h)
      PROVE  Guessing'
  <2>1. UNCHANGED <<otp, sent, compared, redeemed, abandoned>>
    BY <1>16, RevokeFamilyDoes DEF redis, tally, Quiet
  <2>2. \A k \in Handlers : Calm(k)
    BY <1>16, RevokeFamilyDoes, IdleJob DEF Calm, Remembers, Nobody, Guessing, Spent, Quiet,
       Others, Replies, Moves, Turns, Done, Working
  <2>3. QED
    BY <2>1, <2>2, CalmStays
<1>17. ASSUME NEW h \in Handlers, ServerError(h)
      PROVE  Guessing'
  <2>1. /\ Replies(h, "failed", None) /\ handler[h].at \in Working /\ abandoned' = abandoned + 1
        /\ UNCHANGED <<otp, sent, compared, redeemed>>
    BY <1>17, ServerErrorDoes DEF redis
  <2>2. /\ Nobody' \subseteq Nobody /\ Counting' \subseteq Counting
        /\ \A c \in Codes : Comparing(c)' = Comparing(c) \ {h}
    BY <2>1, IdleJob DEF Nobody, Counting, Comparing, Replies, Others, Working
  <2>3. /\ Cardinality(Nobody') <= Cardinality(Nobody) /\ Cardinality(Nobody') \in Nat
        /\ Cardinality(Nobody) \in Nat
    BY <2>2, Part, Finite
  <2>4. ASSUME NEW c \in Codes
        PROVE  /\ Cardinality(Comparing(c)') \in Nat /\ Cardinality(Comparing(c)) \in Nat
               /\ Cardinality(Comparing(c)) <= Cardinality(Comparing(c)') + 1
    BY <2>2, LessOne, Finite
  <2>5. \A k \in Handlers : /\ Remembers(k)
                            /\ handler'[k].at \in {"user", "issue"} /\ handler'[k].code # None =>
                                  handler[k].at \in {"user", "issue"}
    BY <2>1, IdleJob DEF Remembers, Guessing, Spent, Replies, Others
  <2>6. QED
    BY <2>1, <2>2, <2>3, <2>4, <2>5, AbandonedKeeps
<1>18. ASSUME NEW h \in Handlers, SignInTimesOut(h)
      PROVE  Guessing'
  <2>1. abandoned' = abandoned + 1 /\ UNCHANGED <<otp, sent, compared, redeemed>>
    BY <1>18, SignInTimesOutDoes DEF redis
  <2>2. /\ Nobody' \subseteq Nobody \cup {login.h} /\ Counting' = Counting
        /\ \A c \in Codes : Comparing(c)' = Comparing(c)
    BY <1>18, SignInTimesOutDoes, IdleJob DEF Nobody, Counting, Comparing, Forsakes, LeftAlone,
       Others, Done
  <2>3. /\ Cardinality(Nobody') <= Cardinality(Nobody) + 1 /\ Cardinality(Nobody') \in Nat
        /\ Cardinality(Nobody) \in Nat
    BY <2>2, Grown, Finite
  <2>4. \A c \in Codes : Cardinality(Comparing(c)) \in Nat
    BY Finite, FS_CardinalityType
  <2>5. \A k \in Handlers : /\ Remembers(k)
                            /\ handler'[k].at \in {"user", "issue"} /\ handler'[k].code # None =>
                                  handler[k].at \in {"user", "issue"}
    BY <1>18, SignInTimesOutDoes, IdleJob DEF Remembers, Guessing, Spent, Forsakes, LeftAlone,
       Others, Done
  <2>6. QED
    BY <2>1, <2>2, <2>3, <2>4, <2>5, AbandonedKeeps
<1>19. ASSUME NEW h \in Handlers, StartRefresh(h)
      PROVE  Guessing'
  <2>1. UNCHANGED <<otp, sent, compared, redeemed, abandoned>>
    BY <1>19, StartRefreshDoes DEF redis, tally, Quiet
  <2>2. \A k \in Handlers : Calm(k)
    BY <1>19, StartRefreshDoes, IdleJob DEF Calm, Remembers, Nobody, Guessing, Spent, Quiet,
       Starts, Others
  <2>3. QED
    BY <2>1, <2>2, CalmStays
<1>20. ASSUME SignInAnswered
      PROVE  Guessing'
  <2>1. UNCHANGED <<otp, sent, compared, redeemed, abandoned>>
    BY <1>20, SignInAnsweredDoes DEF redis, tally, Quiet
  <2>2. \A k \in Handlers : Calm(k)
    BY <1>20, SignInAnsweredDoes, IdleJob DEF Calm, Remembers, Nobody, Guessing, Spent, Quiet,
       Heard, Others, Done
  <2>3. QED
    BY <2>1, <2>2, CalmStays
<1>21. ASSUME SaveSignIn
      PROVE  Guessing'
  <2>1. UNCHANGED <<otp, sent, compared, redeemed, abandoned>>
    BY <1>21, SaveSignInDoes DEF redis, tally, Quiet
  <2>2. \A k \in Handlers : Calm(k)
    BY <1>21, SaveSignInDoes, IdleJob DEF Calm, Remembers, Nobody, Guessing, Spent, Quiet, None
  <2>3. QED
    BY <2>1, <2>2, CalmStays
<1>22. ASSUME SaveFails
      PROVE  Guessing'
  <2>1. UNCHANGED <<otp, sent, compared, redeemed>> /\ abandoned' = abandoned + 1
    BY <1>22, SaveFailsDoes DEF redis
  <2>2. \A k \in Handlers : Calm(k)
    BY <1>22, SaveFailsDoes, IdleJob DEF Calm, Remembers, Nobody, Guessing, Spent, Quiet, None
  <2>3. QED
    BY <2>1, <2>2, CalmKeeps DEF Base, Typed, Redeems
<1>23. ASSUME BackToPhone
      PROVE  Guessing'
  <2>1. UNCHANGED <<otp, sent, compared, redeemed, abandoned>>
    BY <1>23, BackToPhoneDoes DEF redis, tally, Quiet
  <2>2. \A k \in Handlers : Calm(k)
    BY <1>23, BackToPhoneDoes, IdleJob DEF Calm, Remembers, Nobody, Guessing, Spent, Quiet, None
  <2>3. QED
    BY <2>1, <2>2, CalmStays
<1>24. ASSUME NEW c \in Calls, NEW kind \in {"api", "logout"}, StartCall(c, kind)
      PROVE  Guessing'
  <2>1. UNCHANGED <<otp, sent, compared, redeemed, abandoned>>
    BY <1>24, StartCallDoes DEF redis, tally, Quiet
  <2>2. \A k \in Handlers : Calm(k)
    BY <1>24, StartCallDoes, IdleJob DEF Calm, Remembers, Nobody, Guessing, Spent, Quiet, None
  <2>3. QED
    BY <2>1, <2>2, CalmStays
<1>25. ASSUME NEW c \in Calls, Answered(c)
      PROVE  Guessing'
  <2>1. UNCHANGED <<otp, sent, compared, redeemed, abandoned>>
    BY <1>25, AnsweredDoes DEF redis, tally, Quiet
  <2>2. \A k \in Handlers : Calm(k)
    BY <1>25, AnsweredDoes, IdleJob DEF Calm, Remembers, Nobody, Guessing, Spent, Quiet, None
  <2>3. QED
    BY <2>1, <2>2, CalmStays
<1>26. ASSUME NEW c \in Calls, Unanswered(c)
      PROVE  Guessing'
  <2>1. UNCHANGED <<otp, sent, compared, redeemed, abandoned>>
    BY <1>26, UnansweredDoes DEF redis, tally, Quiet
  <2>2. \A k \in Handlers : Calm(k)
    BY <1>26, UnansweredDoes, IdleJob DEF Calm, Remembers, Nobody, Guessing, Spent, Quiet, None
  <2>3. QED
    BY <2>1, <2>2, CalmStays
<1>27. ASSUME NEW c \in Calls, Restore(c)
      PROVE  Guessing'
  <2>1. UNCHANGED <<otp, sent, compared, redeemed, abandoned>>
    BY <1>27, RestoreDoes DEF redis, tally, Quiet
  <2>2. \A k \in Handlers : Calm(k)
    BY <1>27, RestoreDoes, IdleJob DEF Calm, Remembers, Nobody, Guessing, Spent, Quiet, None
  <2>3. QED
    BY <2>1, <2>2, CalmStays
<1>28. ASSUME NothingToRefresh
      PROVE  Guessing'
  <2>1. UNCHANGED <<otp, sent, compared, redeemed, abandoned>>
    BY <1>28, NothingToRefreshDoes DEF redis, tally, Quiet
  <2>2. \A k \in Handlers : Calm(k)
    BY <1>28, NothingToRefreshDoes, IdleJob DEF Calm, Remembers, Nobody, Guessing, Spent, Quiet,
       None
  <2>3. QED
    BY <2>1, <2>2, CalmStays
<1>29. ASSUME RefreshRefused
      PROVE  Guessing'
  <2>1. UNCHANGED <<otp, sent, compared, redeemed, abandoned>>
    BY <1>29, RefreshRefusedDoes DEF redis, tally, Quiet
  <2>2. \A k \in Handlers : Calm(k)
    BY <1>29, RefreshRefusedDoes, IdleJob DEF Calm, Remembers, Nobody, Guessing, Spent, Quiet,
       Heard, Others, Done
  <2>3. QED
    BY <2>1, <2>2, CalmStays
<1>30. ASSUME RefreshGranted
      PROVE  Guessing'
  <2>1. UNCHANGED <<otp, sent, compared, redeemed, abandoned>>
    BY <1>30, RefreshGrantedDoes DEF redis, tally, Quiet
  <2>2. \A k \in Handlers : Calm(k)
    BY <1>30, RefreshGrantedDoes, IdleJob DEF Calm, Remembers, Nobody, Guessing, Spent, Quiet,
       Heard, Others, Done
  <2>3. QED
    BY <2>1, <2>2, CalmStays
<1>31. ASSUME SaveRefreshed
      PROVE  Guessing'
  <2>1. UNCHANGED <<otp, sent, compared, redeemed, abandoned>>
    BY <1>31, SaveRefreshedDoes DEF redis, tally, Quiet
  <2>2. \A k \in Handlers : Calm(k)
    BY <1>31, SaveRefreshedDoes, IdleJob DEF Calm, Remembers, Nobody, Guessing, Spent, Quiet, None
  <2>3. QED
    BY <2>1, <2>2, CalmStays
<1>32. ASSUME NEW result \in {"network", "401"}, RefreshLost(result)
      PROVE  Guessing'
  <2>1. abandoned' = abandoned + 1 /\ UNCHANGED <<otp, sent, compared, redeemed>>
    BY <1>32, RefreshLostDoes DEF redis
  <2>2. /\ Nobody' \subseteq Nobody \cup {refresh.h} /\ Counting' = Counting
        /\ \A c \in Codes : Comparing(c)' = Comparing(c)
    BY <1>32, RefreshLostDoes, IdleJob DEF Nobody, Counting, Comparing, Forsakes, LeftAlone,
       Others, Done
  <2>3. /\ Cardinality(Nobody') <= Cardinality(Nobody) + 1 /\ Cardinality(Nobody') \in Nat
        /\ Cardinality(Nobody) \in Nat
    BY <2>2, Grown, Finite
  <2>4. \A c \in Codes : Cardinality(Comparing(c)) \in Nat
    BY Finite, FS_CardinalityType
  <2>5. \A k \in Handlers : /\ Remembers(k)
                            /\ handler'[k].at \in {"user", "issue"} /\ handler'[k].code # None =>
                                  handler[k].at \in {"user", "issue"}
    BY <1>32, RefreshLostDoes, IdleJob DEF Remembers, Guessing, Spent, Forsakes, LeftAlone,
       Others, Done
  <2>6. QED
    BY <2>1, <2>2, <2>3, <2>4, <2>5, AbandonedKeeps
<1>33. ASSUME NEW t \in Tokens, ExpireAccess(t)
      PROVE  Guessing'
  <2>1. UNCHANGED <<otp, sent, compared, redeemed, abandoned>>
    BY <1>33, ExpireAccessDoes DEF redis, tally, Quiet
  <2>2. \A k \in Handlers : Calm(k)
    BY <1>33, ExpireAccessDoes, IdleJob DEF Calm, Remembers, Nobody, Guessing, Spent, Quiet, None
  <2>3. QED
    BY <2>1, <2>2, CalmStays
<1>34. ASSUME Launch
      PROVE  Guessing'
  BY <1>34, LaunchGuesses
<1>35. ASSUME OtpRunsOut
      PROVE  Guessing'
  <2>1. CASE otp' = otp
    <3>1. \A k \in Handlers : Calm(k)
      BY <1>35, OtpRunsOutDoes DEF Calm, Remembers, Nobody, Guessing, Spent
    <3>2. QED
      BY <1>35, <2>1, <3>1, OtpRunsOutDoes, CalmKeeps DEF tally, Base, Typed, Redeems
  <2>2. CASE otp'.code = None /\ otp'.attempts = 0
    BY <1>35, <2>2, OtpRunsOutDoes, GoneKeeps DEF Nobody, Remembers, Guessing, Spent, tally
  <2>3. QED
    BY <1>35, <2>1, <2>2, OtpRunsOutDoes
<1>36. ASSUME Block
      PROVE  Guessing'
  <2>1. UNCHANGED <<otp, sent, compared, redeemed, abandoned>>
    BY <1>36, BlockDoes DEF redis, tally, Quiet
  <2>2. \A k \in Handlers : Calm(k)
    BY <1>36, BlockDoes, IdleJob DEF Calm, Remembers, Nobody, Guessing, Spent, Quiet, None
  <2>3. QED
    BY <2>1, <2>2, CalmStays
<1>37. QED
  BY <1>1, <1>2, <1>3, <1>4, <1>5, <1>6, <1>7, <1>8, <1>9, <1>10, <1>11, <1>12, <1>13, <1>14,
     <1>15, <1>16, <1>17, <1>18, <1>19, <1>20, <1>21, <1>22, <1>23, <1>24, <1>25, <1>26, <1>27,
     <1>28, <1>29, <1>30, <1>31, <1>32, <1>33, <1>34, <1>35, <1>36, NextCases

-----------------------------------------------------------------------------
(* Tokens left behind *)

LEMMA Unions ==
    ASSUME NEW S, IsFiniteSet(S), NEW X, IsFiniteSet(X), NEW T, T \subseteq S \cup X
    PROVE  IsFiniteSet(T) /\ Cardinality(T) <= Cardinality(S) + Cardinality(X)
           /\ Cardinality(T) \in Nat /\ Cardinality(S) \in Nat /\ Cardinality(X) \in Nat
<1>1. /\ IsFiniteSet(S \cup X) /\ IsFiniteSet(S \cap X)
      /\ Cardinality(S \cup X) = Cardinality(S) + Cardinality(X) - Cardinality(S \cap X)
  BY FS_Union, FS_Intersection
<1>2. /\ Cardinality(S \cap X) \in Nat /\ Cardinality(S) \in Nat /\ Cardinality(X) \in Nat
  BY <1>1, FS_CardinalityType
<1>3. IsFiniteSet(T) /\ Cardinality(T) \in Nat /\ Cardinality(T) <= Cardinality(S \cup X)
  BY <1>1, Part
<1>4. QED
  BY <1>1, <1>2, <1>3

LEMMA LostFinite ==
    ASSUME Typed
    PROVE  /\ IsFiniteSet(Lost) /\ Cardinality(Lost) \in Nat /\ Cardinality(Nobody) \in Nat
           /\ IsFiniteSet(Nobody) /\ Risk \in {0, 1} /\ abandoned \in Nat /\ discarded \in Nat
           /\ None \notin Live
<1>1. IsFiniteSet(Lost) /\ Cardinality(Lost) \in Nat
  BY Part, Finite DEF Lost
<1>2. QED
  BY <1>1, Finite, FS_CardinalityType, Bounds DEF Typed, Risk, Live

\* The refresh token leaves the keystore as the books say.
Drops ==
    \/ app'.refresh = app.refresh /\ discarded' = discarded
    \/ discarded' = IF app.refresh = None THEN discarded ELSE discarded + 1

LEMMA LedgerSum ==
    ASSUME NEW l \in Nat, NEW n \in Nat, NEW r \in Nat, NEW a \in Nat, NEW d \in Nat,
           NEW l2 \in Nat, NEW n2 \in Nat, NEW r2 \in Nat, NEW a2 \in Nat, NEW d2 \in Nat,
           NEW x \in Nat, NEW y \in Nat, NEW z \in Nat,
           l + n + r <= a + d, l2 <= l + x + z, n2 <= n + y, z + r2 + d <= r + d2, a + x + y <= a2
    PROVE  l2 + n2 + r2 <= a2 + d2
OBVIOUS

\* The tokens of X are lost, and nobody waits any more for the handlers of Y: as many
\* answers have gone unused.
LEMMA LedgerKeeps ==
    ASSUME Base, Accounted, Live' = Live, Drops, InFlight' => InFlight,
           NEW X, NEW Y, IsFiniteSet(X), IsFiniteSet(Y), abandoned' \in Nat,
           abandoned + Cardinality(X) + Cardinality(Y) <= abandoned', Nobody' \subseteq Nobody \cup Y,
           \A t \in Tokens : Elsewhere(t)' => Elsewhere(t) \/ t \in X \/ t = app'.refresh
    PROVE  Accounted'
<1> DEFINE Z == IF discarded' # discarded /\ app.refresh \in Live THEN {app.refresh} ELSE {}
<1>1. /\ IsFiniteSet(Lost) /\ Cardinality(Lost) \in Nat /\ Cardinality(Nobody) \in Nat
      /\ IsFiniteSet(Nobody) /\ Risk \in {0, 1} /\ abandoned \in Nat /\ discarded \in Nat
      /\ None \notin Live
  BY LostFinite DEF Base
<1>2. Lost' \subseteq (Lost \cup X) \cup Z
  <2>1. ASSUME NEW t \in Lost' PROVE t \in (Lost \cup X) \cup Z
    <3>1. t \in Live /\ t # app'.refresh /\ Elsewhere(t)'
      BY <2>1 DEF Lost
    <3>2. Elsewhere(t) \/ t \in X
      BY <3>1 DEF Live
    <3>3. t = app.refresh => t \in Z
      BY <1>1, <3>1 DEF Drops
    <3>4. QED
      BY <3>1, <3>2, <3>3 DEF Lost
  <2>2. QED
    BY <2>1
<1>3. IsFiniteSet(Z) /\ Cardinality(Z) = IF discarded' # discarded /\ app.refresh \in Live THEN 1 ELSE 0
  BY FS_Singleton, FS_EmptySet
<1> HIDE DEF Z
<1>4. /\ Cardinality(Z) + Risk' + discarded <= Risk + discarded'
      /\ Risk' \in Nat /\ discarded' \in Nat /\ Cardinality(Z) \in Nat
  BY <1>1, <1>3 DEF Drops, Risk
<1>5. /\ IsFiniteSet(Lost \cup X) /\ Cardinality(Lost \cup X) <= Cardinality(Lost) + Cardinality(X)
      /\ Cardinality(Lost \cup X) \in Nat /\ Cardinality(X) \in Nat
  BY <1>1, Unions
<1>6. /\ Cardinality(Lost') <= Cardinality(Lost \cup X) + Cardinality(Z) /\ Cardinality(Lost') \in Nat
  BY <1>2, <1>3, <1>5, Unions
<1>7. /\ Cardinality(Nobody') <= Cardinality(Nobody) + Cardinality(Y) /\ Cardinality(Nobody') \in Nat
      /\ Cardinality(Y) \in Nat
  BY <1>1, Unions
<1>8. Cardinality(Lost') <= Cardinality(Lost) + Cardinality(X) + Cardinality(Z)
  BY <1>1, <1>4, <1>5, <1>6
<1>9. Risk \in Nat /\ Cardinality(Lost) + Cardinality(Nobody) + Risk <= abandoned + discarded
  BY <1>1 DEF Accounted
<1>10. Cardinality(Lost') + Cardinality(Nobody') + Risk' <= abandoned' + discarded'
  BY <1>1, <1>4, <1>5, <1>6, <1>7, <1>8, <1>9, LedgerSum
<1>11. QED
  BY <1>10 DEF Accounted

\* Nothing is lost that is not in the books.
LEMMA LedgerStays ==
    ASSUME Base, Accounted, Live' = Live, Drops, InFlight' => InFlight, abandoned' \in Nat,
           abandoned <= abandoned', Nobody' \subseteq Nobody,
           \A t \in Tokens : Elsewhere(t)' => Elsewhere(t) \/ t = app'.refresh
    PROVE  Accounted'
<1> DEFINE X == {}
<1>1. IsFiniteSet(X) /\ Cardinality(X) = 0 /\ abandoned \in Nat
  BY FS_EmptySet DEF Base, Typed
<1>2. /\ abandoned + Cardinality(X) + Cardinality(X) <= abandoned' /\ Nobody' \subseteq Nobody \cup X
      /\ \A t \in Tokens : Elsewhere(t)' => Elsewhere(t) \/ t \in X \/ t = app'.refresh
  BY <1>1
<1> HIDE DEF X
<1>3. QED
  BY <1>1, <1>2, LedgerKeeps

\* An answer is not used: its token is lost, or nobody waits for its handler any more.
LEMMA LedgerUnused ==
    ASSUME Base, Accounted, Live' = Live, Drops, InFlight' => InFlight, abandoned' = abandoned + 1,
           NEW x,
           \/ /\ Nobody' \subseteq Nobody
              /\ \A t \in Tokens : Elsewhere(t)' => Elsewhere(t) \/ t = x \/ t = app'.refresh
           \/ /\ Nobody' \subseteq Nobody \cup {x}
              /\ \A t \in Tokens : Elsewhere(t)' => Elsewhere(t) \/ t = app'.refresh
    PROVE  Accounted'
<1> DEFINE X == {}  Y == {x}
<1>1. /\ IsFiniteSet(X) /\ Cardinality(X) = 0 /\ IsFiniteSet(Y) /\ Cardinality(Y) = 1
      /\ abandoned \in Nat /\ abandoned' \in Nat
  <2>1. abandoned \in Nat
    BY DEF Base, Typed
  <2>2. IsFiniteSet(X) /\ Cardinality(X) = 0
    BY FS_EmptySet
  <2>3. IsFiniteSet(Y) /\ Cardinality(Y) = 1
    BY FS_Singleton
  <2>4. QED
    BY <2>1, <2>2, <2>3
<1>2. CASE /\ Nobody' \subseteq Nobody
           /\ \A t \in Tokens : Elsewhere(t)' => Elsewhere(t) \/ t = x \/ t = app'.refresh
  <2>1. /\ abandoned + Cardinality(Y) + Cardinality(X) <= abandoned' /\ Nobody' \subseteq Nobody \cup X
        /\ \A t \in Tokens : Elsewhere(t)' => Elsewhere(t) \/ t \in Y \/ t = app'.refresh
    BY <1>1, <1>2
  <2> HIDE DEF X, Y
  <2>2. QED
    BY <1>1, <2>1, LedgerKeeps
<1>3. CASE /\ Nobody' \subseteq Nobody \cup {x}
           /\ \A t \in Tokens : Elsewhere(t)' => Elsewhere(t) \/ t = app'.refresh
  <2>1. /\ abandoned + Cardinality(X) + Cardinality(Y) <= abandoned' /\ Nobody' \subseteq Nobody \cup Y
        /\ \A t \in Tokens : Elsewhere(t)' => Elsewhere(t) \/ t \in X \/ t = app'.refresh
    BY <1>1, <1>3
  <2> HIDE DEF X, Y
  <2>2. QED
    BY <1>1, <2>1, LedgerKeeps
<1>4. QED
  BY <1>2, <1>3

\* Tokens die on the server.
LEMMA LedgerDies ==
    ASSUME Base, Accounted, UNCHANGED <<app, login, refresh, abandoned, discarded>>,
           Live' \subseteq Live, Nobody' \subseteq Nobody,
           \A t \in Tokens : Elsewhere(t)' => Elsewhere(t),
           InFlight' => \/ InFlight
                        \/ /\ refresh.at = "sent" /\ handler[refresh.h].at \in {"lookup", "rotate"}
                           /\ handler[refresh.h].t \in Live \ Live'
    PROVE  Accounted'
<1>1. /\ IsFiniteSet(Lost) /\ Cardinality(Lost) \in Nat /\ Cardinality(Nobody) \in Nat
      /\ IsFiniteSet(Nobody) /\ Risk \in {0, 1} /\ abandoned \in Nat /\ discarded \in Nat
      /\ None \notin Live
  BY LostFinite DEF Base
<1>2. Cardinality(Nobody') <= Cardinality(Nobody) /\ Cardinality(Nobody') \in Nat
  BY <1>1, Part
<1>3. Lost' \subseteq Lost
  BY DEF Lost, Live
<1>4. Cardinality(Lost') <= Cardinality(Lost) /\ Cardinality(Lost') \in Nat
  BY <1>1, <1>3, Part
<1>5. Risk' \in {0, 1}
  BY DEF Risk
<1>6. CASE InFlight' => InFlight
  <2>1. Risk' <= Risk
    BY <1>6 DEF Risk
  <2>2. QED
    BY <1>1, <1>2, <1>4, <1>5, <2>1 DEF Accounted
<1>7. CASE /\ refresh.at = "sent" /\ handler[refresh.h].at \in {"lookup", "rotate"}
           /\ handler[refresh.h].t \in Live \ Live'
  <2> DEFINE r == handler[refresh.h].t
  <2>1. refresh.h \in Handlers
    BY <1>7 DEF Base, Typed, RefreshRow, Wait, Attended, RefreshWaits
  <2>2. Elsewhere(r)
    BY <1>7, <2>1 DEF Base, Distinct, Arrived, Presented
  <2>3. CASE r = app.refresh
    <3>1. Risk' = 0
      BY <1>1, <1>7, <2>3 DEF Risk
    <3>2. QED
      BY <1>1, <1>2, <1>4, <3>1 DEF Accounted
  <2>4. CASE r # app.refresh
    <3>1. r \in Lost /\ Lost' \subseteq Lost \ {r}
      BY <1>3, <1>7, <2>2, <2>4 DEF Lost
    <3>2. Cardinality(Lost') <= Cardinality(Lost) - 1
      BY <1>1, <3>1, Shrunk
    <3>3. QED
      BY <1>1, <1>2, <1>4, <1>5, <3>2 DEF Accounted
  <2>5. QED
    BY <2>3, <2>4
<1>8. QED
  BY <1>6, <1>7

LEMMA IssueTokensLedger ==
    ASSUME Base, Accounted, NEW h \in Handlers, IssueTokens(h)
    PROVE  Accounted'
<1>1. PICK t \in Tokens, f \in Tokens : Issues(h, t, f)
  BY IssueTokensDoes
<1>2. /\ Replies(h, "ok", t) /\ handler[h].at = "issue" /\ ~Born(t) /\ UNCHANGED phone
      /\ UNCHANGED <<abandoned, discarded>> /\ Live' = Live \cup {t} /\ t \notin Live
      /\ t # None
  <2>1. /\ Replies(h, "ok", t) /\ handler[h].at = "issue" /\ ~Born(t) /\ UNCHANGED phone
        /\ UNCHANGED <<abandoned, discarded>> /\ t # None
    BY <1>1, IssueTokensDoes, Bounds DEF Issues, Born
  <2>2. Live' = Live \cup {t} /\ t \notin Live
    BY <1>1 DEF Issues, Untouched, Live
  <2>3. QED
    BY <2>1, <2>2
<1>3. app.refresh # t /\ UNCHANGED <<app, login, refresh>> /\ Unread' = Unread
  BY <1>2, Bounds DEF Base, Distinct, Arrived, phone, Unread, Arriving
<1>4. \A k \in Handlers \ {h} : handler'[k] = handler[k]
  BY <1>2 DEF Replies, Others
<1>5. \A u \in Tokens : Elsewhere(u)' => Elsewhere(u)
  BY <1>2, <1>3, <1>4 DEF Elsewhere, Granted
<1>6. Lost' \subseteq Lost \cup {t}
  BY <1>2, <1>3, <1>5 DEF Lost, Live
<1>7. /\ IsFiniteSet(Lost) /\ Cardinality(Lost) \in Nat /\ Cardinality(Nobody) \in Nat
      /\ IsFiniteSet(Nobody) /\ Risk \in {0, 1} /\ abandoned \in Nat /\ discarded \in Nat
  BY LostFinite DEF Base
<1>8. InFlight' => InFlight
  <2>1. SUFFICES ASSUME refresh.at = "sent", InFlight'
                 PROVE  InFlight
    BY <1>3 DEF InFlight
  <2>2. refresh.h \in Handlers
    BY <2>1 DEF Base, Typed, RefreshRow, Wait, Attended, RefreshWaits
  <2>3. CASE refresh.h = h
    BY <1>2, <2>1, <2>3 DEF InFlight
  <2>4. CASE refresh.h # h
    <3>1. handler'[refresh.h] = handler[refresh.h]
      BY <1>4, <2>2, <2>4
    <3>2. QED
      BY <1>2, <1>3, <2>1, <3>1 DEF InFlight
  <2>5. QED
    BY <2>3, <2>4
<1>9. Risk' <= Risk /\ Risk' \in {0, 1}
  BY <1>2, <1>3, <1>8 DEF Risk
<1>10. CASE handler[h].client = "nobody"
  <2>1. h \in Nobody /\ Nobody' \subseteq Nobody \ {h}
    BY <1>2, <1>4, <1>10, IdleJob DEF Nobody, Replies
  <2>2. Cardinality(Nobody') <= Cardinality(Nobody) - 1 /\ Cardinality(Nobody') \in Nat
    BY <1>7, <2>1, Shrunk
  <2>3. Cardinality(Lost') <= Cardinality(Lost) + 1 /\ Cardinality(Lost') \in Nat
    BY <1>6, <1>7, Grown
  <2>4. QED
    BY <1>2, <1>7, <1>9, <2>2, <2>3 DEF Accounted
<1>11. CASE handler[h].client # "nobody"
  <2>1. Nobody' \subseteq Nobody
    BY <1>2, <1>4, <1>11 DEF Nobody, Replies
  <2>2. Granted(h)' /\ handler'[h].t = t
    BY <1>2, <1>11 DEF Replies, Granted
  <2>3. Lost' \subseteq Lost
    BY <1>6, <2>2 DEF Lost, Elsewhere
  <2>4. /\ Cardinality(Nobody') <= Cardinality(Nobody) /\ Cardinality(Nobody') \in Nat
        /\ Cardinality(Lost') <= Cardinality(Lost) /\ Cardinality(Lost') \in Nat
    BY <1>7, <2>1, <2>3, Part
  <2>5. QED
    BY <1>2, <1>7, <1>9, <2>4 DEF Accounted
<1>12. QED
  BY <1>10, <1>11

\* Where the refresh is.
LEMMA Served ==
    ASSUME Base
    PROVE  /\ refresh.at = "sent" => /\ refresh.h \in Handlers /\ handler[refresh.h].client = "refresh"
                                     /\ handler[refresh.h].at \notin Coding \cup {"idle"}
           /\ login.h # None => /\ login.h \in Handlers /\ handler[login.h].client = "login"
                                /\ login.at \notin {"access", "refresh"}
           /\ \A h \in Handlers : handler[h].at = "idle" => handler[h].client = "nobody"
BY IdleJob DEF Base, Typed, RefreshRow, LoginRow, Wait, Attended, Serves, LoginWaits, RefreshWaits

LEMMA LaunchLedger ==
    ASSUME Base, Accounted, Launch
    PROVE  Accounted'
<1> DEFINE gone(w) == w # Free /\ (w.h = None \/ handler[w.h].at \in Done)
           lost(w) == IF w.h = None THEN w.t ELSE handler[w.h].t
           X(w) == IF gone(w) THEN {lost(w)} ELSE {}
           Y(w) == IF w # Free /\ ~gone(w) THEN {w.h} ELSE {}
<1>1. /\ \A h \in Handlers : LeftAlone(handler[h], handler'[h])
      /\ app'.refresh = app.refresh /\ login' = Free /\ refresh' = Free
      /\ abandoned' = abandoned + (IF login = Free THEN 0 ELSE 1) + (IF refresh = Free THEN 0 ELSE 1)
      /\ UNCHANGED <<token, discarded>>
  BY LaunchDoes DEF redis
<1>2. /\ \A w : IsFiniteSet(X(w)) /\ IsFiniteSet(Y(w)) /\ Cardinality(X(w)) \in Nat /\ Cardinality(Y(w)) \in Nat
      /\ \A w : Cardinality(X(w)) + Cardinality(Y(w)) = IF w = Free THEN 0 ELSE 1
  <2>1. ASSUME NEW w
        PROVE  /\ IsFiniteSet(X(w)) /\ IsFiniteSet(Y(w))
               /\ Cardinality(X(w)) \in Nat /\ Cardinality(Y(w)) \in Nat
               /\ Cardinality(X(w)) + Cardinality(Y(w)) = IF w = Free THEN 0 ELSE 1
    <3>1. IsFiniteSet(X(w)) /\ Cardinality(X(w)) = IF gone(w) THEN 1 ELSE 0
      BY FS_EmptySet, FS_Singleton
    <3>2. IsFiniteSet(Y(w)) /\ Cardinality(Y(w)) = IF w # Free /\ ~gone(w) THEN 1 ELSE 0
      BY FS_EmptySet, FS_Singleton
    <3> HIDE DEF X, Y
    <3>3. QED
      BY <3>1, <3>2
  <2> HIDE DEF X, Y
  <2>2. QED
    BY <2>1
<1>3. Nobody' \subseteq Nobody \cup (Y(login) \cup Y(refresh))
  <2>1. ASSUME NEW h \in Nobody', h \notin Nobody
        PROVE  h \in Y(login) \cup Y(refresh)
    <3>1. /\ h \in Handlers /\ handler[h].at \notin Done \cup {"idle"} /\ handler[h].client # "nobody"
      BY <1>1, <2>1, IdleJob DEF Nobody, LeftAlone
    <3>2. \/ handler[h].client = "login" /\ login.h = h
          \/ handler[h].client = "refresh" /\ refresh.h = h
      BY <3>1 DEF Base, Typed, Job, Attended, Serves
    <3>3. QED
      BY <3>1, <3>2, FreeWait, Bounds
  <2>2. QED
    BY <2>1
<1>4. \A t \in Tokens : Elsewhere(t)' => Elsewhere(t) \/ t \in X(login) \cup X(refresh)
  <2>1. ASSUME NEW t \in Tokens, ~Elsewhere(t)
        PROVE  t \in X(login) \cup X(refresh)
    <3>1. CASE t \in Arriving(login)
      <4>1. login.h = None /\ login.t = t /\ login # Free
        BY <3>1, FreeWait DEF Arriving, Base, Attended, LoginWaits
      <4>2. QED
        BY <4>1
    <3>2. CASE t \in Arriving(refresh)
      <4>1. refresh.h = None /\ refresh.t = t /\ refresh # Free
        BY <3>2, FreeWait DEF Arriving, Base, Attended, RefreshWaits
      <4>2. QED
        BY <4>1
    <3>3. CASE \E h \in Handlers : Granted(h) /\ handler[h].t = t
      <4>1. PICK h \in Handlers : Granted(h) /\ handler[h].t = t
        BY <3>3
      <4>2. handler[h].at \in Done /\ (login.h = h \/ refresh.h = h)
        BY <4>1 DEF Granted, Done, Base, Typed, Job, Attended, Serves
      <4>3. h # None
        BY Bounds
      <4>4. QED
        BY <4>1, <4>2, <4>3, FreeWait
    <3>4. QED
      BY <2>1, <3>1, <3>2, <3>3 DEF Elsewhere, Unread
  <2>2. QED
    BY <2>1
<1>5. Live' = Live /\ Drops /\ (InFlight' => InFlight)
  BY <1>1, FreeWait DEF Live, Drops, InFlight
<1> HIDE DEF X, Y
<1>6. /\ IsFiniteSet(X(login) \cup X(refresh))
      /\ Cardinality(X(login) \cup X(refresh)) <= Cardinality(X(login)) + Cardinality(X(refresh))
      /\ Cardinality(X(login) \cup X(refresh)) \in Nat
  BY <1>2, Unions
<1>7. /\ IsFiniteSet(Y(login) \cup Y(refresh))
      /\ Cardinality(Y(login) \cup Y(refresh)) <= Cardinality(Y(login)) + Cardinality(Y(refresh))
      /\ Cardinality(Y(login) \cup Y(refresh)) \in Nat
  BY <1>2, Unions
<1>8. abandoned \in Nat
  BY DEF Base, Typed
<1>9. /\ Cardinality(X(login)) + Cardinality(Y(login)) = IF login = Free THEN 0 ELSE 1
      /\ Cardinality(X(refresh)) + Cardinality(Y(refresh)) = IF refresh = Free THEN 0 ELSE 1
      /\ Cardinality(X(login)) \in Nat /\ Cardinality(Y(login)) \in Nat
      /\ Cardinality(X(refresh)) \in Nat /\ Cardinality(Y(refresh)) \in Nat
  BY <1>2
<1>10. /\ abandoned + Cardinality(X(login) \cup X(refresh)) + Cardinality(Y(login) \cup Y(refresh)) <= abandoned'
       /\ abandoned' \in Nat
  <2> DEFINE dl == IF login = Free THEN 0 ELSE 1  dr == IF refresh = Free THEN 0 ELSE 1
  <2>1. dl \in Nat /\ dr \in Nat /\ abandoned' = abandoned + dl + dr
    BY <1>1
  <2>2. /\ Cardinality(X(login)) + Cardinality(Y(login)) = dl
        /\ Cardinality(X(refresh)) + Cardinality(Y(refresh)) = dr
    BY <1>9
  <2> HIDE DEF dl, dr
  <2>3. QED
    BY <1>6, <1>7, <1>8, <1>9, <2>1, <2>2
<1>11. QED
  BY <1>3, <1>4, <1>5, <1>6, <1>7, <1>10, LedgerKeeps

LEMMA AccountedStep ==
    ASSUME Base, Accounted, [Next]_vars
    PROVE  Accounted'
<1>1. CASE Gentle
  <2>1. Live' = Live /\ Drops
    BY <1>1 DEF Gentle, Live, Drops
  <2>2. abandoned' \in Nat /\ abandoned <= abandoned'
    BY <1>1 DEF Gentle, Base, Typed
  <2>3. Nobody' \subseteq Nobody
    BY <1>1 DEF Gentle, Aside, Nobody
  <2>4. \A u \in Tokens : Elsewhere(u)' => Elsewhere(u) \/ u = app'.refresh
    BY <1>1 DEF Gentle, Aside, Elsewhere, Granted, Unread, Arriving, Coding
  <2>5. InFlight' => InFlight
    BY <1>1, <2>1, Served DEF Gentle, Aside, InFlight
  <2>6. QED
    BY <2>1, <2>2, <2>3, <2>4, <2>5, LedgerStays
<1>2. ASSUME NEW h \in Handlers, ReadRefresh(h)
      PROVE  Accounted'
  <2>1. Live' = Live /\ Drops
    BY <1>2, ReadRefreshDoes, Served, FreeWait, IdleJob, Bounds DEF Live, Drops, redis, phone,
       tally, Quiet, Others, Replies, Moves, Turns, Done, Coding, Working
  <2>2. abandoned' \in Nat /\ abandoned <= abandoned'
    BY <1>2, ReadRefreshDoes DEF Base, Typed, tally, Quiet
  <2>3. Nobody' \subseteq Nobody
    BY <1>2, ReadRefreshDoes, Served, FreeWait, IdleJob, Bounds DEF Nobody, Others, Replies,
       Moves, Turns, Done, Coding, Working
  <2>4. \A u \in Tokens : Elsewhere(u)' => Elsewhere(u) \/ u = app'.refresh
    BY <1>2, ReadRefreshDoes, Served, FreeWait, IdleJob, Bounds DEF Elsewhere, Granted, Unread,
       Arriving, phone, Quiet, Others, Replies, Moves, Turns, Done, Coding, Working
  <2>5. InFlight' => InFlight
    <3>1. /\ Others(h) /\ UNCHANGED <<refresh, token>>
          /\ handler[h].at = "read" /\ handler[h].t \in Tokens
          /\ handler'[h].at \notin {"access", "refresh", "issue", "ok", "rotate"}
          /\ handler'[h].at = "lookup" => handler'[h].t = handler[h].t /\ token[handler[h].t].at =
             "live"
      BY <1>2, ReadRefreshDoes, IdleJob DEF Replies, Turns, Quiet, redis, phone, Born
    <3>2. QED
      BY <2>1, <3>1, Served DEF InFlight, Others, Live
  <2>6. QED
    BY <2>1, <2>2, <2>3, <2>4, <2>5, LedgerStays
<1>3. ASSUME NEW h \in Handlers, LookupUser(h)
      PROVE  Accounted'
  <2>1. Live' = Live /\ Drops
    BY <1>3, LookupUserDoes, Served, FreeWait, IdleJob, Bounds DEF Live, Drops, redis, phone,
       tally, Quiet, Others, Replies, Moves, Turns, Done, Coding, Working
  <2>2. abandoned' \in Nat /\ abandoned <= abandoned'
    BY <1>3, LookupUserDoes DEF Base, Typed, tally, Quiet
  <2>3. Nobody' \subseteq Nobody
    BY <1>3, LookupUserDoes, Served, FreeWait, IdleJob, Bounds DEF Nobody, Others, Replies,
       Moves, Turns, Done, Coding, Working
  <2>4. \A u \in Tokens : Elsewhere(u)' => Elsewhere(u) \/ u = app'.refresh
    BY <1>3, LookupUserDoes, Served, FreeWait, IdleJob, Bounds DEF Elsewhere, Granted, Unread,
       Arriving, phone, Quiet, Others, Replies, Moves, Turns, Done, Coding, Working
  <2>5. InFlight' => InFlight
    BY <2>1, <1>3, LookupUserDoes, Served, FreeWait, IdleJob, Bounds DEF InFlight, phone, Quiet,
       Others, Replies, Moves, Turns, Done, Coding, Working
  <2>6. QED
    BY <2>1, <2>2, <2>3, <2>4, <2>5, LedgerStays
<1>4. ASSUME NEW h \in Handlers, Rotate(h)
      PROVE  Accounted'
  <2>1. /\ Moves(h, "issue") /\ handler[h].at = "rotate" /\ handler[h].t \in Tokens
        /\ UNCHANGED <<app, login, refresh, abandoned, discarded>>
        /\ Live' = Live \ {handler[h].t}
    BY <1>4, RotateDoes DEF Untouched, Live, Born, phone, tally
  <2>2. Nobody' \subseteq Nobody
    BY <2>1 DEF Nobody, Moves, Turns, Others
  <2>3. \A t \in Tokens : Elsewhere(t)' => Elsewhere(t)
    BY <2>1 DEF Elsewhere, Granted, Unread, Arriving, Moves, Turns, Others
  <2>4. InFlight' => \/ InFlight
                     \/ /\ refresh.at = "sent" /\ handler[refresh.h].at \in {"lookup", "rotate"}
                        /\ handler[refresh.h].t \in Live \ Live'
    BY <2>1, Served DEF InFlight, Moves, Turns, Others
  <2>5. QED
    BY <2>1, <2>2, <2>3, <2>4, LedgerDies
<1>5. ASSUME NEW h \in Handlers, IssueTokens(h)
      PROVE  Accounted'
  BY <1>5, IssueTokensLedger
<1>6. ASSUME NEW h \in Handlers, ReadMembers(h)
      PROVE  Accounted'
  <2>1. Live' = Live /\ Drops
    BY <1>6, ReadMembersDoes, Served, FreeWait, IdleJob, Bounds DEF Live, Drops, redis, phone,
       tally, Quiet, Others, Replies, Moves, Turns, Done, Coding, Working
  <2>2. abandoned' \in Nat /\ abandoned <= abandoned'
    BY <1>6, ReadMembersDoes DEF Base, Typed, tally, Quiet
  <2>3. Nobody' \subseteq Nobody
    BY <1>6, ReadMembersDoes, Served, FreeWait, IdleJob, Bounds DEF Nobody, Others, Replies,
       Moves, Turns, Done, Coding, Working
  <2>4. \A u \in Tokens : Elsewhere(u)' => Elsewhere(u) \/ u = app'.refresh
    BY <1>6, ReadMembersDoes, Served, FreeWait, IdleJob, Bounds DEF Elsewhere, Granted, Unread,
       Arriving, phone, Quiet, Others, Replies, Moves, Turns, Done, Coding, Working
  <2>5. InFlight' => InFlight
    BY <2>1, <1>6, ReadMembersDoes, Served, FreeWait, IdleJob, Bounds DEF InFlight, phone, Quiet,
       Others, Replies, Moves, Turns, Done, Coding, Working
  <2>6. QED
    BY <2>1, <2>2, <2>3, <2>4, <2>5, LedgerStays
<1>7. ASSUME NEW h \in Handlers, RevokeFamily(h)
      PROVE  Accounted'
  <2>1. /\ Replies(h, "refused", None) /\ handler[h].at = "revoke"
        /\ UNCHANGED <<app, login, refresh, abandoned, discarded>>
        /\ Live' \subseteq Live
    BY <1>7, RevokeFamilyDoes DEF Revokes, Live, phone, tally
  <2>2. Nobody' \subseteq Nobody
    BY <2>1, IdleJob DEF Nobody, Replies, Others
  <2>3. \A t \in Tokens : Elsewhere(t)' => Elsewhere(t)
    BY <2>1, IdleJob DEF Elsewhere, Granted, Unread, Arriving, Replies, Others
  <2>4. InFlight' => \/ InFlight
                     \/ /\ refresh.at = "sent" /\ handler[refresh.h].at \in {"lookup", "rotate"}
                        /\ handler[refresh.h].t \in Live \ Live'
    BY <2>1, Served, IdleJob DEF InFlight, Replies, Others
  <2>5. QED
    BY <2>1, <2>2, <2>3, <2>4, LedgerDies
<1>8. ASSUME NEW h \in Handlers, ServerError(h)
      PROVE  Accounted'
  <2>1. Live' = Live /\ Drops
    BY <1>8, ServerErrorDoes, Served, FreeWait, IdleJob, Bounds DEF Live, Drops, redis, phone,
       tally, Quiet, Others, Replies, Moves, Turns, Done, Coding, Working
  <2>2. abandoned' \in Nat /\ abandoned <= abandoned'
    BY <1>8, ServerErrorDoes DEF Base, Typed, tally, Quiet
  <2>3. Nobody' \subseteq Nobody
    BY <1>8, ServerErrorDoes, Served, FreeWait, IdleJob, Bounds DEF Nobody, Others, Replies,
       Moves, Turns, Done, Coding, Working
  <2>4. \A u \in Tokens : Elsewhere(u)' => Elsewhere(u) \/ u = app'.refresh
    BY <1>8, ServerErrorDoes, Served, FreeWait, IdleJob, Bounds DEF Elsewhere, Granted, Unread,
       Arriving, phone, Quiet, Others, Replies, Moves, Turns, Done, Coding, Working
  <2>5. InFlight' => InFlight
    BY <2>1, <1>8, ServerErrorDoes, Served, FreeWait, IdleJob, Bounds DEF InFlight, phone, Quiet,
       Others, Replies, Moves, Turns, Done, Coding, Working
  <2>6. QED
    BY <2>1, <2>2, <2>3, <2>4, <2>5, LedgerStays
<1>9. ASSUME NEW h \in Handlers, SignInTimesOut(h)
      PROVE  Accounted'
  <2> DEFINE x == IF handler[login.h].at \in Done THEN handler[login.h].t ELSE login.h
  <2>1. Live' = Live /\ Drops /\ abandoned' = abandoned + 1
    BY <1>9, SignInTimesOutDoes, Served, FreeWait, IdleJob, Bounds DEF Live, Drops, redis, phone,
       tally, Quiet, Forsakes, LeftAlone, Others, Done, Fails, Ends, SignsOut, Enters
  <2>2. \/ /\ Nobody' \subseteq Nobody
           /\ \A u \in Tokens : Elsewhere(u)' => Elsewhere(u) \/ u = x \/ u = app'.refresh
        \/ /\ Nobody' \subseteq Nobody \cup {x}
           /\ \A u \in Tokens : Elsewhere(u)' => Elsewhere(u) \/ u = app'.refresh
    <3>1. CASE handler[login.h].at \in Done
      <4>1. Nobody' \subseteq Nobody
        BY <3>1, <1>9, SignInTimesOutDoes, Served, FreeWait, IdleJob, Bounds DEF Nobody,
           Forsakes, LeftAlone, Others, Done, Fails, Ends, SignsOut, Enters
      <4>2. \A t \in Tokens : Elsewhere(t)' => Elsewhere(t) \/ t = handler[login.h].t
        BY <3>1, <1>9, SignInTimesOutDoes, Served, FreeWait, IdleJob, Bounds DEF Elsewhere,
           Granted, Unread, Arriving, Forsakes, LeftAlone, Others, Done, Fails, Ends, SignsOut,
           Enters
      <4>3. QED
        BY <3>1, <4>1, <4>2
    <3>2. CASE handler[login.h].at \notin Done
      <4>1. Nobody' \subseteq Nobody \cup {login.h}
        BY <3>2, <1>9, SignInTimesOutDoes, Served, FreeWait, IdleJob, Bounds DEF Nobody,
           Forsakes, LeftAlone, Others, Done, Fails, Ends, SignsOut, Enters
      <4>2. \A t \in Tokens : Elsewhere(t)' => Elsewhere(t)
        BY <3>2, <1>9, SignInTimesOutDoes, Served, FreeWait, IdleJob, Bounds DEF Elsewhere,
           Granted, Unread, Arriving, Forsakes, LeftAlone, Others, Done, Fails, Ends, SignsOut,
           Enters
      <4>3. QED
        BY <3>2, <4>1, <4>2
    <3>3. QED
      BY <3>1, <3>2
  <2>3. InFlight' => InFlight
    BY <2>1, <1>9, SignInTimesOutDoes, Served, FreeWait, IdleJob, Bounds DEF InFlight, phone,
       Quiet, Forsakes, LeftAlone, Others, Done, Fails, Ends, SignsOut, Enters
  <2> HIDE DEF x
  <2>4. QED
    BY <2>1, <2>2, <2>3, LedgerUnused
<1>10. ASSUME NEW h \in Handlers, StartRefresh(h)
      PROVE  Accounted'
  <2>1. Live' = Live /\ Drops
    BY <1>10, StartRefreshDoes, Served, FreeWait, IdleJob, Bounds DEF Live, Drops, redis, phone,
       tally, Quiet, Starts, Others, Coding
  <2>2. abandoned' \in Nat /\ abandoned <= abandoned'
    BY <1>10, StartRefreshDoes DEF Base, Typed, tally, Quiet
  <2>3. Nobody' \subseteq Nobody
    BY <1>10, StartRefreshDoes, Served, FreeWait, IdleJob, Bounds DEF Nobody, Starts, Others, Coding
  <2>4. \A u \in Tokens : Elsewhere(u)' => Elsewhere(u) \/ u = app'.refresh
    BY <1>10, StartRefreshDoes, Served, FreeWait, IdleJob, Bounds DEF Elsewhere, Granted, Unread,
       Arriving, phone, Quiet, Starts, Others, Coding
  <2>5. InFlight' => InFlight
    BY <2>1, <1>10, StartRefreshDoes, Served, FreeWait, IdleJob, Bounds DEF InFlight, phone,
       Quiet, Starts, Others, Coding
  <2>6. QED
    BY <2>1, <2>2, <2>3, <2>4, <2>5, LedgerStays
<1>11. ASSUME SignInAnswered
      PROVE  Accounted'
  <2>1. Live' = Live /\ Drops
    BY <1>11, SignInAnsweredDoes, Served, FreeWait, IdleJob, Bounds DEF Live, Drops, redis, phone,
       tally, Quiet, Heard, Others, Done, Joins, Fails, Ends, SignsOut, Enters
  <2>2. abandoned' \in Nat /\ abandoned <= abandoned'
    BY <1>11, SignInAnsweredDoes DEF Base, Typed, tally, Quiet
  <2>3. Nobody' \subseteq Nobody
    BY <1>11, SignInAnsweredDoes, Served, FreeWait, IdleJob, Bounds DEF Nobody, Heard, Others,
       Done, Joins, Fails, Ends, SignsOut, Enters
  <2>4. \A u \in Tokens : Elsewhere(u)' => Elsewhere(u) \/ u = app'.refresh
    BY <1>11, SignInAnsweredDoes, Served, FreeWait, IdleJob, Bounds DEF Elsewhere, Granted,
       Unread, Arriving, phone, Quiet, Heard, Others, Done, Joins, Fails, Ends, SignsOut, Enters
  <2>5. InFlight' => InFlight
    BY <2>1, <1>11, SignInAnsweredDoes, Served, FreeWait, IdleJob, Bounds DEF InFlight, phone,
       Quiet, Heard, Others, Done, Joins, Fails, Ends, SignsOut, Enters
  <2>6. QED
    BY <2>1, <2>2, <2>3, <2>4, <2>5, LedgerStays
<1>12. ASSUME SaveSignIn
      PROVE  Accounted'
  <2>1. Live' = Live /\ Drops
    BY <1>12, SaveSignInDoes, Served, FreeWait, IdleJob, Bounds DEF Live, Drops, redis, phone,
       tally, Quiet, Over, Joins, Sends, Fails, Ends, SignsOut, Enters
  <2>2. abandoned' \in Nat /\ abandoned <= abandoned'
    BY <1>12, SaveSignInDoes DEF Base, Typed, tally, Quiet
  <2>3. Nobody' \subseteq Nobody
    BY <1>12, SaveSignInDoes, Served, FreeWait, IdleJob, Bounds DEF Nobody, Over, Joins, Sends,
       Fails, Ends, SignsOut, Enters
  <2>4. \A u \in Tokens : Elsewhere(u)' => Elsewhere(u) \/ u = app'.refresh
    BY <1>12, SaveSignInDoes, Served, FreeWait, IdleJob, Bounds DEF Elsewhere, Granted, Unread,
       Arriving, phone, Quiet, Over, Joins, Sends, Fails, Ends, SignsOut, Enters
  <2>5. InFlight' => InFlight
    BY <2>1, <1>12, SaveSignInDoes, Served, FreeWait, IdleJob, Bounds DEF InFlight, phone, Quiet,
       Over, Joins, Sends, Fails, Ends, SignsOut, Enters
  <2>6. QED
    BY <2>1, <2>2, <2>3, <2>4, <2>5, LedgerStays
<1>13. ASSUME SaveFails
      PROVE  Accounted'
  <2> DEFINE x == IF refresh.at \in {"access", "refresh"} /\ refresh' = Free THEN refresh.t ELSE
     login.t
  <2>1. Live' = Live /\ Drops /\ abandoned' = abandoned + 1
    BY <1>13, SaveFailsDoes, Served, FreeWait, IdleJob, Bounds DEF Live, Drops, redis, phone,
       tally, Quiet, Over, Joins, Sends, Fails, Ends, SignsOut, Enters
  <2>2. \/ /\ Nobody' \subseteq Nobody
           /\ \A u \in Tokens : Elsewhere(u)' => Elsewhere(u) \/ u = x \/ u = app'.refresh
        \/ /\ Nobody' \subseteq Nobody \cup {x}
           /\ \A u \in Tokens : Elsewhere(u)' => Elsewhere(u) \/ u = app'.refresh
    <3>1. Nobody' \subseteq Nobody
      BY <1>13, SaveFailsDoes, Served, FreeWait, IdleJob, Bounds DEF Nobody
    <3>2. \A t \in Tokens : Elsewhere(t)' => Elsewhere(t) \/ t = x
      BY <1>13, SaveFailsDoes, Served, FreeWait, IdleJob, Bounds DEF Elsewhere, Granted, Unread,
         Arriving, Over, Joins, Sends, Fails, Ends, SignsOut, Enters
    <3>3. QED
      BY <3>1, <3>2
  <2>3. InFlight' => InFlight
    BY <2>1, <1>13, SaveFailsDoes, Served, FreeWait, IdleJob, Bounds DEF InFlight, phone, Quiet,
       Over, Joins, Sends, Fails, Ends, SignsOut, Enters
  <2> HIDE DEF x
  <2>4. QED
    BY <2>1, <2>2, <2>3, LedgerUnused
<1>14. ASSUME NEW c \in Calls, Answered(c)
      PROVE  Accounted'
  <2>1. Live' = Live /\ Drops
    BY <1>14, AnsweredDoes, Served, FreeWait, IdleJob, Bounds DEF Live, Drops, redis, phone,
       tally, Quiet, Over, Joins, Sends, Fails, Ends, SignsOut, Enters
  <2>2. abandoned' \in Nat /\ abandoned <= abandoned'
    BY <1>14, AnsweredDoes DEF Base, Typed, tally, Quiet
  <2>3. Nobody' \subseteq Nobody
    BY <1>14, AnsweredDoes, Served, FreeWait, IdleJob, Bounds DEF Nobody, Over, Joins, Sends,
       Fails, Ends, SignsOut, Enters
  <2>4. \A u \in Tokens : Elsewhere(u)' => Elsewhere(u) \/ u = app'.refresh
    BY <1>14, AnsweredDoes, Served, FreeWait, IdleJob, Bounds DEF Elsewhere, Granted, Unread,
       Arriving, phone, Quiet, Over, Joins, Sends, Fails, Ends, SignsOut, Enters
  <2>5. InFlight' => InFlight
    BY <2>1, <1>14, AnsweredDoes, Served, FreeWait, IdleJob, Bounds DEF InFlight, phone, Quiet,
       Over, Joins, Sends, Fails, Ends, SignsOut, Enters
  <2>6. QED
    BY <2>1, <2>2, <2>3, <2>4, <2>5, LedgerStays
<1>15. ASSUME NEW c \in Calls, Unanswered(c)
      PROVE  Accounted'
  <2>1. Live' = Live /\ Drops
    BY <1>15, UnansweredDoes, Served, FreeWait, IdleJob, Bounds DEF Live, Drops, redis, phone,
       tally, Quiet, Over, Joins, Sends, Fails, Ends, SignsOut, Enters
  <2>2. abandoned' \in Nat /\ abandoned <= abandoned'
    BY <1>15, UnansweredDoes DEF Base, Typed, tally, Quiet
  <2>3. Nobody' \subseteq Nobody
    BY <1>15, UnansweredDoes, Served, FreeWait, IdleJob, Bounds DEF Nobody, Over, Joins, Sends,
       Fails, Ends, SignsOut, Enters
  <2>4. \A u \in Tokens : Elsewhere(u)' => Elsewhere(u) \/ u = app'.refresh
    BY <1>15, UnansweredDoes, Served, FreeWait, IdleJob, Bounds DEF Elsewhere, Granted, Unread,
       Arriving, phone, Quiet, Over, Joins, Sends, Fails, Ends, SignsOut, Enters
  <2>5. InFlight' => InFlight
    BY <2>1, <1>15, UnansweredDoes, Served, FreeWait, IdleJob, Bounds DEF InFlight, phone, Quiet,
       Over, Joins, Sends, Fails, Ends, SignsOut, Enters
  <2>6. QED
    BY <2>1, <2>2, <2>3, <2>4, <2>5, LedgerStays
<1>16. ASSUME NothingToRefresh
      PROVE  Accounted'
  <2>1. Live' = Live /\ Drops
    BY <1>16, NothingToRefreshDoes, Served, FreeWait, IdleJob, Bounds DEF Live, Drops, redis,
       phone, tally, Quiet, Over, Joins, Sends, Fails, Ends, SignsOut, Enters
  <2>2. abandoned' \in Nat /\ abandoned <= abandoned'
    BY <1>16, NothingToRefreshDoes DEF Base, Typed, tally, Quiet
  <2>3. Nobody' \subseteq Nobody
    BY <1>16, NothingToRefreshDoes, Served, FreeWait, IdleJob, Bounds DEF Nobody, Over, Joins,
       Sends, Fails, Ends, SignsOut, Enters
  <2>4. \A u \in Tokens : Elsewhere(u)' => Elsewhere(u) \/ u = app'.refresh
    BY <1>16, NothingToRefreshDoes, Served, FreeWait, IdleJob, Bounds DEF Elsewhere, Granted,
       Unread, Arriving, phone, Quiet, Over, Joins, Sends, Fails, Ends, SignsOut, Enters
  <2>5. InFlight' => InFlight
    BY <2>1, <1>16, NothingToRefreshDoes, Served, FreeWait, IdleJob, Bounds DEF InFlight, phone,
       Quiet, Over, Joins, Sends, Fails, Ends, SignsOut, Enters
  <2>6. QED
    BY <2>1, <2>2, <2>3, <2>4, <2>5, LedgerStays
<1>17. ASSUME RefreshRefused
      PROVE  Accounted'
  <2>1. Live' = Live /\ Drops
    BY <1>17, RefreshRefusedDoes, Served, FreeWait, IdleJob, Bounds DEF Live, Drops, redis, phone,
       tally, Quiet, Heard, Others, Done, Joins, Fails, Ends, SignsOut, Enters
  <2>2. abandoned' \in Nat /\ abandoned <= abandoned'
    BY <1>17, RefreshRefusedDoes DEF Base, Typed, tally, Quiet
  <2>3. Nobody' \subseteq Nobody
    BY <1>17, RefreshRefusedDoes, Served, FreeWait, IdleJob, Bounds DEF Nobody, Heard, Others,
       Done, Joins, Fails, Ends, SignsOut, Enters
  <2>4. \A u \in Tokens : Elsewhere(u)' => Elsewhere(u) \/ u = app'.refresh
    BY <1>17, RefreshRefusedDoes, Served, FreeWait, IdleJob, Bounds DEF Elsewhere, Granted,
       Unread, Arriving, phone, Quiet, Heard, Others, Done, Joins, Fails, Ends, SignsOut, Enters
  <2>5. InFlight' => InFlight
    BY <2>1, <1>17, RefreshRefusedDoes, Served, FreeWait, IdleJob, Bounds DEF InFlight, phone,
       Quiet, Heard, Others, Done, Joins, Fails, Ends, SignsOut, Enters
  <2>6. QED
    BY <2>1, <2>2, <2>3, <2>4, <2>5, LedgerStays
<1>18. ASSUME RefreshGranted
      PROVE  Accounted'
  <2>1. Live' = Live /\ Drops
    BY <1>18, RefreshGrantedDoes, Served, FreeWait, IdleJob, Bounds DEF Live, Drops, redis, phone,
       tally, Quiet, Heard, Others, Done, Joins, Fails, Ends, SignsOut, Enters
  <2>2. abandoned' \in Nat /\ abandoned <= abandoned'
    BY <1>18, RefreshGrantedDoes DEF Base, Typed, tally, Quiet
  <2>3. Nobody' \subseteq Nobody
    BY <1>18, RefreshGrantedDoes, Served, FreeWait, IdleJob, Bounds DEF Nobody, Heard, Others,
       Done, Joins, Fails, Ends, SignsOut, Enters
  <2>4. \A u \in Tokens : Elsewhere(u)' => Elsewhere(u) \/ u = app'.refresh
    BY <1>18, RefreshGrantedDoes, Served, FreeWait, IdleJob, Bounds DEF Elsewhere, Granted,
       Unread, Arriving, phone, Quiet, Heard, Others, Done, Joins, Fails, Ends, SignsOut, Enters
  <2>5. InFlight' => InFlight
    BY <2>1, <1>18, RefreshGrantedDoes, Served, FreeWait, IdleJob, Bounds DEF InFlight, phone,
       Quiet, Heard, Others, Done, Joins, Fails, Ends, SignsOut, Enters
  <2>6. QED
    BY <2>1, <2>2, <2>3, <2>4, <2>5, LedgerStays
<1>19. ASSUME SaveRefreshed
      PROVE  Accounted'
  <2>1. CASE refresh.at = "access"
    <3>1. /\ Live' = Live /\ Drops /\ UNCHANGED <<handler, login, abandoned>>
          /\ refresh'.at = "refresh" /\ refresh'.t = refresh.t
      BY <1>19, <2>1, SaveRefreshedDoes DEF Live, Drops, redis, tally
    <3>2. Nobody' \subseteq Nobody /\ (InFlight' => InFlight)
      BY <2>1, <3>1 DEF Nobody, InFlight
    <3>3. \A t \in Tokens : Elsewhere(t)' => Elsewhere(t)
      BY <2>1, <3>1 DEF Elsewhere, Granted, Unread, Arriving
    <3>4. abandoned' \in Nat /\ abandoned <= abandoned'
      BY <3>1 DEF Base, Typed
    <3>5. QED
      BY <3>1, <3>2, <3>3, <3>4, LedgerStays
  <2>2. CASE refresh.at = "refresh"
    <3>1. /\ Live' = Live /\ app'.refresh = refresh.t /\ UNCHANGED <<handler, abandoned, discarded>>
          /\ refresh' = Free /\ Arriving(login)' = Arriving(login)
      BY <1>19, <2>2, SaveRefreshedDoes DEF Live, redis, tally, Arriving
    <3>2. \A t \in Tokens : t # app'.refresh /\ Elsewhere(t)' => Elsewhere(t)
      BY <2>2, <3>1 DEF Elsewhere, Granted, Unread, Arriving
    <3>3. Nobody' = Nobody /\ Risk' = 0
      BY <3>1, FreeWait DEF Nobody, Risk, InFlight
    <3>4. /\ IsFiniteSet(Lost) /\ Cardinality(Lost) \in Nat /\ Cardinality(Nobody) \in Nat
          /\ Risk \in {0, 1} /\ abandoned \in Nat /\ discarded \in Nat
      BY LostFinite DEF Base
    <3>5. CASE app.refresh \in Live
      <4>1. Risk = 1
        BY <2>2, <3>5 DEF Risk, InFlight
      <4>2. Lost' \subseteq Lost \cup {app.refresh}
        BY <3>1, <3>2 DEF Lost, Live
      <4>3. Cardinality(Lost') <= Cardinality(Lost) + 1 /\ Cardinality(Lost') \in Nat
        BY <3>4, <4>2, Grown
      <4>4. QED
        BY <3>1, <3>3, <3>4, <4>1, <4>3 DEF Accounted
    <3>6. CASE app.refresh \notin Live
      <4>1. Lost' \subseteq Lost
        BY <3>1, <3>2, <3>6 DEF Lost, Live
      <4>2. Cardinality(Lost') <= Cardinality(Lost) /\ Cardinality(Lost') \in Nat
        BY <3>4, <4>1, Part
      <4>3. QED
        BY <3>1, <3>3, <3>4, <4>2 DEF Accounted
    <3>7. QED
      BY <3>5, <3>6
  <2>3. QED
    BY <1>19, <2>1, <2>2, SaveRefreshedDoes
<1>20. ASSUME NEW result \in {"network", "401"}, RefreshLost(result)
      PROVE  Accounted'
  <2> DEFINE x == IF handler[refresh.h].at \in Done THEN handler[refresh.h].t ELSE refresh.h
  <2>1. Live' = Live /\ Drops /\ abandoned' = abandoned + 1
    BY <1>20, RefreshLostDoes, Served, FreeWait, IdleJob, Bounds DEF Live, Drops, redis, phone,
       tally, Quiet, Forsakes, LeftAlone, Others, Done, Fails, Ends, SignsOut, Enters
  <2>2. \/ /\ Nobody' \subseteq Nobody
           /\ \A u \in Tokens : Elsewhere(u)' => Elsewhere(u) \/ u = x \/ u = app'.refresh
        \/ /\ Nobody' \subseteq Nobody \cup {x}
           /\ \A u \in Tokens : Elsewhere(u)' => Elsewhere(u) \/ u = app'.refresh
    <3>1. CASE handler[refresh.h].at \in Done
      <4>1. Nobody' \subseteq Nobody
        BY <3>1, <1>20, RefreshLostDoes, Served, FreeWait, IdleJob, Bounds DEF Nobody, Forsakes,
           LeftAlone, Others, Done, Fails, Ends, SignsOut, Enters
      <4>2. \A t \in Tokens : Elsewhere(t)' => Elsewhere(t) \/ t = handler[refresh.h].t
        BY <3>1, <1>20, RefreshLostDoes, Served, FreeWait, IdleJob, Bounds DEF Elsewhere, Granted,
           Unread, Arriving, Forsakes, LeftAlone, Others, Done, Fails, Ends, SignsOut, Enters
      <4>3. QED
        BY <3>1, <4>1, <4>2
    <3>2. CASE handler[refresh.h].at \notin Done
      <4>1. Nobody' \subseteq Nobody \cup {refresh.h}
        BY <3>2, <1>20, RefreshLostDoes, Served, FreeWait, IdleJob, Bounds DEF Nobody, Forsakes,
           LeftAlone, Others, Done, Fails, Ends, SignsOut, Enters
      <4>2. \A t \in Tokens : Elsewhere(t)' => Elsewhere(t)
        BY <3>2, <1>20, RefreshLostDoes, Served, FreeWait, IdleJob, Bounds DEF Elsewhere, Granted,
           Unread, Arriving, Forsakes, LeftAlone, Others, Done, Fails, Ends, SignsOut, Enters
      <4>3. QED
        BY <3>2, <4>1, <4>2
    <3>3. QED
      BY <3>1, <3>2
  <2>3. InFlight' => InFlight
    BY <2>1, <1>20, RefreshLostDoes, Served, FreeWait, IdleJob, Bounds DEF InFlight, phone, Quiet,
       Forsakes, LeftAlone, Others, Done, Fails, Ends, SignsOut, Enters
  <2> HIDE DEF x
  <2>4. QED
    BY <2>1, <2>2, <2>3, LedgerUnused
<1>21. ASSUME Launch
      PROVE  Accounted'
  BY <1>21, LaunchLedger
<1>22. QED
  BY <1>1, <1>2, <1>3, <1>4, <1>5, <1>6, <1>7, <1>8, <1>9, <1>10, <1>11, <1>12, <1>13, <1>14,
     <1>15, <1>16, <1>17, <1>18, <1>19, <1>20, <1>21, NextPairs

-----------------------------------------------------------------------------
(* The token in the keystore *)

LEMMA DevicesKept ==
    ASSUME Base, Devices, launches' = launches, app'.device = app.device,
           \A h \in Handlers : handler'[h].device \in {handler[h].device, None, app.device},
           \A t \in Tokens : \/ token'[t].device = token[t].device
                             \/ \E h \in Handlers : token'[t].device = handler[h].device
    PROVE  Devices'
<1>1. launches + 1 \in Nat /\ None <= launches + 1
  BY DEF Base, Typed, None
<1>2. QED
  BY <1>1 DEF Devices

LEMMA DevicesStep ==
    ASSUME Base, Devices, [Next]_vars
    PROVE  Devices'
<1>1. CASE Gentle
  BY <1>1, DevicesKept DEF Gentle, Aside
<1>2. ASSUME NEW h \in Handlers, ReadRefresh(h)
      PROVE  Devices'
  <2>1. launches' = launches /\ app'.device = app.device
    BY <1>2, ReadRefreshDoes, IdleJob DEF redis, phone, tally, Quiet, Others, Replies, Moves,
       Turns, Done, Coding, Working
  <2>2. \A k \in Handlers : handler'[k].device \in {handler[k].device, None, app.device}
    BY <1>2, ReadRefreshDoes, IdleJob DEF phone, Quiet, None, Others, Replies, Moves, Turns,
       Done, Coding, Working
  <2>3. \A u \in Tokens : token'[u].device = token[u].device
    BY <1>2, ReadRefreshDoes, IdleJob DEF redis, Quiet
  <2>4. QED
    BY <2>1, <2>2, <2>3, DevicesKept
<1>3. ASSUME NEW h \in Handlers, LookupUser(h)
      PROVE  Devices'
  <2>1. launches' = launches /\ app'.device = app.device
    BY <1>3, LookupUserDoes, IdleJob DEF redis, phone, tally, Quiet, Others, Replies, Moves,
       Turns, Done, Coding, Working
  <2>2. \A k \in Handlers : handler'[k].device \in {handler[k].device, None, app.device}
    BY <1>3, LookupUserDoes, IdleJob DEF phone, Quiet, None, Others, Replies, Moves, Turns, Done,
       Coding, Working
  <2>3. \A u \in Tokens : token'[u].device = token[u].device
    BY <1>3, LookupUserDoes, IdleJob DEF redis, Quiet
  <2>4. QED
    BY <2>1, <2>2, <2>3, DevicesKept
<1>4. ASSUME NEW h \in Handlers, Rotate(h)
      PROVE  Devices'
  BY <1>4, RotateDoes, DevicesKept DEF phone, tally, Moves, Turns, Others, Untouched, Born
<1>5. ASSUME NEW h \in Handlers, IssueTokens(h)
      PROVE  Devices'
  <2>1. PICK t \in Tokens, f \in Tokens : Issues(h, t, f)
    BY <1>5, IssueTokensDoes
  <2>2. \A u \in Tokens : token'[u].device = token[u].device \/ token'[u].device = handler[h].device
    BY <2>1 DEF Issues, Untouched
  <2>3. /\ \A k \in Handlers : handler'[k].device \in {handler[k].device, None, app.device}
        /\ launches' = launches /\ app'.device = app.device
    BY <1>5, <2>1, IssueTokensDoes, IdleJob DEF Issues, phone, Replies, Others, None
  <2>4. QED
    BY <2>2, <2>3, DevicesKept
<1>6. ASSUME NEW h \in Handlers, ReadMembers(h)
      PROVE  Devices'
  <2>1. launches' = launches /\ app'.device = app.device
    BY <1>6, ReadMembersDoes, IdleJob DEF redis, phone, tally, Quiet, Others, Replies, Moves,
       Turns, Done, Coding, Working
  <2>2. \A k \in Handlers : handler'[k].device \in {handler[k].device, None, app.device}
    BY <1>6, ReadMembersDoes, IdleJob DEF phone, Quiet, None, Others, Replies, Moves, Turns,
       Done, Coding, Working
  <2>3. \A u \in Tokens : token'[u].device = token[u].device
    BY <1>6, ReadMembersDoes, IdleJob DEF redis, Quiet
  <2>4. QED
    BY <2>1, <2>2, <2>3, DevicesKept
<1>7. ASSUME NEW h \in Handlers, RevokeFamily(h)
      PROVE  Devices'
  BY <1>7, RevokeFamilyDoes, IdleJob, DevicesKept DEF phone, tally, Replies, Others, Revokes, None
<1>8. ASSUME NEW h \in Handlers, ServerError(h)
      PROVE  Devices'
  <2>1. launches' = launches /\ app'.device = app.device
    BY <1>8, ServerErrorDoes, IdleJob DEF redis, phone, tally, Quiet, Others, Replies, Moves,
       Turns, Done, Coding, Working
  <2>2. \A k \in Handlers : handler'[k].device \in {handler[k].device, None, app.device}
    BY <1>8, ServerErrorDoes, IdleJob DEF phone, Quiet, None, Others, Replies, Moves, Turns,
       Done, Coding, Working
  <2>3. \A u \in Tokens : token'[u].device = token[u].device
    BY <1>8, ServerErrorDoes, IdleJob DEF redis, Quiet
  <2>4. QED
    BY <2>1, <2>2, <2>3, DevicesKept
<1>9. ASSUME NEW h \in Handlers, SignInTimesOut(h)
      PROVE  Devices'
  <2>1. launches' = launches /\ app'.device = app.device
    BY <1>9, SignInTimesOutDoes, IdleJob DEF redis, phone, tally, Quiet, Forsakes, LeftAlone,
       Others, Done, Fails, Ends, SignsOut, Enters
  <2>2. \A k \in Handlers : handler'[k].device \in {handler[k].device, None, app.device}
    BY <1>9, SignInTimesOutDoes, IdleJob DEF phone, Quiet, None, Forsakes, LeftAlone, Others,
       Done, Fails, Ends, SignsOut, Enters
  <2>3. \A u \in Tokens : token'[u].device = token[u].device
    BY <1>9, SignInTimesOutDoes, IdleJob DEF redis, Quiet
  <2>4. QED
    BY <2>1, <2>2, <2>3, DevicesKept
<1>10. ASSUME NEW h \in Handlers, StartRefresh(h)
      PROVE  Devices'
  <2>1. launches' = launches /\ app'.device = app.device
    BY <1>10, StartRefreshDoes, IdleJob DEF redis, phone, tally, Quiet, Starts, Others, Coding
  <2>2. \A k \in Handlers : handler'[k].device \in {handler[k].device, None, app.device}
    BY <1>10, StartRefreshDoes, IdleJob DEF phone, Quiet, None, Starts, Others, Coding
  <2>3. \A u \in Tokens : token'[u].device = token[u].device
    BY <1>10, StartRefreshDoes, IdleJob DEF redis, Quiet
  <2>4. QED
    BY <2>1, <2>2, <2>3, DevicesKept
<1>11. ASSUME SignInAnswered
      PROVE  Devices'
  <2>1. launches' = launches /\ app'.device = app.device
    BY <1>11, SignInAnsweredDoes, IdleJob DEF redis, phone, tally, Quiet, Heard, Others, Done,
       Joins, Fails, Ends, SignsOut, Enters
  <2>2. \A k \in Handlers : handler'[k].device \in {handler[k].device, None, app.device}
    BY <1>11, SignInAnsweredDoes, IdleJob DEF phone, Quiet, None, Heard, Others, Done, Joins,
       Fails, Ends, SignsOut, Enters
  <2>3. \A u \in Tokens : token'[u].device = token[u].device
    BY <1>11, SignInAnsweredDoes, IdleJob DEF redis, Quiet
  <2>4. QED
    BY <2>1, <2>2, <2>3, DevicesKept
<1>12. ASSUME SaveSignIn
      PROVE  Devices'
  <2>1. launches' = launches /\ app'.device = app.device
    BY <1>12, SaveSignInDoes, IdleJob DEF redis, phone, tally, Quiet, Over, Joins, Sends, Fails,
       Ends, SignsOut, Enters
  <2>2. \A k \in Handlers : handler'[k].device \in {handler[k].device, None, app.device}
    BY <1>12, SaveSignInDoes, IdleJob DEF phone, Quiet, None, Over, Joins, Sends, Fails, Ends,
       SignsOut, Enters
  <2>3. \A u \in Tokens : token'[u].device = token[u].device
    BY <1>12, SaveSignInDoes, IdleJob DEF redis, Quiet
  <2>4. QED
    BY <2>1, <2>2, <2>3, DevicesKept
<1>13. ASSUME SaveFails
      PROVE  Devices'
  <2>1. launches' = launches /\ app'.device = app.device
    BY <1>13, SaveFailsDoes, IdleJob DEF redis, phone, tally, Quiet, Over, Joins, Sends, Fails,
       Ends, SignsOut, Enters
  <2>2. \A k \in Handlers : handler'[k].device \in {handler[k].device, None, app.device}
    BY <1>13, SaveFailsDoes, IdleJob DEF phone, Quiet, None, Over, Joins, Sends, Fails, Ends,
       SignsOut, Enters
  <2>3. \A u \in Tokens : token'[u].device = token[u].device
    BY <1>13, SaveFailsDoes, IdleJob DEF redis, Quiet
  <2>4. QED
    BY <2>1, <2>2, <2>3, DevicesKept
<1>14. ASSUME NEW c \in Calls, Answered(c)
      PROVE  Devices'
  <2>1. launches' = launches /\ app'.device = app.device
    BY <1>14, AnsweredDoes, IdleJob DEF redis, phone, tally, Quiet, Over, Joins, Sends, Fails,
       Ends, SignsOut, Enters
  <2>2. \A k \in Handlers : handler'[k].device \in {handler[k].device, None, app.device}
    BY <1>14, AnsweredDoes, IdleJob DEF phone, Quiet, None, Over, Joins, Sends, Fails, Ends,
       SignsOut, Enters
  <2>3. \A u \in Tokens : token'[u].device = token[u].device
    BY <1>14, AnsweredDoes, IdleJob DEF redis, Quiet
  <2>4. QED
    BY <2>1, <2>2, <2>3, DevicesKept
<1>15. ASSUME NEW c \in Calls, Unanswered(c)
      PROVE  Devices'
  <2>1. launches' = launches /\ app'.device = app.device
    BY <1>15, UnansweredDoes, IdleJob DEF redis, phone, tally, Quiet, Over, Joins, Sends, Fails,
       Ends, SignsOut, Enters
  <2>2. \A k \in Handlers : handler'[k].device \in {handler[k].device, None, app.device}
    BY <1>15, UnansweredDoes, IdleJob DEF phone, Quiet, None, Over, Joins, Sends, Fails, Ends,
       SignsOut, Enters
  <2>3. \A u \in Tokens : token'[u].device = token[u].device
    BY <1>15, UnansweredDoes, IdleJob DEF redis, Quiet
  <2>4. QED
    BY <2>1, <2>2, <2>3, DevicesKept
<1>16. ASSUME NothingToRefresh
      PROVE  Devices'
  <2>1. launches' = launches /\ app'.device = app.device
    BY <1>16, NothingToRefreshDoes, IdleJob DEF redis, phone, tally, Quiet, Over, Joins, Sends,
       Fails, Ends, SignsOut, Enters
  <2>2. \A k \in Handlers : handler'[k].device \in {handler[k].device, None, app.device}
    BY <1>16, NothingToRefreshDoes, IdleJob DEF phone, Quiet, None, Over, Joins, Sends, Fails,
       Ends, SignsOut, Enters
  <2>3. \A u \in Tokens : token'[u].device = token[u].device
    BY <1>16, NothingToRefreshDoes, IdleJob DEF redis, Quiet
  <2>4. QED
    BY <2>1, <2>2, <2>3, DevicesKept
<1>17. ASSUME RefreshRefused
      PROVE  Devices'
  <2>1. launches' = launches /\ app'.device = app.device
    BY <1>17, RefreshRefusedDoes, IdleJob DEF redis, phone, tally, Quiet, Heard, Others, Done,
       Joins, Fails, Ends, SignsOut, Enters
  <2>2. \A k \in Handlers : handler'[k].device \in {handler[k].device, None, app.device}
    BY <1>17, RefreshRefusedDoes, IdleJob DEF phone, Quiet, None, Heard, Others, Done, Joins,
       Fails, Ends, SignsOut, Enters
  <2>3. \A u \in Tokens : token'[u].device = token[u].device
    BY <1>17, RefreshRefusedDoes, IdleJob DEF redis, Quiet
  <2>4. QED
    BY <2>1, <2>2, <2>3, DevicesKept
<1>18. ASSUME RefreshGranted
      PROVE  Devices'
  <2>1. launches' = launches /\ app'.device = app.device
    BY <1>18, RefreshGrantedDoes, IdleJob DEF redis, phone, tally, Quiet, Heard, Others, Done,
       Joins, Fails, Ends, SignsOut, Enters
  <2>2. \A k \in Handlers : handler'[k].device \in {handler[k].device, None, app.device}
    BY <1>18, RefreshGrantedDoes, IdleJob DEF phone, Quiet, None, Heard, Others, Done, Joins,
       Fails, Ends, SignsOut, Enters
  <2>3. \A u \in Tokens : token'[u].device = token[u].device
    BY <1>18, RefreshGrantedDoes, IdleJob DEF redis, Quiet
  <2>4. QED
    BY <2>1, <2>2, <2>3, DevicesKept
<1>19. ASSUME SaveRefreshed
      PROVE  Devices'
  <2>1. launches' = launches /\ app'.device = app.device
    BY <1>19, SaveRefreshedDoes, IdleJob DEF redis, phone, tally, Quiet, Over, Joins, Sends,
       Fails, Ends, SignsOut, Enters
  <2>2. \A k \in Handlers : handler'[k].device \in {handler[k].device, None, app.device}
    BY <1>19, SaveRefreshedDoes, IdleJob DEF phone, Quiet, None, Over, Joins, Sends, Fails, Ends,
       SignsOut, Enters
  <2>3. \A u \in Tokens : token'[u].device = token[u].device
    BY <1>19, SaveRefreshedDoes, IdleJob DEF redis, Quiet
  <2>4. QED
    BY <2>1, <2>2, <2>3, DevicesKept
<1>20. ASSUME NEW result \in {"network", "401"}, RefreshLost(result)
      PROVE  Devices'
  <2>1. launches' = launches /\ app'.device = app.device
    BY <1>20, RefreshLostDoes, IdleJob DEF redis, phone, tally, Quiet, Forsakes, LeftAlone,
       Others, Done, Fails, Ends, SignsOut, Enters
  <2>2. \A k \in Handlers : handler'[k].device \in {handler[k].device, None, app.device}
    BY <1>20, RefreshLostDoes, IdleJob DEF phone, Quiet, None, Forsakes, LeftAlone, Others, Done,
       Fails, Ends, SignsOut, Enters
  <2>3. \A u \in Tokens : token'[u].device = token[u].device
    BY <1>20, RefreshLostDoes, IdleJob DEF redis, Quiet
  <2>4. QED
    BY <2>1, <2>2, <2>3, DevicesKept
<1>21. ASSUME Launch
      PROVE  Devices'
  <2>1. /\ launches' = launches + 1 /\ launches \in Nat /\ UNCHANGED token
        /\ app'.device \in {app.device, launches + 2}
        /\ \A h \in Handlers : LeftAlone(handler[h], handler'[h])
    BY <1>21, LaunchDoes DEF redis, Base, Typed
  <2>2. \A h \in Handlers : handler'[h].device \in {handler[h].device, None}
    BY <2>1, IdleJob DEF LeftAlone, None
  <2>3. \A h \in Handlers : handler'[h].device <= launches + 2
    <3>1. ASSUME NEW h \in Handlers
          PROVE  handler'[h].device <= launches + 2
      <4>1. handler[h].device \in Nat /\ handler[h].device <= launches + 1
        BY DEF Base, Typed, Job, Devices
      <4>2. QED
        BY <2>1, <2>2, <4>1 DEF None
    <3>2. QED
      BY <3>1
  <2>4. app'.device <= launches + 2
    <3>1. app.device \in Nat /\ app.device <= launches + 1
      BY DEF Base, Typed, AppRow, Devices
    <3>2. QED
      BY <2>1, <3>1
  <2>5. \A t \in Tokens : token[t].device <= launches + 2
    <3>1. ASSUME NEW t \in Tokens
          PROVE  token[t].device <= launches + 2
      <4>1. token[t].device \in Nat /\ token[t].device <= launches + 1
        BY DEF Base, Typed, TokenRow, Devices
      <4>2. QED
        BY <2>1, <4>1
    <3>2. QED
      BY <3>1
  <2>6. launches' + 1 = launches + 2
    BY <2>1
  <2>7. QED
    BY <2>1, <2>3, <2>4, <2>5, <2>6 DEF Devices
<1>22. QED
  BY <1>1, <1>2, <1>3, <1>4, <1>5, <1>6, <1>7, <1>8, <1>9, <1>10, <1>11, <1>12, <1>13, <1>14,
     <1>15, <1>16, <1>17, <1>18, <1>19, <1>20, <1>21, NextPairs

LEMMA SigningStep ==
    ASSUME Base, \A k \in Handlers : Signing(k), [Next]_vars
    PROVE  \A k \in Handlers : Signing(k)'
<1>1. CASE Gentle
  BY <1>1 DEF Gentle, Aside, Signing
<1>2. ASSUME NEW h \in Handlers, ReadRefresh(h)
      PROVE  \A k \in Handlers : Signing(k)'
  BY <1>2, ReadRefreshDoes, IdleJob DEF Signing, redis, phone, Quiet, Base, Families, JobFamily,
     Others, Replies, Moves, Turns, Done, Coding, Working
<1>3. ASSUME NEW h \in Handlers, LookupUser(h)
      PROVE  \A k \in Handlers : Signing(k)'
  BY <1>3, LookupUserDoes, IdleJob DEF Signing, redis, phone, Quiet, Base, Families, JobFamily,
     Others, Replies, Moves, Turns, Done, Coding, Working
<1>4. ASSUME NEW h \in Handlers, Rotate(h)
      PROVE  \A k \in Handlers : Signing(k)'
  BY <1>4, RotateDoes, IdleJob DEF Signing, redis, phone, Quiet, Base, Families, JobFamily,
     Others, Moves, Turns, Untouched
<1>5. ASSUME NEW h \in Handlers, IssueTokens(h)
      PROVE  \A k \in Handlers : Signing(k)'
  <2>1. PICK t \in Tokens, f \in Tokens : Issues(h, t, f)
    BY <1>5, IssueTokensDoes
  <2>2. QED
    BY <2>1, IdleJob DEF Issues, Signing, Replies, Others
<1>6. ASSUME NEW h \in Handlers, ReadMembers(h)
      PROVE  \A k \in Handlers : Signing(k)'
  BY <1>6, ReadMembersDoes, IdleJob DEF Signing, redis, phone, Quiet, Base, Families, JobFamily,
     Others, Replies, Moves, Turns, Done, Coding, Working
<1>7. ASSUME NEW h \in Handlers, RevokeFamily(h)
      PROVE  \A k \in Handlers : Signing(k)'
  BY <1>7, RevokeFamilyDoes, IdleJob DEF Signing, redis, phone, Quiet, Base, Families, JobFamily,
     Others, Replies, Done, Revokes
<1>8. ASSUME NEW h \in Handlers, ServerError(h)
      PROVE  \A k \in Handlers : Signing(k)'
  BY <1>8, ServerErrorDoes, IdleJob DEF Signing, redis, phone, Quiet, Base, Families, JobFamily,
     Others, Replies, Moves, Turns, Done, Coding, Working
<1>9. ASSUME NEW h \in Handlers, SignInTimesOut(h)
      PROVE  \A k \in Handlers : Signing(k)'
  BY <1>9, SignInTimesOutDoes, IdleJob DEF Signing, redis, phone, Quiet, Base, Families,
     JobFamily, Forsakes, LeftAlone, Others, Done, Fails, Ends, SignsOut, Enters
<1>10. ASSUME NEW h \in Handlers, StartRefresh(h)
      PROVE  \A k \in Handlers : Signing(k)'
  BY <1>10, StartRefreshDoes DEF Signing, Starts, Others
<1>11. ASSUME SignInAnswered
      PROVE  \A k \in Handlers : Signing(k)'
  BY <1>11, SignInAnsweredDoes, IdleJob DEF Signing, redis, phone, Quiet, Base, Families,
     JobFamily, Heard, Others, Done, Joins, Fails, Ends, SignsOut, Enters
<1>12. ASSUME SaveSignIn
      PROVE  \A k \in Handlers : Signing(k)'
  BY <1>12, SaveSignInDoes, IdleJob DEF Signing, redis, phone, Quiet, Base, Families, JobFamily,
     Over, Joins, Sends, Fails, Ends, SignsOut, Enters
<1>13. ASSUME SaveFails
      PROVE  \A k \in Handlers : Signing(k)'
  BY <1>13, SaveFailsDoes, IdleJob DEF Signing, redis, phone, Quiet, Base, Families, JobFamily,
     Over, Joins, Sends, Fails, Ends, SignsOut, Enters
<1>14. ASSUME NEW c \in Calls, Answered(c)
      PROVE  \A k \in Handlers : Signing(k)'
  BY <1>14, AnsweredDoes, IdleJob DEF Signing, redis, phone, Quiet, Base, Families, JobFamily,
     Over, Joins, Sends, Fails, Ends, SignsOut, Enters
<1>15. ASSUME NEW c \in Calls, Unanswered(c)
      PROVE  \A k \in Handlers : Signing(k)'
  BY <1>15, UnansweredDoes, IdleJob DEF Signing, redis, phone, Quiet, Base, Families, JobFamily,
     Over, Joins, Sends, Fails, Ends, SignsOut, Enters
<1>16. ASSUME NothingToRefresh
      PROVE  \A k \in Handlers : Signing(k)'
  BY <1>16, NothingToRefreshDoes, IdleJob DEF Signing, redis, phone, Quiet, Base, Families,
     JobFamily, Over, Joins, Sends, Fails, Ends, SignsOut, Enters
<1>17. ASSUME RefreshRefused
      PROVE  \A k \in Handlers : Signing(k)'
  BY <1>17, RefreshRefusedDoes, IdleJob DEF Signing, redis, phone, Quiet, Base, Families,
     JobFamily, Heard, Others, Done, Joins, Fails, Ends, SignsOut, Enters
<1>18. ASSUME RefreshGranted
      PROVE  \A k \in Handlers : Signing(k)'
  BY <1>18, RefreshGrantedDoes, IdleJob DEF Signing, redis, phone, Quiet, Base, Families,
     JobFamily, Heard, Others, Done, Joins, Fails, Ends, SignsOut, Enters
<1>19. ASSUME SaveRefreshed
      PROVE  \A k \in Handlers : Signing(k)'
  BY <1>19, SaveRefreshedDoes, IdleJob DEF Signing, redis, phone, Quiet, Base, Families,
     JobFamily, Over, Joins, Sends, Fails, Ends, SignsOut, Enters
<1>20. ASSUME NEW result \in {"network", "401"}, RefreshLost(result)
      PROVE  \A k \in Handlers : Signing(k)'
  BY <1>20, RefreshLostDoes, IdleJob DEF Signing, redis, phone, Quiet, Base, Families, JobFamily,
     Forsakes, LeftAlone, Others, Done, Fails, Ends, SignsOut, Enters
<1>21. ASSUME Launch
      PROVE  \A k \in Handlers : Signing(k)'
  BY <1>21, LaunchDoes, IdleJob DEF Signing, LeftAlone
<1>22. QED
  BY <1>1, <1>2, <1>3, <1>4, <1>5, <1>6, <1>7, <1>8, <1>9, <1>10, <1>11, <1>12, <1>13, <1>14,
     <1>15, <1>16, <1>17, <1>18, <1>19, <1>20, <1>21, NextPairs

LEMMA ApartStep ==
    ASSUME Base, Apart, [Next]_vars
    PROVE  Apart'
<1>1. CASE Gentle
  BY <1>1 DEF Gentle, Aside, Apart, Born, Elsewhere, Granted, Unread, Arriving, Coding
<1>2. ASSUME NEW h \in Handlers, ReadRefresh(h)
      PROVE  Apart'
  BY <1>2, ReadRefreshDoes, Served, FreeWait, IdleJob, Bounds DEF Apart, Born, Elsewhere,
     Granted, Unread, Arriving, redis, phone, Quiet, Others, Replies, Moves, Turns, Done, Coding,
     Working
<1>3. ASSUME NEW h \in Handlers, LookupUser(h)
      PROVE  Apart'
  BY <1>3, LookupUserDoes, Served, FreeWait, IdleJob, Bounds DEF Apart, Born, Elsewhere, Granted,
     Unread, Arriving, redis, phone, Quiet, Others, Replies, Moves, Turns, Done, Coding, Working
<1>4. ASSUME NEW h \in Handlers, Rotate(h)
      PROVE  Apart'
  <2>1. UNCHANGED <<login, refresh>> /\ \A u : Born(u) => Born(u)'
    BY <1>4, RotateDoes DEF phone, Born, Untouched, Revokes
  <2>2. ASSUME NEW u \in Tokens, Elsewhere(u)
        PROVE  Elsewhere(u)'
    BY <1>4, <2>1, <2>2, RotateDoes, IdleJob DEF Elsewhere, Granted, Unread, Arriving, Others,
       Moves, Turns, Untouched
  <2>3. QED
    BY <2>1, <2>2 DEF Apart, Born
<1>5. ASSUME NEW h \in Handlers, IssueTokens(h)
      PROVE  Apart'
  <2>1. PICK t \in Tokens, f \in Tokens : Issues(h, t, f)
    BY <1>5, IssueTokensDoes
  <2>2. /\ UNCHANGED <<login, refresh>> /\ ~Born(t) /\ Replies(h, "ok", t)
    BY <1>5, <2>1, IssueTokensDoes DEF Issues, Born, phone
  <2>3. SUFFICES ASSUME refresh.at = "sent"
                 PROVE  Born(refresh.t)' /\ Elsewhere(refresh.t)'
    BY <2>2 DEF Apart
  <2>4. refresh.t # t
    BY <2>2, <2>3 DEF Apart
  <2>5. QED
    BY <2>1, <2>2, <2>3, <2>4, IdleJob DEF Apart, Elsewhere, Granted, Unread, Arriving, Replies,
       Others, Born,
       Issues, Untouched
<1>6. ASSUME NEW h \in Handlers, ReadMembers(h)
      PROVE  Apart'
  BY <1>6, ReadMembersDoes, Served, FreeWait, IdleJob, Bounds DEF Apart, Born, Elsewhere,
     Granted, Unread, Arriving, redis, phone, Quiet, Others, Replies, Moves, Turns, Done, Coding,
     Working
<1>7. ASSUME NEW h \in Handlers, RevokeFamily(h)
      PROVE  Apart'
  <2>1. UNCHANGED <<login, refresh>> /\ \A u : Born(u) => Born(u)'
    BY <1>7, RevokeFamilyDoes DEF phone, Born, Untouched, Revokes
  <2>2. ASSUME NEW u \in Tokens, Elsewhere(u)
        PROVE  Elsewhere(u)'
    BY <1>7, <2>1, <2>2, RevokeFamilyDoes, IdleJob DEF Elsewhere, Granted, Unread, Arriving,
       Others, Replies, Done, Revokes
  <2>3. QED
    BY <2>1, <2>2 DEF Apart, Born
<1>8. ASSUME NEW h \in Handlers, ServerError(h)
      PROVE  Apart'
  BY <1>8, ServerErrorDoes, Served, FreeWait, IdleJob, Bounds DEF Apart, Born, Elsewhere,
     Granted, Unread, Arriving, redis, phone, Quiet, Others, Replies, Moves, Turns, Done, Coding,
     Working
<1>9. ASSUME NEW h \in Handlers, SignInTimesOut(h)
      PROVE  Apart'
  BY <1>9, SignInTimesOutDoes, Served, FreeWait, IdleJob, Bounds DEF Apart, Born, Elsewhere,
     Granted, Unread, Arriving, redis, phone, Quiet, Forsakes, LeftAlone, Others, Done, Fails,
     Ends, SignsOut, Enters
<1>10. ASSUME NEW h \in Handlers, StartRefresh(h)
      PROVE  Apart'
  <2>1. /\ Starts(h, "read", "refresh", app.refresh, app.device) /\ app.refresh \in Tokens
        /\ refresh' = [at |-> "sent", h |-> h, t |-> app.refresh] /\ UNCHANGED <<login, token>>
    BY <1>10, StartRefreshDoes DEF redis
  <2>2. Born(app.refresh) /\ Elsewhere(app.refresh)
    BY <2>1, Bounds DEF Base, Distinct, Arrived
  <2>3. QED
    BY <2>1, <2>2 DEF Apart, Born, Elsewhere, Granted, Unread, Arriving, Starts, Others
<1>11. ASSUME SignInAnswered
      PROVE  Apart'
  BY <1>11, SignInAnsweredDoes, Served, FreeWait, IdleJob, Bounds DEF Apart, Born, Elsewhere,
     Granted, Unread, Arriving, redis, phone, Quiet, Heard, Others, Done, Joins, Fails, Ends,
     SignsOut, Enters
<1>12. ASSUME SaveSignIn
      PROVE  Apart'
  BY <1>12, SaveSignInDoes, Served, FreeWait, IdleJob, Bounds DEF Apart, Born, Elsewhere, Granted,
     Unread, Arriving, redis, phone, Quiet, Over, Joins, Sends, Fails, Ends, SignsOut, Enters
<1>13. ASSUME SaveFails
      PROVE  Apart'
  BY <1>13, SaveFailsDoes, Served, FreeWait, IdleJob, Bounds DEF Apart, Born, Elsewhere, Granted,
     Unread, Arriving, redis, phone, Quiet, Over, Joins, Sends, Fails, Ends, SignsOut, Enters
<1>14. ASSUME NEW c \in Calls, Answered(c)
      PROVE  Apart'
  BY <1>14, AnsweredDoes, Served, FreeWait, IdleJob, Bounds DEF Apart, Born, Elsewhere, Granted,
     Unread, Arriving, redis, phone, Quiet, Over, Joins, Sends, Fails, Ends, SignsOut, Enters
<1>15. ASSUME NEW c \in Calls, Unanswered(c)
      PROVE  Apart'
  BY <1>15, UnansweredDoes, Served, FreeWait, IdleJob, Bounds DEF Apart, Born, Elsewhere, Granted,
     Unread, Arriving, redis, phone, Quiet, Over, Joins, Sends, Fails, Ends, SignsOut, Enters
<1>16. ASSUME NothingToRefresh
      PROVE  Apart'
  BY <1>16, NothingToRefreshDoes, Served, FreeWait, IdleJob, Bounds DEF Apart, Born, Elsewhere,
     Granted, Unread, Arriving, redis, phone, Quiet, Over, Joins, Sends, Fails, Ends, SignsOut,
     Enters
<1>17. ASSUME RefreshRefused
      PROVE  Apart'
  BY <1>17, RefreshRefusedDoes, Served, FreeWait, IdleJob, Bounds DEF Apart, Born, Elsewhere,
     Granted, Unread, Arriving, redis, phone, Quiet, Heard, Others, Done, Joins, Fails, Ends,
     SignsOut, Enters
<1>18. ASSUME RefreshGranted
      PROVE  Apart'
  BY <1>18, RefreshGrantedDoes, Served, FreeWait, IdleJob, Bounds DEF Apart, Born, Elsewhere,
     Granted, Unread, Arriving, redis, phone, Quiet, Heard, Others, Done, Joins, Fails, Ends,
     SignsOut, Enters
<1>19. ASSUME SaveRefreshed
      PROVE  Apart'
  BY <1>19, SaveRefreshedDoes, Served, FreeWait, IdleJob, Bounds DEF Apart, Born, Elsewhere,
     Granted, Unread, Arriving, redis, phone, Quiet, Over, Joins, Sends, Fails, Ends, SignsOut,
     Enters
<1>20. ASSUME NEW result \in {"network", "401"}, RefreshLost(result)
      PROVE  Apart'
  BY <1>20, RefreshLostDoes, Served, FreeWait, IdleJob, Bounds DEF Apart, Born, Elsewhere,
     Granted, Unread, Arriving, redis, phone, Quiet, Forsakes, LeftAlone, Others, Done, Fails,
     Ends, SignsOut, Enters
<1>21. ASSUME Launch
      PROVE  Apart'
  BY <1>21, LaunchDoes, FreeWait DEF Apart
<1>22. QED
  BY <1>1, <1>2, <1>3, <1>4, <1>5, <1>6, <1>7, <1>8, <1>9, <1>10, <1>11, <1>12, <1>13, <1>14,
     <1>15, <1>16, <1>17, <1>18, <1>19, <1>20, <1>21, NextPairs

\* While every answer was used, a handler at work is waited for.
LEMMA NobodyLeft ==
    ASSUME Base, Abandonments, abandoned = 0, NEW h \in Handlers, handler[h].at # "idle"
    PROVE  \/ handler[h].client = "login" /\ login.h = h
           \/ /\ handler[h].client = "refresh" /\ refresh.h = h /\ refresh.at = "sent"
              /\ handler[h].at \notin Done => /\ handler[h].t = refresh.t
                                              /\ handler[h].device = app.device
<1>1. Cardinality(Nobody) = 0
  <2>1. Cardinality(Nobody) \in Nat
    BY Finite, FS_CardinalityType
  <2>2. QED
    BY <2>1 DEF Abandonments
<1>2. Nobody = {}
  BY <1>1, Finite, FS_EmptySet
<1>3. handler[h].client # "nobody" /\ h # None
  BY <1>2, Bounds DEF Nobody
<1>4. QED
  BY <1>3 DEF Base, Typed, Job, Attended, Serves, RefreshWaits, Distinct, Presenting

\* Revocation is under way at the refresh's handler.
Revoking == handler[refresh.h].at \in {"members", "revoke"}

LEMMA KeptKeeps ==
    ASSUME Base, Kept, abandoned' = 0 => abandoned = 0, UNCHANGED token,
           app'.refresh \in {app.refresh, None}, app'.device = app.device,
           \A h \in Handlers : Granted(h)' => /\ Granted(h) /\ handler'[h].t = handler[h].t
                                            /\ handler'[h].client = handler[h].client,
           Arriving(login)' \subseteq Arriving(login),
           Arriving(refresh)' \subseteq Arriving(refresh),
           abandoned' = 0 /\ Renewing => Renewing',
           refresh'.at = "sent" =>
              /\ refresh.at = "sent" /\ refresh'.t = refresh.t
              /\ abandoned = 0 /\ OnDevice /\ app.refresh = refresh.t /\ ~Revoking => ~Revoking'
    PROVE  Kept'
<1> SUFFICES ASSUME abandoned' = 0
             PROVE  Stored' /\ Coming' /\ Unhurt'
  BY DEF Kept
<1>1. abandoned = 0 /\ Stored /\ Coming /\ Unhurt
  BY DEF Kept
<1>2. Live' = Live /\ \A t : Loner(t) => Loner(t)'
  BY DEF Live, Loner
<1>3. OnDevice' => OnDevice /\ app'.refresh = app.refresh
  BY DEF OnDevice
<1>4. Stored'
  BY <1>1, <1>2, <1>3 DEF Stored
<1>5. Coming'
  BY <1>1, <1>2 DEF Coming, Unread
<1>6. Unhurt'
  BY <1>1, <1>2, <1>3 DEF Unhurt, Revoking, None
<1>7. QED
  BY <1>4, <1>5, <1>6

LEMMA KeptKept ==
    ASSUME Base, abandoned' = abandoned + 1
    PROVE  Kept'
<1>1. abandoned \in Nat
  BY DEF Base, Typed
<1>2. QED
  BY <1>1 DEF Kept

LEMMA RotateKept ==
    ASSUME Base, Apart, Kept, Abandonments, NEW h \in Handlers, Rotate(h),
           \A k \in Handlers : Signing(k)
    PROVE  Kept'
<1> SUFFICES ASSUME abandoned' = 0
             PROVE  Stored' /\ Coming' /\ Unhurt'
  BY DEF Kept
<1> DEFINE t == handler[h].t
<1>1. /\ handler[h].at = "rotate" /\ Moves(h, "issue") /\ Born(t)
      /\ UNCHANGED <<app, login, refresh, abandoned>>
      /\ token' \in [Tokens -> TokenRow] /\ Untouched({t})
      /\ token'[t].family = token[t].family /\ token'[t].device = token[t].device
  BY RotateDoes DEF phone, tally
<1>2. abandoned = 0 /\ Stored /\ Coming /\ Unhurt
  BY <1>1 DEF Kept
<1>3. handler[h].client = "refresh" /\ refresh.h = h /\ refresh.at = "sent" /\ t = refresh.t
  BY <1>1, <1>2, NobodyLeft DEF Signing, Done
<1>4. /\ Live \ {t} \subseteq Live' /\ \A u : Loner(u) => Loner(u)'
      /\ \A u \in Tokens : token'[u].device = token[u].device
  BY <1>1 DEF Live, Loner, Untouched, Born
<1>5. Stored'
  BY <1>1, <1>2, <1>3 DEF Stored, Renewing, Moves, Turns
<1>6. Elsewhere(t) /\ \A k \in Handlers : Granted(k)' => handler'[k] = handler[k] /\ Granted(k)
  BY <1>1, <1>3 DEF Apart, Moves, Turns, Others, Granted
<1>7. Coming'
  BY <1>1, <1>2, <1>4, <1>6 DEF Coming, Unread, Arriving, Elsewhere
<1>8. Unhurt'
  BY <1>1, <1>2, <1>3, <1>4 DEF Unhurt, Moves, Turns
<1>9. QED
  BY <1>5, <1>7, <1>8

LEMMA IssueTokensKept ==
    ASSUME Base, Apart, Kept, Abandonments, NEW h \in Handlers, IssueTokens(h),
           \A k \in Handlers : Signing(k)
    PROVE  Kept'
<1> SUFFICES ASSUME abandoned' = 0
             PROVE  Stored' /\ Coming' /\ Unhurt'
  BY DEF Kept
<1>1. PICK t \in Tokens, f \in Tokens : Issues(h, t, f)
  BY IssueTokensDoes
<1>2. /\ handler[h].at = "issue" /\ Replies(h, "ok", t) /\ ~Born(t) /\ Born(t)'
      /\ UNCHANGED <<app, login, refresh, abandoned>>
      /\ Untouched({t}) /\ token'[t].family = f
      /\ f = IF handler[h].family = None THEN t ELSE handler[h].family
  BY <1>1, IssueTokensDoes DEF Issues, Born, phone
<1>3. abandoned = 0 /\ Stored /\ Coming /\ Unhurt
  BY <1>2 DEF Kept
<1>4. Live' = Live \cup {t}
  BY <1>1 DEF Issues, Untouched, Live
<1>5. \/ handler[h].client = "login" /\ handler[h].family = None
      \/ handler[h].client = "refresh" /\ refresh.h = h /\ refresh.at = "sent" /\ handler[h].t =
         refresh.t
  BY <1>2, <1>3, NobodyLeft DEF Signing, Done
<1>6. ASSUME NEW u \in Tokens, Loner(u), Born(u), refresh.at = "sent" => u # refresh.t
      PROVE  Loner(u)'
  <2>1. u # t /\ token[u].family = u
    BY <1>2, <1>6 DEF Loner
  <2>2. f # u
    <3>1. CASE handler[h].family = None
      BY <1>2, <2>1, <3>1
    <3>2. CASE handler[h].family # None
      <4>1. token[handler[h].t].family = handler[h].family /\ handler[h].t \in Tokens
        BY <1>2, <3>2 DEF Base, Families, JobFamily, Done, Born
      <4>2. handler[h].t = refresh.t /\ refresh.at = "sent"
        BY <1>5, <3>2
      <4>3. QED
        BY <1>2, <1>6, <3>2, <4>1, <4>2 DEF Loner
    <3>3. QED
      BY <3>1, <3>2
  <2>3. \A v \in Tokens \ {t} : token'[v] = token[v]
    BY <1>2 DEF Untouched
  <2>4. QED
    BY <1>2, <1>6, <2>1, <2>2, <2>3 DEF Loner
<1>7. app.refresh # t /\ t # None /\ (app.refresh # None => Born(app.refresh))
  BY <1>2, Bounds DEF Base, Distinct, Arrived
<1>8. ASSUME handler[h].family = None
      PROVE  Loner(t)'
  <2>1. ASSUME NEW v \in Tokens \ {t}
        PROVE  token'[v] = token[v] /\ token[v].family # t
    <3>1. TokenFamily(v) /\ ~Born(t) /\ t # None /\ token'[v] = token[v]
      BY <1>2, <1>7, <2>1 DEF Untouched, Base, Families
    <3>2. Born(token[v].family) \/ token[v].family = None
      BY <3>1 DEF TokenFamily
    <3>3. QED
      BY <3>1, <3>2
  <2>2. QED
    BY <1>2, <1>8, <2>1 DEF Loner
<1>9. /\ \A k \in Handlers \ {h} : handler'[k] = handler[k]
      /\ handler'[h].client # "nobody" => /\ handler'[h].client = handler[h].client
                                          /\ handler'[h].at = "ok" /\ handler'[h].t = t
  BY <1>2, IdleJob DEF Replies, Others
<1>10. Stored'
  <2>1. SUFFICES ASSUME OnDevice'
                 PROVE  app.refresh \in Live' \/ Renewing'
    BY <1>2 DEF Stored
  <2>2. OnDevice
    BY <1>2, <1>7, <2>1 DEF OnDevice, Untouched, Born
  <2>3. Renewing => Renewing'
    BY <1>2, <1>9, Served DEF Renewing, Replies
  <2>4. QED
    BY <1>3, <1>4, <2>2, <2>3 DEF Stored
<1>11. Coming'
  <2>1. ASSUME NEW k \in Handlers, Granted(k)'
        PROVE  handler'[k].t \in Live' /\ (handler'[k].client = "login" => Loner(handler[k].t)')
    <3>1. CASE k = h
      BY <1>2, <1>4, <1>5, <1>8, <2>1, <3>1, IdleJob DEF Granted, Replies
    <3>2. CASE k # h
      <4>1. handler'[k] = handler[k] /\ Granted(k)
        BY <1>9, <2>1, <3>2 DEF Granted
      <4>2. Born(handler[k].t) /\ handler[k].t \in Live
        BY <1>3, <4>1 DEF Coming, Base, Distinct, OnePlace
      <4>3. refresh.at = "sent" => handler[k].t # refresh.t
        BY <4>1 DEF Apart, Elsewhere
      <4>4. ASSUME handler[k].client = "login"
            PROVE  Loner(handler[k].t)'
        <5>1. \A u \in Tokens : u = handler[k].t => Loner(u)'
          BY <1>3, <1>6, <4>1, <4>2, <4>3, <4>4 DEF Coming
        <5>2. handler'[k].t = handler[k].t /\ handler[k].t \in Tokens
          BY <4>1, <4>2 DEF Born
        <5>3. QED
          BY <5>1, <5>2 DEF Loner
      <4>5. QED
        BY <1>4, <4>1, <4>2, <4>4
    <3>3. QED
      BY <3>1, <3>2
  <2>2. Unread' \subseteq Live' /\ Arriving(login)' = Arriving(login)
    BY <1>2, <1>3, <1>4 DEF Coming, Unread, Arriving
  <2>3. ASSUME NEW u \in Arriving(login)
        PROVE  Loner(u)'
    <3>1. Loner(u) /\ Born(u)
      BY <1>3 DEF Coming, Base, Distinct, OnePlace, Unread
    <3>2. refresh.at = "sent" => u # refresh.t
      BY DEF Apart, Elsewhere, Unread
    <3>3. QED
      BY <1>6, <3>1, <3>2 DEF Born
  <2>4. QED
    BY <2>1, <2>2, <2>3 DEF Coming
<1>12. Unhurt'
  <2>1. SUFFICES ASSUME refresh.at = "sent"
                 PROVE  /\ app.refresh \in {None, refresh.t} \/ Loner(app.refresh)'
                        /\ OnDevice' /\ app.refresh = refresh.t => ~Revoking'
    BY <1>2 DEF Unhurt, Revoking
  <2>2. OnDevice' => OnDevice
    BY <1>2, <1>7 DEF OnDevice, Untouched, Born
  <2>3. ~Revoking => ~Revoking'
    BY <1>2, <1>9, <2>1, Served, IdleJob DEF Revoking, Replies
  <2>4. ASSUME app.refresh \notin {None, refresh.t}
        PROVE  Loner(app.refresh)'
    <3>1. \A u \in Tokens : u = app.refresh => Loner(u)'
      BY <1>3, <1>6, <1>7, <2>1, <2>4 DEF Unhurt
    <3>2. app.refresh \in Tokens /\ app'.refresh = app.refresh
      BY <1>2, <1>7, <2>4 DEF Born
    <3>3. QED
      BY <3>1, <3>2 DEF Loner
  <2>5. QED
    BY <1>3, <2>1, <2>2, <2>3, <2>4 DEF Unhurt, Revoking
<1>13. QED
  BY <1>10, <1>11, <1>12

LEMMA RevokeFamilyKept ==
    ASSUME Base, Apart, Kept, Abandonments, NEW h \in Handlers, RevokeFamily(h),
           \A k \in Handlers : Signing(k)
    PROVE  Kept'
<1> SUFFICES ASSUME abandoned' = 0
             PROVE  Stored' /\ Coming' /\ Unhurt'
  BY DEF Kept
<1> DEFINE t == handler[h].t  f == handler[h].family
<1>1. /\ handler[h].at = "revoke" /\ Replies(h, "refused", None) /\ Revokes(handler[h].doomed)
      /\ UNCHANGED <<app, login, refresh, abandoned>>
  BY RevokeFamilyDoes DEF phone, tally
<1>2. abandoned = 0 /\ Stored /\ Coming /\ Unhurt
  BY <1>1 DEF Kept
<1>3. handler[h].client = "refresh" /\ refresh.h = h /\ refresh.at = "sent" /\ t = refresh.t
  BY <1>1, <1>2, NobodyLeft DEF Signing, Done
<1>4. /\ Born(f) /\ Born(t) /\ token[t].family = f
      /\ \A u \in handler[h].doomed : token[u].family = f
  BY <1>1, Bounds DEF Base, Families, JobFamily, Done, Born
<1>5. /\ \A u : Loner(u) => Loner(u)'
      /\ \A u \in Tokens : token'[u].device = token[u].device
      /\ \A u \in Live \ handler[h].doomed : u \in Live'
  BY <1>1 DEF Revokes, Live, Loner
<1>6. ASSUME NEW u \in Live, Loner(u), u # refresh.t
      PROVE  u \in Live'
  BY <1>3, <1>4, <1>5, <1>6 DEF Loner, Live, Born
<1>7. Elsewhere(refresh.t)
  BY <1>3 DEF Apart
<1>8. /\ \A k \in Handlers \ {h} : handler'[k] = handler[k]
      /\ handler'[h].at \notin {"ok", "members", "revoke"}
  BY <1>1, IdleJob DEF Replies, Others
<1>9. Stored'
  <2>1. SUFFICES ASSUME OnDevice'
                 PROVE  app.refresh \in Live'
    BY <1>1 DEF Stored
  <2>2. OnDevice
    BY <1>1, <1>5, <2>1 DEF OnDevice, Base, Typed, AppRow
  <2>3. app.refresh \in Live
    BY <1>1, <1>2, <1>3, <2>2 DEF Stored, Renewing
  <2>4. app.refresh # refresh.t
    BY <1>1, <1>2, <1>3, <2>2 DEF Unhurt
  <2>5. Loner(app.refresh)
    BY <1>2, <1>3, <2>2, <2>4 DEF Unhurt, OnDevice
  <2>6. QED
    BY <1>6, <2>3, <2>4, <2>5
<1>10. Coming'
  <2>1. ASSUME NEW k \in Handlers, Granted(k)'
        PROVE  handler'[k].t \in Live' /\ (handler'[k].client = "login" => Loner(handler[k].t)')
    <3>1. k # h /\ handler'[k] = handler[k] /\ Granted(k)
      BY <1>8, <2>1 DEF Granted
    <3>2. handler[k].client = "login"
      BY <1>2, <1>3, <3>1, NobodyLeft DEF Granted
    <3>3. handler[k].t \in Live /\ Loner(handler[k].t) /\ handler[k].t # refresh.t
      BY <1>2, <1>7, <3>1, <3>2 DEF Coming, Elsewhere
    <3>4. QED
      BY <1>5, <1>6, <3>1, <3>3 DEF Loner
  <2>2. Unread = Arriving(login) /\ Unread' = Unread /\ Arriving(login)' = Arriving(login)
    BY <1>1, <1>3 DEF Unread, Arriving
  <2>3. Unread' \subseteq Live'
    BY <1>2, <1>6, <1>7, <2>2 DEF Coming, Elsewhere
  <2>4. QED
    BY <1>2, <1>5, <2>1, <2>2, <2>3 DEF Coming
<1>11. Unhurt'
  <2>1. app.refresh \in {None, refresh.t} \/ Loner(app.refresh)
    BY <1>2, <1>3 DEF Unhurt
  <2>2. QED
    BY <1>1, <1>3, <1>5, <1>8, <2>1 DEF Unhurt
<1>12. QED
  BY <1>9, <1>10, <1>11

LEMMA LaunchKept ==
    ASSUME Base, Devices, Kept, Abandonments, Launch
    PROVE  Kept'
<1> SUFFICES ASSUME abandoned' = 0
             PROVE  Stored' /\ Coming' /\ Unhurt'
  BY DEF Kept
<1>1. /\ login' = Free /\ refresh' = Free /\ app'.refresh = app.refresh /\ UNCHANGED token
      /\ app'.device \in {app.device, launches + 2}
      /\ \A h \in Handlers : LeftAlone(handler[h], handler'[h])
  BY LaunchDoes DEF redis
<1>2. abandoned = 0 /\ login = Free /\ refresh = Free
  BY LaunchDoes DEF Base, Typed
<1>3. \A h \in Handlers : handler[h].at = "idle"
  BY <1>2, NobodyLeft, FreeWait, Bounds
<1>4. Coming' /\ Unhurt'
  BY <1>1, <1>3, FreeWait, IdleJob DEF Coming, Unhurt, Unread, Arriving, Granted, LeftAlone, Done
<1>5. Stored'
  <2>1. SUFFICES ASSUME OnDevice'
                 PROVE  app.refresh \in Live'
    BY <1>1 DEF Stored
  <2>2. app.refresh # None /\ token[app.refresh].device = app'.device
    BY <1>1, <2>1 DEF OnDevice
  <2>3. app.refresh \in Tokens /\ token[app.refresh].device \in Nat /\ launches \in Nat
    BY <2>2 DEF Base, Typed, AppRow, TokenRow
  <2>4. app'.device # launches + 2
    BY <2>2, <2>3 DEF Devices
  <2>5. OnDevice
    BY <1>1, <2>2, <2>4 DEF OnDevice
  <2>6. QED
    BY <1>1, <1>2, <2>5, FreeWait DEF Kept, Stored, Renewing, Live
<1>6. QED
  BY <1>4, <1>5

LEMMA KeptStep ==
    ASSUME Base, Keeping, Abandonments, [Next]_vars
    PROVE  Kept'
<1> USE DEF Keeping
<1>1. CASE Gentle
  <2>1. \A k \in Handlers : Granted(k)' => /\ Granted(k) /\ handler'[k].t = handler[k].t
                                          /\ handler'[k].client = handler[k].client
    BY <1>1 DEF Gentle, Aside, Granted
  <2>2. Arriving(login)' \subseteq Arriving(login) /\ Arriving(refresh)' \subseteq Arriving(refresh)
    BY <1>1 DEF Gentle, Arriving
  <2>3. refresh.at = "sent" => handler'[refresh.h] = handler[refresh.h]
    BY <1>1, Served DEF Gentle, Aside
  <2>4. Renewing => Renewing'
    BY <1>1, <2>3 DEF Gentle, Renewing
  <2>5. QED
    BY <1>1, <2>1, <2>2, <2>3, <2>4, KeptKeeps DEF Gentle, Revoking
<1>2. ASSUME NEW h \in Handlers, ReadRefresh(h)
      PROVE  Kept'
  <2>1. /\ UNCHANGED <<token, app, login, refresh, abandoned>> /\ handler[h].at = "read"
        /\ \A k \in Handlers \ {h} : handler'[k] = handler[k]
        /\ handler'[h].at \notin {"issue", "ok"}
    BY <1>2, ReadRefreshDoes, IdleJob DEF redis, phone, tally, Quiet, Turns, Replies, Others
  <2>2. /\ \A k \in Handlers : Granted(k)' => Granted(k) /\ handler'[k] = handler[k]
        /\ Arriving(login)' = Arriving(login) /\ Arriving(refresh)' = Arriving(refresh)
        /\ Renewing' = Renewing
    BY <2>1, Served DEF Granted, Arriving, Renewing
  <2>3. ASSUME refresh.at = "sent", abandoned = 0, OnDevice, app.refresh = refresh.t, ~Revoking
        PROVE  ~Revoking'
    <3>1. CASE refresh.h # h
      BY <2>1, <2>3, <3>1, Served DEF Revoking
    <3>2. CASE refresh.h = h
      <4>1. handler[h].t = refresh.t /\ handler[h].device = app.device
        BY <2>1, <2>3, <3>2, Served DEF Base, Distinct, Presenting, Done
      <4>2. app.refresh \in Live
        BY <2>1, <2>3, <3>2 DEF Kept, Stored, Renewing
      <4>3. token[handler[h].t].at = "live" /\ token[handler[h].t].device = handler[h].device
        BY <2>3, <4>1, <4>2 DEF Live, OnDevice
      <4>4. Turns(h, "lookup", handler[h].code, token[handler[h].t].family, handler[h].doomed)
        BY <1>2, <4>3, ReadRefreshDoes
      <4>5. QED
        BY <2>1, <3>2, <4>4 DEF Revoking, Turns
    <3>3. QED
      BY <3>1, <3>2
  <2>4. QED
    BY <2>1, <2>2, <2>3, KeptKeeps
<1>3. ASSUME NEW h \in Handlers, LookupUser(h)
      PROVE  Kept'
  <2>1. /\ UNCHANGED token /\ (abandoned' = 0 => abandoned = 0)
        /\ app'.refresh \in {app.refresh, None} /\ app'.device = app.device
    BY <1>3, LookupUserDoes, Served, FreeWait, IdleJob, Bounds DEF redis, phone, tally, Quiet,
       Base, Typed, Others, Replies, Moves, Turns, Done, Coding, Working
  <2>2. \A k \in Handlers : Granted(k)' => /\ Granted(k) /\ handler'[k].t = handler[k].t
                                          /\ handler'[k].client = handler[k].client
    BY <1>3, LookupUserDoes, Served, FreeWait, IdleJob, Bounds DEF Granted, phone, Quiet, Others,
       Replies, Moves, Turns, Done, Coding, Working
  <2>3. Arriving(login)' \subseteq Arriving(login) /\ Arriving(refresh)' \subseteq Arriving(refresh)
    BY <1>3, LookupUserDoes, Served, FreeWait, IdleJob, Bounds DEF Arriving, phone, Quiet,
       Others, Replies, Moves, Turns, Done, Coding, Working
  <2>4. abandoned' = 0 /\ Renewing => Renewing'
    BY <1>3, LookupUserDoes, Served, FreeWait, IdleJob, Bounds DEF Renewing, phone, Quiet,
       Others, Replies, Moves, Turns, Done, Coding, Working
  <2>5. refresh'.at = "sent" => /\ refresh.at = "sent" /\ refresh'.t = refresh.t
                                /\ ~Revoking => ~Revoking'
    BY <1>3, LookupUserDoes, Served, FreeWait, IdleJob, Bounds DEF Revoking, phone, Quiet,
       Others, Replies, Moves, Turns, Done, Coding, Working
  <2>6. QED
    BY <2>1, <2>2, <2>3, <2>4, <2>5, KeptKeeps
<1>4. ASSUME NEW h \in Handlers, Rotate(h)
      PROVE  Kept'
  BY <1>4, RotateKept
<1>5. ASSUME NEW h \in Handlers, IssueTokens(h)
      PROVE  Kept'
  BY <1>5, IssueTokensKept
<1>6. ASSUME NEW h \in Handlers, ReadMembers(h)
      PROVE  Kept'
  <2>1. /\ UNCHANGED token /\ (abandoned' = 0 => abandoned = 0)
        /\ app'.refresh \in {app.refresh, None} /\ app'.device = app.device
    BY <1>6, ReadMembersDoes, Served, FreeWait, IdleJob, Bounds DEF redis, phone, tally, Quiet,
       Base, Typed, Others, Replies, Moves, Turns, Done, Coding, Working
  <2>2. \A k \in Handlers : Granted(k)' => /\ Granted(k) /\ handler'[k].t = handler[k].t
                                          /\ handler'[k].client = handler[k].client
    BY <1>6, ReadMembersDoes, Served, FreeWait, IdleJob, Bounds DEF Granted, phone, Quiet,
       Others, Replies, Moves, Turns, Done, Coding, Working
  <2>3. Arriving(login)' \subseteq Arriving(login) /\ Arriving(refresh)' \subseteq Arriving(refresh)
    BY <1>6, ReadMembersDoes, Served, FreeWait, IdleJob, Bounds DEF Arriving, phone, Quiet,
       Others, Replies, Moves, Turns, Done, Coding, Working
  <2>4. abandoned' = 0 /\ Renewing => Renewing'
    BY <1>6, ReadMembersDoes, Served, FreeWait, IdleJob, Bounds DEF Renewing, phone, Quiet,
       Others, Replies, Moves, Turns, Done, Coding, Working
  <2>5. refresh'.at = "sent" => /\ refresh.at = "sent" /\ refresh'.t = refresh.t
                                /\ ~Revoking => ~Revoking'
    BY <1>6, ReadMembersDoes, Served, FreeWait, IdleJob, Bounds DEF Revoking, phone, Quiet,
       Others, Replies, Moves, Turns, Done, Coding, Working
  <2>6. QED
    BY <2>1, <2>2, <2>3, <2>4, <2>5, KeptKeeps
<1>7. ASSUME NEW h \in Handlers, RevokeFamily(h)
      PROVE  Kept'
  BY <1>7, RevokeFamilyKept
<1>8. ASSUME NEW h \in Handlers, ServerError(h)
      PROVE  Kept'
  BY <1>8, ServerErrorDoes, KeptKept
<1>9. ASSUME NEW h \in Handlers, SignInTimesOut(h)
      PROVE  Kept'
  BY <1>9, SignInTimesOutDoes, KeptKept
<1>10. ASSUME NEW h \in Handlers, StartRefresh(h)
      PROVE  Kept'
  <2>1. /\ Starts(h, "read", "refresh", app.refresh, app.device)
        /\ refresh.at = "reading" /\ refresh' = [at |-> "sent", h |-> h, t |-> app.refresh]
        /\ UNCHANGED <<token, app, login, abandoned>>
    BY <1>10, StartRefreshDoes DEF redis, tally
  <2>2. \A k \in Handlers : Granted(k)' => Granted(k) /\ handler'[k] = handler[k]
    BY <2>1 DEF Starts, Others, Granted
  <2>3. Arriving(login)' = Arriving(login) /\ Arriving(refresh)' = {} /\ Arriving(refresh) = {}
    BY <2>1 DEF Arriving
  <2>4. ASSUME abandoned = 0
        PROVE  Stored' /\ Coming' /\ Unhurt'
    <3>1. Stored /\ Coming /\ ~Renewing
      BY <2>1, <2>4 DEF Kept, Renewing
    <3>2. Stored'
      BY <2>1, <3>1 DEF Stored, OnDevice, Live
    <3>3. Coming'
      BY <2>1, <2>2, <2>3, <3>1 DEF Coming, Unread, Live, Loner
    <3>4. Unhurt'
      BY <2>1 DEF Unhurt, Starts
    <3>5. QED
      BY <3>2, <3>3, <3>4
  <2>5. QED
    BY <2>1, <2>4 DEF Kept
<1>11. ASSUME SignInAnswered
      PROVE  Kept'
  <2> DEFINE g == login.h
  <2>1. /\ g \in Handlers /\ Heard(g) /\ handler[g].client = "login"
        /\ UNCHANGED <<token, abandoned>>
        /\ app'.refresh = app.refresh /\ app'.device = app.device
    BY <1>11, SignInAnsweredDoes DEF redis, tally
  <2>2. \A k \in Handlers : Granted(k)' => Granted(k) /\ handler'[k] = handler[k]
    BY <2>1, IdleJob DEF Granted, Heard, Others
  <2>3. CASE /\ Granted(g) /\ UNCHANGED refresh
             /\ login' = [at |-> "access", h |-> None, t |-> handler[g].t]
    <3>1. ASSUME abandoned = 0
          PROVE  Stored' /\ Coming' /\ Unhurt'
      <4>1. Stored /\ Coming /\ Unhurt
        BY <3>1 DEF Kept
      <4>2. refresh.at = "sent" => /\ refresh.h \in Handlers \ {g}
                                   /\ handler'[refresh.h] = handler[refresh.h]
        BY <2>1, Served DEF Heard, Others
      <4>3. Stored'
        BY <2>1, <2>3, <4>1, <4>2 DEF Stored, OnDevice, Live, Renewing
      <4>4. Arriving(login)' = {handler[g].t} /\ Arriving(refresh)' = Arriving(refresh)
        BY <2>3 DEF Arriving
      <4>5. Coming'
        BY <2>1, <2>2, <2>3, <4>1, <4>4 DEF Coming, Unread, Live, Loner
      <4>6. Unhurt'
        BY <2>1, <2>3, <4>1, <4>2 DEF Unhurt, OnDevice, Loner
      <4>7. QED
        BY <4>3, <4>5, <4>6
    <3>2. QED
      BY <2>1, <3>1 DEF Kept
  <2>4. CASE /\ Arriving(login)' = {}
             /\ (refresh = Free /\ refresh'.at = "reading") \/ refresh' = refresh
    <3>1. Arriving(refresh)' \subseteq Arriving(refresh) /\ (Renewing => Renewing')
      BY <2>1, <2>4, Served, FreeWait DEF Arriving, Renewing, Heard, Others
    <3>2. refresh'.at = "sent" => refresh' = refresh /\ (~Revoking => ~Revoking')
      BY <2>1, <2>4, Served DEF Revoking, Heard, Others
    <3>3. QED
      BY <2>1, <2>2, <2>4, <3>1, <3>2, KeptKeeps
  <2>5. QED
    BY <1>11, <2>3, <2>4, SignInAnsweredDoes, FreeWait, Bounds DEF Granted, Arriving, Joins
<1>12. ASSUME SaveSignIn
      PROVE  Kept'
  <2>1. CASE login.at = "access"
    <3>1. /\ UNCHANGED <<token, handler, refresh, abandoned>> /\ app'.refresh = app.refresh
          /\ app'.device = app.device /\ login'.at = "refresh" /\ login'.t = login.t
      BY <1>12, <2>1, SaveSignInDoes DEF redis
    <3>2. Arriving(login)' = Arriving(login) /\ Arriving(refresh)' = Arriving(refresh)
      BY <2>1, <3>1 DEF Arriving
    <3>3. QED
      BY <3>1, <3>2, KeptKeeps DEF Granted, Renewing, Revoking
  <2>2. CASE login.at = "refresh"
    <3>1. /\ UNCHANGED <<token, handler, refresh, abandoned>> /\ app'.refresh = login.t
          /\ app'.device = app.device /\ login' = Free
      BY <1>12, <2>2, SaveSignInDoes DEF redis
    <3>2. /\ Arriving(login) = {login.t} /\ Arriving(login)' = {}
          /\ Arriving(refresh)' = Arriving(refresh)
      BY <2>2, <3>1, FreeWait DEF Arriving
    <3>3. ASSUME abandoned = 0
          PROVE  Stored' /\ Coming' /\ Unhurt'
      <4>1. Coming /\ Unhurt /\ login.t \in Live /\ Loner(login.t)
        BY <3>2, <3>3 DEF Kept, Coming, Unread
      <4>2. Stored'
        BY <3>1, <4>1 DEF Stored, Live
      <4>3. Coming'
        BY <3>1, <3>2, <4>1 DEF Coming, Unread, Granted, Live, Loner
      <4>4. refresh.at = "sent" => login.t # refresh.t
        BY <3>2 DEF Apart, Elsewhere, Unread
      <4>5. Unhurt'
        BY <3>1, <4>1, <4>4 DEF Unhurt, Loner
      <4>6. QED
        BY <4>2, <4>3, <4>5
    <3>4. QED
      BY <3>1, <3>3 DEF Kept
  <2>3. QED
    BY <1>12, <2>1, <2>2, SaveSignInDoes
<1>13. ASSUME SaveFails
      PROVE  Kept'
  BY <1>13, SaveFailsDoes, KeptKept
<1>14. ASSUME NEW c \in Calls, Answered(c)
      PROVE  Kept'
  <2>1. /\ UNCHANGED token /\ (abandoned' = 0 => abandoned = 0)
        /\ app'.refresh \in {app.refresh, None} /\ app'.device = app.device
    BY <1>14, AnsweredDoes, Served, FreeWait, IdleJob, Bounds DEF redis, phone, tally, Quiet,
       Base, Typed, Over, Joins, Sends, Fails, Ends, SignsOut, Enters
  <2>2. \A k \in Handlers : Granted(k)' => /\ Granted(k) /\ handler'[k].t = handler[k].t
                                          /\ handler'[k].client = handler[k].client
    BY <1>14, AnsweredDoes, Served, FreeWait, IdleJob, Bounds DEF Granted, phone, Quiet, Over,
       Joins, Sends, Fails, Ends, SignsOut, Enters
  <2>3. Arriving(login)' \subseteq Arriving(login) /\ Arriving(refresh)' \subseteq Arriving(refresh)
    BY <1>14, AnsweredDoes, Served, FreeWait, IdleJob, Bounds DEF Arriving, phone, Quiet, Over,
       Joins, Sends, Fails, Ends, SignsOut, Enters
  <2>4. abandoned' = 0 /\ Renewing => Renewing'
    BY <1>14, AnsweredDoes, Served, FreeWait, IdleJob, Bounds DEF Renewing, phone, Quiet, Over,
       Joins, Sends, Fails, Ends, SignsOut, Enters
  <2>5. refresh'.at = "sent" => /\ refresh.at = "sent" /\ refresh'.t = refresh.t
                                /\ ~Revoking => ~Revoking'
    BY <1>14, AnsweredDoes, Served, FreeWait, IdleJob, Bounds DEF Revoking, phone, Quiet, Over,
       Joins, Sends, Fails, Ends, SignsOut, Enters
  <2>6. QED
    BY <2>1, <2>2, <2>3, <2>4, <2>5, KeptKeeps
<1>15. ASSUME NEW c \in Calls, Unanswered(c)
      PROVE  Kept'
  <2>1. /\ UNCHANGED token /\ (abandoned' = 0 => abandoned = 0)
        /\ app'.refresh \in {app.refresh, None} /\ app'.device = app.device
    BY <1>15, UnansweredDoes, Served, FreeWait, IdleJob, Bounds DEF redis, phone, tally, Quiet,
       Base, Typed, Over, Joins, Sends, Fails, Ends, SignsOut, Enters
  <2>2. \A k \in Handlers : Granted(k)' => /\ Granted(k) /\ handler'[k].t = handler[k].t
                                          /\ handler'[k].client = handler[k].client
    BY <1>15, UnansweredDoes, Served, FreeWait, IdleJob, Bounds DEF Granted, phone, Quiet, Over,
       Joins, Sends, Fails, Ends, SignsOut, Enters
  <2>3. Arriving(login)' \subseteq Arriving(login) /\ Arriving(refresh)' \subseteq Arriving(refresh)
    BY <1>15, UnansweredDoes, Served, FreeWait, IdleJob, Bounds DEF Arriving, phone, Quiet, Over,
       Joins, Sends, Fails, Ends, SignsOut, Enters
  <2>4. abandoned' = 0 /\ Renewing => Renewing'
    BY <1>15, UnansweredDoes, Served, FreeWait, IdleJob, Bounds DEF Renewing, phone, Quiet, Over,
       Joins, Sends, Fails, Ends, SignsOut, Enters
  <2>5. refresh'.at = "sent" => /\ refresh.at = "sent" /\ refresh'.t = refresh.t
                                /\ ~Revoking => ~Revoking'
    BY <1>15, UnansweredDoes, Served, FreeWait, IdleJob, Bounds DEF Revoking, phone, Quiet, Over,
       Joins, Sends, Fails, Ends, SignsOut, Enters
  <2>6. QED
    BY <2>1, <2>2, <2>3, <2>4, <2>5, KeptKeeps
<1>16. ASSUME NothingToRefresh
      PROVE  Kept'
  <2>1. /\ UNCHANGED token /\ (abandoned' = 0 => abandoned = 0)
        /\ app'.refresh \in {app.refresh, None} /\ app'.device = app.device
    BY <1>16, NothingToRefreshDoes, Served, FreeWait, IdleJob, Bounds DEF redis, phone, tally,
       Quiet, Base, Typed, Over, Joins, Sends, Fails, Ends, SignsOut, Enters
  <2>2. \A k \in Handlers : Granted(k)' => /\ Granted(k) /\ handler'[k].t = handler[k].t
                                          /\ handler'[k].client = handler[k].client
    BY <1>16, NothingToRefreshDoes, Served, FreeWait, IdleJob, Bounds DEF Granted, phone, Quiet,
       Over, Joins, Sends, Fails, Ends, SignsOut, Enters
  <2>3. Arriving(login)' \subseteq Arriving(login) /\ Arriving(refresh)' \subseteq Arriving(refresh)
    BY <1>16, NothingToRefreshDoes, Served, FreeWait, IdleJob, Bounds DEF Arriving, phone, Quiet,
       Over, Joins, Sends, Fails, Ends, SignsOut, Enters
  <2>4. abandoned' = 0 /\ Renewing => Renewing'
    BY <1>16, NothingToRefreshDoes, Served, FreeWait, IdleJob, Bounds DEF Renewing, phone, Quiet,
       Over, Joins, Sends, Fails, Ends, SignsOut, Enters
  <2>5. refresh'.at = "sent" => /\ refresh.at = "sent" /\ refresh'.t = refresh.t
                                /\ ~Revoking => ~Revoking'
    BY <1>16, NothingToRefreshDoes, Served, FreeWait, IdleJob, Bounds DEF Revoking, phone, Quiet,
       Over, Joins, Sends, Fails, Ends, SignsOut, Enters
  <2>6. QED
    BY <2>1, <2>2, <2>3, <2>4, <2>5, KeptKeeps
<1>17. ASSUME RefreshRefused
      PROVE  Kept'
  <2>1. /\ UNCHANGED token /\ (abandoned' = 0 => abandoned = 0)
        /\ app'.refresh \in {app.refresh, None} /\ app'.device = app.device
    BY <1>17, RefreshRefusedDoes, Served, FreeWait, IdleJob, Bounds DEF redis, phone, tally,
       Quiet, Base, Typed, Heard, Others, Done, Joins, Fails, Ends, SignsOut, Enters
  <2>2. \A k \in Handlers : Granted(k)' => /\ Granted(k) /\ handler'[k].t = handler[k].t
                                          /\ handler'[k].client = handler[k].client
    BY <1>17, RefreshRefusedDoes, Served, FreeWait, IdleJob, Bounds DEF Granted, phone, Quiet,
       Heard, Others, Done, Joins, Fails, Ends, SignsOut, Enters
  <2>3. Arriving(login)' \subseteq Arriving(login) /\ Arriving(refresh)' \subseteq Arriving(refresh)
    BY <1>17, RefreshRefusedDoes, Served, FreeWait, IdleJob, Bounds DEF Arriving, phone, Quiet,
       Heard, Others, Done, Joins, Fails, Ends, SignsOut, Enters
  <2>4. abandoned' = 0 /\ Renewing => Renewing'
    BY <1>17, RefreshRefusedDoes, Served, FreeWait, IdleJob, Bounds DEF Renewing, phone, Quiet,
       Heard, Others, Done, Joins, Fails, Ends, SignsOut, Enters
  <2>5. refresh'.at = "sent" => /\ refresh.at = "sent" /\ refresh'.t = refresh.t
                                /\ ~Revoking => ~Revoking'
    BY <1>17, RefreshRefusedDoes, Served, FreeWait, IdleJob, Bounds DEF Revoking, phone, Quiet,
       Heard, Others, Done, Joins, Fails, Ends, SignsOut, Enters
  <2>6. QED
    BY <2>1, <2>2, <2>3, <2>4, <2>5, KeptKeeps
<1>18. ASSUME RefreshGranted
      PROVE  Kept'
  <2> DEFINE g == refresh.h
  <2>1. /\ g \in Handlers /\ Heard(g) /\ handler[g].at = "ok" /\ handler[g].t \in Tokens
        /\ refresh' = [at |-> "access", h |-> None, t |-> handler[g].t]
        /\ UNCHANGED <<token, app, login, abandoned>>
    BY <1>18, RefreshGrantedDoes DEF redis, tally
  <2>2. \A k \in Handlers : Granted(k)' => Granted(k) /\ handler'[k] = handler[k]
    BY <2>1, IdleJob DEF Granted, Heard, Others
  <2>3. Arriving(login)' = Arriving(login) /\ Arriving(refresh)' = {handler[g].t} /\ Granted(g)
    BY <2>1, Bounds DEF Arriving, Granted
  <2>4. ASSUME abandoned = 0
        PROVE  Stored' /\ Coming' /\ Unhurt'
    <3>1. Coming
      BY <2>4 DEF Kept
    <3>2. Stored' /\ Unhurt'
      BY <2>1 DEF Stored, Unhurt, Renewing
    <3>3. Coming'
      BY <2>1, <2>2, <2>3, <3>1 DEF Coming, Unread, Live, Loner
    <3>4. QED
      BY <3>2, <3>3
  <2>5. QED
    BY <2>1, <2>4 DEF Kept
<1>19. ASSUME SaveRefreshed
      PROVE  Kept'
  <2>1. CASE refresh.at = "access"
    <3>1. /\ UNCHANGED <<token, handler, login, abandoned>> /\ app'.refresh = app.refresh
          /\ app'.device = app.device /\ refresh'.at = "refresh" /\ refresh'.t = refresh.t
      BY <1>19, <2>1, SaveRefreshedDoes DEF redis, tally
    <3>2. Arriving(login)' = Arriving(login) /\ Arriving(refresh)' = Arriving(refresh)
      BY <2>1, <3>1 DEF Arriving
    <3>3. QED
      BY <3>1, <3>2, KeptKeeps DEF Granted, Renewing
  <2>2. CASE refresh.at = "refresh"
    <3>1. /\ UNCHANGED <<token, handler, abandoned>> /\ app'.refresh = refresh.t
          /\ app'.device = app.device /\ refresh' = Free /\ Arriving(login)' = Arriving(login)
      BY <1>19, <2>2, SaveRefreshedDoes DEF redis, tally, Arriving
    <3>2. Arriving(refresh) = {refresh.t} /\ Arriving(refresh)' = {}
      BY <2>2, <3>1, FreeWait DEF Arriving
    <3>3. ASSUME abandoned = 0
          PROVE  Stored' /\ Coming' /\ Unhurt'
      <4>1. Coming /\ refresh.t \in Live
        BY <3>2, <3>3 DEF Kept, Coming, Unread
      <4>2. Stored' /\ Unhurt'
        BY <3>1, <4>1, FreeWait DEF Stored, Unhurt, Live
      <4>3. Coming'
        BY <3>1, <3>2, <4>1 DEF Coming, Unread, Granted, Live, Loner
      <4>4. QED
        BY <4>2, <4>3
    <3>4. QED
      BY <3>1, <3>3 DEF Kept
  <2>3. QED
    BY <1>19, <2>1, <2>2, SaveRefreshedDoes
<1>20. ASSUME NEW result \in {"network", "401"}, RefreshLost(result)
      PROVE  Kept'
  BY <1>20, RefreshLostDoes, KeptKept
<1>21. ASSUME Launch
      PROVE  Kept'
  BY <1>21, LaunchKept
<1>22. QED
  BY <1>1, <1>2, <1>3, <1>4, <1>5, <1>6, <1>7, <1>8, <1>9, <1>10, <1>11, <1>12, <1>13, <1>14,
     <1>15, <1>16, <1>17, <1>18, <1>19, <1>20, <1>21, NextPairs

LEMMA AccessKeeps ==
    ASSUME Base, Access, expired' = expired,
           \A t \in Tokens : InUse(t)' => InUse(t) \/ Delivered(t),
           \A t \in Tokens : Born(t) => Born(t)',
           \A h \in Handlers : Granted(h)' => Granted(h) /\ handler'[h].t = handler[h].t,
           \A t \in Tokens : t \in Unread' => \/ t \in Unread
                                             \/ \E h \in Handlers : Granted(h) /\ handler[h].t = t
    PROVE  Access'
<1>1. \A t \in Tokens : InUse(t) => Delivered(t)
  BY DEF Access
<1>2. \A t \in Tokens : Delivered(t) => Delivered(t)'
  BY DEF Delivered
<1>3. expired \subseteq Tokens
  BY DEF Base, Typed
<1>4. ASSUME NEW t \in expired
      PROVE  t \notin Unread'
  <2>1. t \in Tokens /\ t \notin Unread /\ Delivered(t)
    BY <1>1, <1>3, <1>4 DEF Access, InUse
  <2>2. QED
    BY <2>1 DEF Delivered
<1>5. expired' \cap Unread' = {}
  BY <1>4
<1>6. QED
  BY <1>1, <1>2, <1>5 DEF Access

LEMMA IssueTokensAccess ==
    ASSUME Base, Access, NEW h \in Handlers, IssueTokens(h)
    PROVE  Access'
<1>1. PICK t \in Tokens, f \in Tokens : Issues(h, t, f)
  BY IssueTokensDoes
<1>2. /\ Replies(h, "ok", t) /\ ~Born(t) /\ UNCHANGED <<app, login, refresh, call, expired>>
      /\ \A u \in Tokens : Born(u) => Born(u)'
  BY <1>1, IssueTokensDoes DEF Issues, Born, Untouched, phone
<1>3. \A u \in Tokens : InUse(u)' = InUse(u)
  BY <1>2 DEF InUse
<1>4. \A k \in Handlers : Granted(k)' => \/ (k = h /\ handler'[k].t = t)
                                        \/ (Granted(k) /\ handler'[k].t = handler[k].t)
  BY <1>2, IdleJob DEF Granted, Replies, Others
<1>5. \A u \in Tokens : Delivered(u) => Delivered(u)'
  BY <1>2, <1>4 DEF Delivered
<1>6. Unread' = Unread
  BY <1>2 DEF Unread, Arriving
<1>7. QED
  BY <1>2, <1>3, <1>5, <1>6 DEF Access

LEMMA AccessStep ==
    ASSUME Base, Access, [Next]_vars
    PROVE  Access'
<1>1. CASE Hushed
  <2>1. \A k \in Handlers : Granted(k)' => Granted(k) /\ handler'[k].t = handler[k].t
    BY <1>1 DEF Hushed, Gentle, Aside, Granted
  <2>2. \A t \in Tokens : t \in Unread' => t \in Unread
    BY <1>1 DEF Hushed, Gentle, Unread, Arriving
  <2>3. \A t \in Tokens : InUse(t)' => InUse(t)
    BY <1>1 DEF Hushed, InUse
  <2>4. QED
    BY <1>1, <2>1, <2>2, <2>3, AccessKeeps DEF Hushed, Gentle, Born
<1>2. ASSUME NEW h \in Handlers, ReadRefresh(h)
      PROVE  Access'
  <2>1. expired' = expired /\ \A t \in Tokens : Born(t) => Born(t)'
    BY <1>2, ReadRefreshDoes, Served, FreeWait, IdleJob, NoCallRow, Bounds DEF redis, phone,
       tally, Quiet, Born, Others, Replies, Moves, Turns, Done, Coding, Working
  <2>2. \A k \in Handlers : Granted(k)' => Granted(k) /\ handler'[k].t = handler[k].t
    BY <1>2, ReadRefreshDoes, Served, FreeWait, IdleJob, NoCallRow, Bounds DEF Granted, phone,
       Quiet, Others, Replies, Moves, Turns, Done, Coding, Working
  <2>3. \A t \in Tokens : t \in Unread' => t \in Unread
    BY <1>2, ReadRefreshDoes, Served, FreeWait, IdleJob, NoCallRow, Bounds DEF Unread, Arriving,
       phone, Quiet, Others, Replies, Moves, Turns, Done, Coding, Working
  <2>4. \A t \in Tokens : InUse(t)' => InUse(t)
    BY <1>2, ReadRefreshDoes, Served, FreeWait, IdleJob, NoCallRow, Bounds DEF InUse, phone,
       Quiet, Over, Sends, Others, Replies, Moves, Turns, Done, Coding, Working
  <2>5. QED
    BY <2>1, <2>2, <2>3, <2>4, AccessKeeps
<1>3. ASSUME NEW h \in Handlers, LookupUser(h)
      PROVE  Access'
  <2>1. expired' = expired /\ \A t \in Tokens : Born(t) => Born(t)'
    BY <1>3, LookupUserDoes, Served, FreeWait, IdleJob, NoCallRow, Bounds DEF redis, phone,
       tally, Quiet, Born, Others, Replies, Moves, Turns, Done, Coding, Working
  <2>2. \A k \in Handlers : Granted(k)' => Granted(k) /\ handler'[k].t = handler[k].t
    BY <1>3, LookupUserDoes, Served, FreeWait, IdleJob, NoCallRow, Bounds DEF Granted, phone,
       Quiet, Others, Replies, Moves, Turns, Done, Coding, Working
  <2>3. \A t \in Tokens : t \in Unread' => t \in Unread
    BY <1>3, LookupUserDoes, Served, FreeWait, IdleJob, NoCallRow, Bounds DEF Unread, Arriving,
       phone, Quiet, Others, Replies, Moves, Turns, Done, Coding, Working
  <2>4. \A t \in Tokens : InUse(t)' => InUse(t)
    BY <1>3, LookupUserDoes, Served, FreeWait, IdleJob, NoCallRow, Bounds DEF InUse, phone,
       Quiet, Over, Sends, Others, Replies, Moves, Turns, Done, Coding, Working
  <2>5. QED
    BY <2>1, <2>2, <2>3, <2>4, AccessKeeps
<1>4. ASSUME NEW h \in Handlers, Rotate(h)
      PROVE  Access'
  <2>1. /\ UNCHANGED <<app, login, refresh, call, expired>> /\ Moves(h, "issue")
        /\ \A t \in Tokens : Born(t) => Born(t)'
    BY <1>4, RotateDoes DEF phone, tally, Untouched, Born
  <2>2. QED
    BY <2>1, AccessKeeps DEF Granted, Moves, Turns, Others, Unread, Arriving, InUse
<1>5. ASSUME NEW h \in Handlers, IssueTokens(h)
      PROVE  Access'
  BY <1>5, IssueTokensAccess
<1>6. ASSUME NEW h \in Handlers, ReadMembers(h)
      PROVE  Access'
  <2>1. expired' = expired /\ \A t \in Tokens : Born(t) => Born(t)'
    BY <1>6, ReadMembersDoes, Served, FreeWait, IdleJob, NoCallRow, Bounds DEF redis, phone,
       tally, Quiet, Born, Others, Replies, Moves, Turns, Done, Coding, Working
  <2>2. \A k \in Handlers : Granted(k)' => Granted(k) /\ handler'[k].t = handler[k].t
    BY <1>6, ReadMembersDoes, Served, FreeWait, IdleJob, NoCallRow, Bounds DEF Granted, phone,
       Quiet, Others, Replies, Moves, Turns, Done, Coding, Working
  <2>3. \A t \in Tokens : t \in Unread' => t \in Unread
    BY <1>6, ReadMembersDoes, Served, FreeWait, IdleJob, NoCallRow, Bounds DEF Unread, Arriving,
       phone, Quiet, Others, Replies, Moves, Turns, Done, Coding, Working
  <2>4. \A t \in Tokens : InUse(t)' => InUse(t)
    BY <1>6, ReadMembersDoes, Served, FreeWait, IdleJob, NoCallRow, Bounds DEF InUse, phone,
       Quiet, Over, Sends, Others, Replies, Moves, Turns, Done, Coding, Working
  <2>5. QED
    BY <2>1, <2>2, <2>3, <2>4, AccessKeeps
<1>7. ASSUME NEW h \in Handlers, RevokeFamily(h)
      PROVE  Access'
  <2>1. /\ UNCHANGED <<app, login, refresh, call, expired>> /\ Replies(h, "refused", None)
        /\ \A t \in Tokens : Born(t) => Born(t)'
    BY <1>7, RevokeFamilyDoes DEF phone, tally, Revokes, Born
  <2>2. QED
    BY <2>1, AccessKeeps, IdleJob DEF Granted, Replies, Others, Unread, Arriving, InUse
<1>8. ASSUME NEW h \in Handlers, ServerError(h)
      PROVE  Access'
  <2>1. expired' = expired /\ \A t \in Tokens : Born(t) => Born(t)'
    BY <1>8, ServerErrorDoes, Served, FreeWait, IdleJob, NoCallRow, Bounds DEF redis, phone,
       tally, Quiet, Born, Others, Replies, Moves, Turns, Done, Coding, Working
  <2>2. \A k \in Handlers : Granted(k)' => Granted(k) /\ handler'[k].t = handler[k].t
    BY <1>8, ServerErrorDoes, Served, FreeWait, IdleJob, NoCallRow, Bounds DEF Granted, phone,
       Quiet, Others, Replies, Moves, Turns, Done, Coding, Working
  <2>3. \A t \in Tokens : t \in Unread' => t \in Unread
    BY <1>8, ServerErrorDoes, Served, FreeWait, IdleJob, NoCallRow, Bounds DEF Unread, Arriving,
       phone, Quiet, Others, Replies, Moves, Turns, Done, Coding, Working
  <2>4. \A t \in Tokens : InUse(t)' => InUse(t)
    BY <1>8, ServerErrorDoes, Served, FreeWait, IdleJob, NoCallRow, Bounds DEF InUse, phone,
       Quiet, Over, Sends, Others, Replies, Moves, Turns, Done, Coding, Working
  <2>5. QED
    BY <2>1, <2>2, <2>3, <2>4, AccessKeeps
<1>9. ASSUME NEW h \in Handlers, SignInTimesOut(h)
      PROVE  Access'
  <2>1. expired' = expired /\ \A t \in Tokens : Born(t) => Born(t)'
    BY <1>9, SignInTimesOutDoes, Served, FreeWait, IdleJob, NoCallRow, Bounds DEF redis, phone,
       tally, Quiet, Born, Forsakes, LeftAlone, Others, Done, Fails, Ends, SignsOut, Enters
  <2>2. \A k \in Handlers : Granted(k)' => Granted(k) /\ handler'[k].t = handler[k].t
    BY <1>9, SignInTimesOutDoes, Served, FreeWait, IdleJob, NoCallRow, Bounds DEF Granted, phone,
       Quiet, Forsakes, LeftAlone, Others, Done, Fails, Ends, SignsOut, Enters
  <2>3. \A t \in Tokens : t \in Unread' => t \in Unread
    BY <1>9, SignInTimesOutDoes, Served, FreeWait, IdleJob, NoCallRow, Bounds DEF Unread,
       Arriving, phone, Quiet, Forsakes, LeftAlone, Others, Done, Fails, Ends, SignsOut, Enters
  <2>4. \A t \in Tokens : InUse(t)' => InUse(t)
    BY <1>9, SignInTimesOutDoes, Served, FreeWait, IdleJob, NoCallRow, Bounds DEF InUse, phone,
       Quiet, Over, Sends, Forsakes, LeftAlone, Others, Done, Fails, Ends, SignsOut, Enters
  <2>5. QED
    BY <2>1, <2>2, <2>3, <2>4, AccessKeeps
<1>10. ASSUME NEW h \in Handlers, StartRefresh(h)
      PROVE  Access'
  <2>1. expired' = expired /\ \A t \in Tokens : Born(t) => Born(t)'
    BY <1>10, StartRefreshDoes, Served, FreeWait, IdleJob, NoCallRow, Bounds DEF redis, phone,
       tally, Quiet, Born, Starts, Others, Coding
  <2>2. \A k \in Handlers : Granted(k)' => Granted(k) /\ handler'[k].t = handler[k].t
    BY <1>10, StartRefreshDoes, Served, FreeWait, IdleJob, NoCallRow, Bounds DEF Granted, phone,
       Quiet, Starts, Others, Coding
  <2>3. \A t \in Tokens : t \in Unread' => t \in Unread
    BY <1>10, StartRefreshDoes, Served, FreeWait, IdleJob, NoCallRow, Bounds DEF Unread, Arriving,
       phone, Quiet, Starts, Others, Coding
  <2>4. \A t \in Tokens : InUse(t)' => InUse(t)
    BY <1>10, StartRefreshDoes, Served, FreeWait, IdleJob, NoCallRow, Bounds DEF InUse, phone,
       Quiet, Over, Sends, Starts, Others, Coding
  <2>5. QED
    BY <2>1, <2>2, <2>3, <2>4, AccessKeeps
<1>11. ASSUME SignInAnswered
      PROVE  Access'
  <2>1. /\ login.h \in Handlers /\ Heard(login.h) /\ UNCHANGED <<token, call, expired>>
        /\ app'.access = app.access
    BY <1>11, SignInAnsweredDoes DEF redis
  <2>2. \A k \in Handlers : Granted(k)' => Granted(k) /\ handler'[k].t = handler[k].t
    BY <2>1, IdleJob DEF Granted, Heard, Others
  <2>3. \/ Arriving(login)' = {}
        \/ Granted(login.h) /\ Arriving(login)' = {handler[login.h].t}
    BY <1>11, SignInAnsweredDoes, FreeWait, Bounds DEF Granted, Arriving
  <2>4. Arriving(refresh)' \subseteq Arriving(refresh)
    BY <1>11, SignInAnsweredDoes DEF Arriving, Joins
  <2>5. \A t \in Tokens : InUse(t)' = InUse(t) /\ Born(t)' = Born(t)
    BY <2>1 DEF InUse, Born
  <2>6. QED
    BY <2>1, <2>2, <2>3, <2>4, <2>5, AccessKeeps DEF Unread
<1>12. ASSUME SaveSignIn
      PROVE  Access'
  <2>1. /\ UNCHANGED <<token, handler, refresh, call, expired>> /\ login.t \in Unread
        /\ app'.access \in {app.access, login.t} /\ Arriving(login)' \subseteq Arriving(login)
    BY <1>12, SaveSignInDoes, FreeWait DEF redis, Unread, Arriving
  <2>2. Delivered(login.t)
    BY <2>1 DEF Base, Distinct, OnePlace, Delivered
  <2>3. \A t \in Tokens : InUse(t)' => InUse(t) \/ t = login.t
    BY <2>1 DEF InUse
  <2>4. Arriving(refresh)' = Arriving(refresh)
    BY <2>1 DEF Arriving
  <2>5. QED
    BY <2>1, <2>2, <2>3, <2>4, AccessKeeps DEF Unread, Granted, Born
<1>13. ASSUME SaveFails
      PROVE  Access'
  <2>1. expired' = expired /\ \A t \in Tokens : Born(t) => Born(t)'
    BY <1>13, SaveFailsDoes, Served, FreeWait, IdleJob, NoCallRow, Bounds DEF redis, phone, tally,
       Quiet, Born, Over, Joins, Sends, Fails, Ends, SignsOut, Enters
  <2>2. \A k \in Handlers : Granted(k)' => Granted(k) /\ handler'[k].t = handler[k].t
    BY <1>13, SaveFailsDoes, Served, FreeWait, IdleJob, NoCallRow, Bounds DEF Granted, phone,
       Quiet, Over, Joins, Sends, Fails, Ends, SignsOut, Enters
  <2>3. \A t \in Tokens : t \in Unread' => t \in Unread
    BY <1>13, SaveFailsDoes, Served, FreeWait, IdleJob, NoCallRow, Bounds DEF Unread, Arriving,
       phone, Quiet, Over, Joins, Sends, Fails, Ends, SignsOut, Enters
  <2>4. \A t \in Tokens : InUse(t)' => InUse(t)
    BY <1>13, SaveFailsDoes, Served, FreeWait, IdleJob, NoCallRow, Bounds DEF InUse, phone, Quiet,
       Over, Sends, Over, Joins, Sends, Fails, Ends, SignsOut, Enters
  <2>5. QED
    BY <2>1, <2>2, <2>3, <2>4, AccessKeeps
<1>14. ASSUME NEW c \in Calls, NEW kind \in {"api", "logout"}, StartCall(c, kind)
      PROVE  Access'
  <2>1. expired' = expired /\ \A t \in Tokens : Born(t) => Born(t)'
    BY <1>14, StartCallDoes, Served, FreeWait, IdleJob, NoCallRow, Bounds DEF redis, phone, tally,
       Quiet, Born, Over, Joins, Sends, Fails, Ends, SignsOut, Enters
  <2>2. \A k \in Handlers : Granted(k)' => Granted(k) /\ handler'[k].t = handler[k].t
    BY <1>14, StartCallDoes, Served, FreeWait, IdleJob, NoCallRow, Bounds DEF Granted, phone,
       Quiet, Over, Joins, Sends, Fails, Ends, SignsOut, Enters
  <2>3. \A t \in Tokens : t \in Unread' => t \in Unread
    BY <1>14, StartCallDoes, Served, FreeWait, IdleJob, NoCallRow, Bounds DEF Unread, Arriving,
       phone, Quiet, Over, Joins, Sends, Fails, Ends, SignsOut, Enters
  <2>4. \A t \in Tokens : InUse(t)' => InUse(t)
    <3>1. \A k \in Calls : call'[k].bearer \in {call[k].bearer, app.access}
      BY <1>14, StartCallDoes DEF Sends
    <3>2. app'.access = app.access /\ expired' = expired
      BY <1>14, StartCallDoes
    <3>3. QED
      BY <3>1, <3>2 DEF InUse
  <2>5. QED
    BY <2>1, <2>2, <2>3, <2>4, AccessKeeps
<1>15. ASSUME NEW c \in Calls, Answered(c)
      PROVE  Access'
  <2>1. expired' = expired /\ \A t \in Tokens : Born(t) => Born(t)'
    BY <1>15, AnsweredDoes, Served, FreeWait, IdleJob, NoCallRow, Bounds DEF redis, phone, tally,
       Quiet, Born, Over, Joins, Sends, Fails, Ends, SignsOut, Enters
  <2>2. \A k \in Handlers : Granted(k)' => Granted(k) /\ handler'[k].t = handler[k].t
    BY <1>15, AnsweredDoes, Served, FreeWait, IdleJob, NoCallRow, Bounds DEF Granted, phone,
       Quiet, Over, Joins, Sends, Fails, Ends, SignsOut, Enters
  <2>3. \A t \in Tokens : t \in Unread' => t \in Unread
    BY <1>15, AnsweredDoes, Served, FreeWait, IdleJob, NoCallRow, Bounds DEF Unread, Arriving,
       phone, Quiet, Over, Joins, Sends, Fails, Ends, SignsOut, Enters
  <2>4. \A t \in Tokens : InUse(t)' => InUse(t)
    BY <1>15, AnsweredDoes, Served, FreeWait, IdleJob, NoCallRow, Bounds DEF InUse, phone, Quiet,
       Over, Sends, Over, Joins, Sends, Fails, Ends, SignsOut, Enters
  <2>5. QED
    BY <2>1, <2>2, <2>3, <2>4, AccessKeeps
<1>16. ASSUME NEW c \in Calls, Unanswered(c)
      PROVE  Access'
  <2>1. expired' = expired /\ \A t \in Tokens : Born(t) => Born(t)'
    BY <1>16, UnansweredDoes, Served, FreeWait, IdleJob, NoCallRow, Bounds DEF redis, phone,
       tally, Quiet, Born, Over, Joins, Sends, Fails, Ends, SignsOut, Enters
  <2>2. \A k \in Handlers : Granted(k)' => Granted(k) /\ handler'[k].t = handler[k].t
    BY <1>16, UnansweredDoes, Served, FreeWait, IdleJob, NoCallRow, Bounds DEF Granted, phone,
       Quiet, Over, Joins, Sends, Fails, Ends, SignsOut, Enters
  <2>3. \A t \in Tokens : t \in Unread' => t \in Unread
    BY <1>16, UnansweredDoes, Served, FreeWait, IdleJob, NoCallRow, Bounds DEF Unread, Arriving,
       phone, Quiet, Over, Joins, Sends, Fails, Ends, SignsOut, Enters
  <2>4. \A t \in Tokens : InUse(t)' => InUse(t)
    BY <1>16, UnansweredDoes, Served, FreeWait, IdleJob, NoCallRow, Bounds DEF InUse, phone,
       Quiet, Over, Sends, Over, Joins, Sends, Fails, Ends, SignsOut, Enters
  <2>5. QED
    BY <2>1, <2>2, <2>3, <2>4, AccessKeeps
<1>17. ASSUME NEW c \in Calls, Restore(c)
      PROVE  Access'
  <2>1. expired' = expired /\ \A t \in Tokens : Born(t) => Born(t)'
    BY <1>17, RestoreDoes, Served, FreeWait, IdleJob, NoCallRow, Bounds DEF redis, phone, tally,
       Quiet, Born, Over, Joins, Sends, Fails, Ends, SignsOut, Enters
  <2>2. \A k \in Handlers : Granted(k)' => Granted(k) /\ handler'[k].t = handler[k].t
    BY <1>17, RestoreDoes, Served, FreeWait, IdleJob, NoCallRow, Bounds DEF Granted, phone, Quiet,
       Over, Joins, Sends, Fails, Ends, SignsOut, Enters
  <2>3. \A t \in Tokens : t \in Unread' => t \in Unread
    BY <1>17, RestoreDoes, Served, FreeWait, IdleJob, NoCallRow, Bounds DEF Unread, Arriving,
       phone, Quiet, Over, Joins, Sends, Fails, Ends, SignsOut, Enters
  <2>4. \A t \in Tokens : InUse(t)' => InUse(t)
    <3>1. \A k \in Calls : call'[k].bearer \in {call[k].bearer, app.access}
      BY <1>17, RestoreDoes DEF Sends
    <3>2. app'.access = app.access /\ expired' = expired
      BY <1>17, RestoreDoes
    <3>3. QED
      BY <3>1, <3>2 DEF InUse
  <2>5. QED
    BY <2>1, <2>2, <2>3, <2>4, AccessKeeps
<1>18. ASSUME NothingToRefresh
      PROVE  Access'
  <2>1. expired' = expired /\ \A t \in Tokens : Born(t) => Born(t)'
    BY <1>18, NothingToRefreshDoes, Served, FreeWait, IdleJob, NoCallRow, Bounds DEF redis, phone,
       tally, Quiet, Born, Over, Joins, Sends, Fails, Ends, SignsOut, Enters
  <2>2. \A k \in Handlers : Granted(k)' => Granted(k) /\ handler'[k].t = handler[k].t
    BY <1>18, NothingToRefreshDoes, Served, FreeWait, IdleJob, NoCallRow, Bounds DEF Granted,
       phone, Quiet, Over, Joins, Sends, Fails, Ends, SignsOut, Enters
  <2>3. \A t \in Tokens : t \in Unread' => t \in Unread
    BY <1>18, NothingToRefreshDoes, Served, FreeWait, IdleJob, NoCallRow, Bounds DEF Unread,
       Arriving, phone, Quiet, Over, Joins, Sends, Fails, Ends, SignsOut, Enters
  <2>4. \A t \in Tokens : InUse(t)' => InUse(t)
    BY <1>18, NothingToRefreshDoes, Served, FreeWait, IdleJob, NoCallRow, Bounds DEF InUse, phone,
       Quiet, Over, Sends, Over, Joins, Sends, Fails, Ends, SignsOut, Enters
  <2>5. QED
    BY <2>1, <2>2, <2>3, <2>4, AccessKeeps
<1>19. ASSUME RefreshRefused
      PROVE  Access'
  <2>1. expired' = expired /\ \A t \in Tokens : Born(t) => Born(t)'
    BY <1>19, RefreshRefusedDoes, Served, FreeWait, IdleJob, NoCallRow, Bounds DEF redis, phone,
       tally, Quiet, Born, Heard, Others, Done, Joins, Fails, Ends, SignsOut, Enters
  <2>2. \A k \in Handlers : Granted(k)' => Granted(k) /\ handler'[k].t = handler[k].t
    BY <1>19, RefreshRefusedDoes, Served, FreeWait, IdleJob, NoCallRow, Bounds DEF Granted, phone,
       Quiet, Heard, Others, Done, Joins, Fails, Ends, SignsOut, Enters
  <2>3. \A t \in Tokens : t \in Unread' => t \in Unread
    BY <1>19, RefreshRefusedDoes, Served, FreeWait, IdleJob, NoCallRow, Bounds DEF Unread,
       Arriving, phone, Quiet, Heard, Others, Done, Joins, Fails, Ends, SignsOut, Enters
  <2>4. \A t \in Tokens : InUse(t)' => InUse(t)
    BY <1>19, RefreshRefusedDoes, Served, FreeWait, IdleJob, NoCallRow, Bounds DEF InUse, phone,
       Quiet, Over, Sends, Heard, Others, Done, Joins, Fails, Ends, SignsOut, Enters
  <2>5. QED
    BY <2>1, <2>2, <2>3, <2>4, AccessKeeps
<1>20. ASSUME RefreshGranted
      PROVE  Access'
  <2>1. /\ refresh.h \in Handlers /\ Heard(refresh.h) /\ Granted(refresh.h)
        /\ Arriving(refresh)' = {handler[refresh.h].t}
        /\ UNCHANGED <<token, app, login, call, expired>>
    BY <1>20, RefreshGrantedDoes, Bounds DEF redis, tally, Granted, Arriving
  <2>2. \A k \in Handlers : Granted(k)' => Granted(k) /\ handler'[k].t = handler[k].t
    BY <2>1, IdleJob DEF Granted, Heard, Others
  <2>3. \A t \in Tokens : InUse(t)' = InUse(t) /\ Born(t)' = Born(t)
    BY <2>1 DEF InUse, Born
  <2>4. Arriving(login)' = Arriving(login)
    BY <2>1 DEF Arriving
  <2>5. QED
    BY <2>1, <2>2, <2>3, <2>4, AccessKeeps DEF Unread
<1>21. ASSUME SaveRefreshed
      PROVE  Access'
  <2>1. /\ UNCHANGED <<token, handler, expired>> /\ refresh.t \in Unread
        /\ app'.access \in {app.access, refresh.t} /\ Arriving(refresh)' \subseteq Arriving(refresh)
        /\ Arriving(login)' \subseteq Arriving(login)
    BY <1>21, SaveRefreshedDoes, FreeWait DEF redis, tally, Unread, Arriving
  <2>2. Delivered(refresh.t)
    BY <2>1 DEF Base, Distinct, OnePlace, Delivered
  <2>3. \A c \in Calls : call'[c].bearer \in {call[c].bearer, app.access}
    BY <1>21, SaveRefreshedDoes
  <2>4. \A t \in Tokens : InUse(t)' => InUse(t) \/ t = refresh.t
    BY <2>1, <2>3 DEF InUse
  <2>5. QED
    BY <2>1, <2>2, <2>4, AccessKeeps DEF Unread, Granted, Born
<1>22. ASSUME NEW result \in {"network", "401"}, RefreshLost(result)
      PROVE  Access'
  <2>1. expired' = expired /\ \A t \in Tokens : Born(t) => Born(t)'
    BY <1>22, RefreshLostDoes, Served, FreeWait, IdleJob, NoCallRow, Bounds DEF redis, phone,
       tally, Quiet, Born, Forsakes, LeftAlone, Others, Done, Fails, Ends, SignsOut, Enters
  <2>2. \A k \in Handlers : Granted(k)' => Granted(k) /\ handler'[k].t = handler[k].t
    BY <1>22, RefreshLostDoes, Served, FreeWait, IdleJob, NoCallRow, Bounds DEF Granted, phone,
       Quiet, Forsakes, LeftAlone, Others, Done, Fails, Ends, SignsOut, Enters
  <2>3. \A t \in Tokens : t \in Unread' => t \in Unread
    BY <1>22, RefreshLostDoes, Served, FreeWait, IdleJob, NoCallRow, Bounds DEF Unread, Arriving,
       phone, Quiet, Forsakes, LeftAlone, Others, Done, Fails, Ends, SignsOut, Enters
  <2>4. \A t \in Tokens : InUse(t)' => InUse(t)
    BY <1>22, RefreshLostDoes, Served, FreeWait, IdleJob, NoCallRow, Bounds DEF InUse, phone,
       Quiet, Over, Sends, Forsakes, LeftAlone, Others, Done, Fails, Ends, SignsOut, Enters
  <2>5. QED
    BY <2>1, <2>2, <2>3, <2>4, AccessKeeps
<1>23. ASSUME NEW t \in Tokens, ExpireAccess(t)
      PROVE  Access'
  <2>1. /\ InUse(t) /\ t \notin Unread /\ expired' = expired \cup {t}
        /\ UNCHANGED <<token, handler, app, login, refresh, call>>
    BY <1>23, ExpireAccessDoes DEF redis, phone, InUse, JustIssued, Unread
  <2>2. Unread' = Unread /\ \A u \in Tokens : Delivered(u)' = Delivered(u)
    BY <2>1 DEF Unread, Arriving, Delivered, Born, Granted
  <2>3. \A u \in Tokens : InUse(u)' => InUse(u)
    BY <2>1 DEF InUse
  <2>4. QED
    BY <2>1, <2>2, <2>3 DEF Access
<1>24. ASSUME Launch
      PROVE  Access'
  <2>1. expired' = expired /\ \A t \in Tokens : Born(t) => Born(t)'
    BY <1>24, LaunchDoes, Served, FreeWait, IdleJob, NoCallRow, Bounds DEF redis, phone, tally,
       Quiet, Born, Forsakes, LeftAlone, Others, Done, Fails, Ends, SignsOut, Enters
  <2>2. \A k \in Handlers : Granted(k)' => Granted(k) /\ handler'[k].t = handler[k].t
    BY <1>24, LaunchDoes, Served, FreeWait, IdleJob, NoCallRow, Bounds DEF Granted, phone, Quiet,
       Forsakes, LeftAlone, Others, Done, Fails, Ends, SignsOut, Enters
  <2>3. \A t \in Tokens : t \in Unread' => t \in Unread
    BY <1>24, LaunchDoes, Served, FreeWait, IdleJob, NoCallRow, Bounds DEF Unread, Arriving,
       phone, Quiet, Forsakes, LeftAlone, Others, Done, Fails, Ends, SignsOut, Enters
  <2>4. \A t \in Tokens : InUse(t)' => InUse(t)
    BY <1>24, LaunchDoes, Served, FreeWait, IdleJob, NoCallRow, Bounds DEF InUse, phone, Quiet,
       Over, Sends, Forsakes, LeftAlone, Others, Done, Fails, Ends, SignsOut, Enters
  <2>5. QED
    BY <2>1, <2>2, <2>3, <2>4, AccessKeeps
<1>25. QED
  BY <1>1, <1>2, <1>3, <1>4, <1>5, <1>6, <1>7, <1>8, <1>9, <1>10, <1>11, <1>12, <1>13, <1>14,
     <1>15, <1>16, <1>17, <1>18, <1>19, <1>20, <1>21, <1>22, <1>23, <1>24, NextTokens


\* The end of a call that was out leaves no check behind but on the checking screen.
LEMMA EndsChecking ==
    ASSUME Base, Checking, NEW c \in Calls, NEW result, call[c].at # "none", Ends(c, result),
           call'[c] = NoCall,
           \A k \in Calls \ {c} : call'[k] = call[k] \/ call'[k] = NoCall,
           login' \in {login, Free}
    PROVE  Checking'
<1>1. call[c] # NoCall /\ call[c].kind \in {"api", "logout", "restore"}
  BY NoCallRow DEF Base, Typed, CallRow
<1>2. \A k \in Calls : call'[k] = call[k] \/ call'[k] = NoCall
  OBVIOUS
<1>3. CASE call[c].kind = "api"
  BY <1>1, <1>2, <1>3, NoCallRow DEF Checking, Ends
<1>4. CASE call[c].kind # "api"
  <2>1. \A k \in Calls : call'[k].kind # "restore"
    BY <1>1, <1>2, <1>4, NoCallRow DEF Checking
  <2>2. \/ app'.stage = "phoneEntry"
        \/ app'.stage = "authenticated" /\ login = Free
    BY <1>1, <1>4 DEF Ends, SignsOut, Enters, Checking
  <2>3. QED
    BY <2>1, <2>2 DEF Checking
<1>5. QED
  BY <1>3, <1>4

LEMMA CheckingKeeps ==
    ASSUME Base, Checking, app'.stage = app.stage, login' \in {login, Free},
           \A c \in Calls : call'[c] \in {call[c], NoCall}
    PROVE  Checking'
BY NoCallRow DEF Checking

LEMMA FailsChecking ==
    ASSUME Base, Checking, NEW result, Fails(result)
    PROVE  Checking'
<1>1. login' \in {login, Free} /\ \A k \in Calls : call'[k] = call[k] \/ call'[k] = NoCall
  BY DEF Fails
<1>2. CASE UNCHANGED app
  BY <1>1, <1>2, CheckingKeeps
<1>3. CASE \E c \in Calls : call[c].at = "waiting" /\ call[c].kind # "api" /\ Ends(c, result)
  <2>1. PICK c \in Calls : call[c].at = "waiting" /\ Ends(c, result)
    BY <1>3
  <2>2. call'[c] = NoCall
    BY <2>1 DEF Fails
  <2>3. QED
    BY <1>1, <2>1, <2>2, EndsChecking
<1>4. QED
  BY <1>2, <1>3 DEF Fails

LEMMA OverChecking ==
    ASSUME Base, Checking, NEW c \in Calls, NEW result, call[c].at = "sent", Over(c, result),
           UNCHANGED login
    PROVE  Checking'
BY EndsChecking DEF Over

\* Signing in happens on other screens than the check.
LEMMA SigningIn ==
    ASSUME Base, Checking, login # Free,
           app'.stage \in {app.stage, "codeEntry", "phoneEntry"}, UNCHANGED call
    PROVE  Checking'
BY DEF Checking

LEMMA CheckingStep ==
    ASSUME Base, Checking, [Next]_vars
    PROVE  Checking'
<1>1. CASE UNCHANGED phone
  BY <1>1, CheckingKeeps DEF phone
<1>2. ASSUME NEW h \in Handlers, AskCode(h)
      PROVE  Checking'
  BY <1>2, AskCodeDoes DEF Checking
<1>3. ASSUME NEW h \in Handlers, NEW c \in 0..sent, TypeCode(h, c)
      PROVE  Checking'
  BY <1>3, TypeCodeDoes DEF Checking
<1>4. ASSUME NEW h \in Handlers, TypeAgain(h)
      PROVE  Checking'
  <2>1. login # Free /\ app'.stage \in {app.stage, "codeEntry"} /\ UNCHANGED call
    BY <1>4, TypeAgainDoes, FreeWait, Bounds DEF phone
  <2>2. QED
    BY <2>1, SigningIn
<1>5. ASSUME NEW h \in Handlers, SignInTimesOut(h)
      PROVE  Checking'
  <2>1. login # Free /\ app'.stage \in {app.stage, "codeEntry"} /\ UNCHANGED call
    BY <1>5, SignInTimesOutDoes, FreeWait, Bounds DEF phone
  <2>2. QED
    BY <2>1, SigningIn
<1>6. ASSUME NEW h \in Handlers, StartRefresh(h)
      PROVE  Checking'
  <2>1. app'.stage = app.stage /\ UNCHANGED <<login, call>>
    BY <1>6, StartRefreshDoes DEF phone, Quiet, tally
  <2>2. QED
    BY <2>1, CheckingKeeps
<1>7. ASSUME SignInAnswered
      PROVE  Checking'
  <2>1. login # Free /\ app'.stage \in {app.stage, "codeEntry"} /\ UNCHANGED call
    BY <1>7, SignInAnsweredDoes, FreeWait, Bounds DEF phone
  <2>2. QED
    BY <2>1, SigningIn
<1>8. ASSUME SaveSignIn
      PROVE  Checking'
  <2>1. /\ login # Free /\ UNCHANGED call
        /\ app'.stage = app.stage \/ (app'.stage = "authenticated" /\ login' = Free)
    BY <1>8, SaveSignInDoes, FreeWait
  <2>2. QED
    BY <2>1 DEF Checking
<1>9. ASSUME SaveFails
      PROVE  Checking'
  <2>1. CASE Fails("network")
    BY <2>1, FailsChecking
  <2>2. CASE login' = Free /\ UNCHANGED <<app, call>>
    BY <2>2, CheckingKeeps
  <2>3. QED
    BY <1>9, <2>1, <2>2, SaveFailsDoes
<1>10. ASSUME BackToPhone
      PROVE  Checking'
  BY <1>10, BackToPhoneDoes DEF Checking
<1>11. ASSUME NEW c \in Calls, NEW kind \in {"api", "logout"}, StartCall(c, kind)
      PROVE  Checking'
  BY <1>11, StartCallDoes, NoCallRow DEF Checking, Sends
<1>12. ASSUME NEW c \in Calls, Answered(c)
      PROVE  Checking'
  <2>1. CASE \E result : Over(c, result)
    BY <1>12, <2>1, OverChecking, AnsweredDoes
  <2>2. CASE /\ call'[c].at = "waiting" /\ call'[c].kind = call[c].kind /\ UNCHANGED app
             /\ \A k \in Calls \ {c} : call'[k] = call[k]
    BY <1>12, <2>2, AnsweredDoes, NoCallRow DEF Checking
  <2>3. QED
    BY <1>12, <2>1, <2>2, AnsweredDoes
<1>13. ASSUME NEW c \in Calls, Unanswered(c)
      PROVE  Checking'
  <2>1. CASE Over(c, "network")
    BY <1>13, <2>1, OverChecking, UnansweredDoes
  <2>2. CASE Sends(c, app.access, call[c].replayed) /\ call'[c].kind = call[c].kind /\ UNCHANGED app
    BY <1>13, <2>2, UnansweredDoes, NoCallRow DEF Checking, Sends
  <2>3. QED
    BY <1>13, <2>1, <2>2, UnansweredDoes
<1>14. ASSUME NEW c \in Calls, Restore(c)
      PROVE  Checking'
  <2>1. /\ app.stage = "checking" /\ login = Free /\ UNCHANGED login
        /\ \A k \in Calls : call[k] = NoCall
    BY <1>14, RestoreDoes DEF Checking
  <2>2. CASE app'.stage = "phoneEntry" /\ UNCHANGED call
    BY <2>1, <2>2, NoCallRow DEF Checking
  <2>3. CASE Sends(c, app.access, FALSE) /\ call'[c].kind = "restore" /\ UNCHANGED app
    BY <2>1, <2>3, NoCallRow DEF Checking, Sends
  <2>4. QED
    BY <1>14, <2>2, <2>3, RestoreDoes
<1>15. ASSUME NothingToRefresh
      PROVE  Checking'
  BY <1>15, NothingToRefreshDoes, FailsChecking
<1>16. ASSUME RefreshRefused
      PROVE  Checking'
  BY <1>16, RefreshRefusedDoes, FailsChecking
<1>17. ASSUME RefreshGranted
      PROVE  Checking'
  <2>1. app'.stage = app.stage /\ UNCHANGED <<login, call>>
    BY <1>17, RefreshGrantedDoes DEF phone, Quiet, tally
  <2>2. QED
    BY <2>1, CheckingKeeps
<1>18. ASSUME SaveRefreshed
      PROVE  Checking'
  <2>1. CASE UNCHANGED <<login, call>>
    BY <1>18, <2>1, SaveRefreshedDoes, CheckingKeeps
  <2>2. CASE ~UNCHANGED <<login, call>>
    <3>1. /\ app'.stage = app.stage /\ (login # Free \/ login' = login)
          /\ \A c \in Calls : \/ call[c].at = "waiting" /\ call'[c].kind = call[c].kind
                              \/ call'[c] = call[c]
      BY <1>18, <2>2, SaveRefreshedDoes, FreeWait
    <3>2. QED
      BY <3>1, NoCallRow DEF Checking
  <2>3. QED
    BY <2>1, <2>2
<1>19. ASSUME NEW result \in {"network", "401"}, RefreshLost(result)
      PROVE  Checking'
  BY <1>19, RefreshLostDoes, FailsChecking
<1>20. ASSUME Launch
      PROVE  Checking'
  BY <1>20, LaunchDoes, NoCallRow DEF Checking
<1>21. QED
  BY <1>1, <1>2, <1>3, <1>4, <1>5, <1>6, <1>7, <1>8, <1>9, <1>10, <1>11, <1>12, <1>13, <1>14,
     <1>15, <1>16, <1>17, <1>18, <1>19, <1>20, NextPhone


LEMMA RenewsKeeps ==
    ASSUME Base, Renews, \/ app'.stage # "checking"
                         \/ /\ app'.stage = app.stage /\ app'.refresh = app.refresh
                            /\ app'.access = app.access,
           \/ refresh' = refresh \/ refresh'.at \notin {"sent", "refresh"}
    PROVE  Renews'
BY DEF Renews

LEMMA RenewsStep ==
    ASSUME Base, Checking, Renews, [Next]_vars
    PROVE  Renews'
<1>1. CASE UNCHANGED phone
  BY <1>1, RenewsKeeps DEF phone
<1>2. ASSUME NEW h \in Handlers, AskCode(h)
      PROVE  Renews'
  <2>1. \/ app'.stage # "checking"
        \/ app'.stage = app.stage /\ app'.refresh = app.refresh /\ app'.access = app.access
    BY <1>2, AskCodeDoes DEF phone, Quiet, tally, Over, Joins, Fails, Ends, SignsOut, Enters
  <2>2. refresh' = refresh \/ refresh'.at \notin {"sent", "refresh"}
    BY <1>2, AskCodeDoes, FreeWait DEF phone, Quiet, tally, Over, Joins, Fails, Ends, SignsOut,
       Enters
  <2>3. QED
    BY <2>1, <2>2, RenewsKeeps
<1>3. ASSUME NEW h \in Handlers, NEW c \in 0..sent, TypeCode(h, c)
      PROVE  Renews'
  <2>1. \/ app'.stage # "checking"
        \/ app'.stage = app.stage /\ app'.refresh = app.refresh /\ app'.access = app.access
    BY <1>3, TypeCodeDoes DEF phone, Quiet, tally, Over, Joins, Fails, Ends, SignsOut, Enters
  <2>2. refresh' = refresh \/ refresh'.at \notin {"sent", "refresh"}
    BY <1>3, TypeCodeDoes, FreeWait DEF phone, Quiet, tally, Over, Joins, Fails, Ends, SignsOut,
       Enters
  <2>3. QED
    BY <2>1, <2>2, RenewsKeeps
<1>4. ASSUME NEW h \in Handlers, TypeAgain(h)
      PROVE  Renews'
  <2>1. \/ app'.stage # "checking"
        \/ app'.stage = app.stage /\ app'.refresh = app.refresh /\ app'.access = app.access
    BY <1>4, TypeAgainDoes DEF phone, Quiet, tally, Over, Joins, Fails, Ends, SignsOut, Enters
  <2>2. refresh' = refresh \/ refresh'.at \notin {"sent", "refresh"}
    BY <1>4, TypeAgainDoes, FreeWait DEF phone, Quiet, tally, Over, Joins, Fails, Ends, SignsOut,
       Enters
  <2>3. QED
    BY <2>1, <2>2, RenewsKeeps
<1>5. ASSUME NEW h \in Handlers, SignInTimesOut(h)
      PROVE  Renews'
  <2>1. \/ app'.stage # "checking"
        \/ app'.stage = app.stage /\ app'.refresh = app.refresh /\ app'.access = app.access
    BY <1>5, SignInTimesOutDoes DEF phone, Quiet, tally, Over, Joins, Fails, Ends, SignsOut, Enters
  <2>2. refresh' = refresh \/ refresh'.at \notin {"sent", "refresh"}
    BY <1>5, SignInTimesOutDoes, FreeWait DEF phone, Quiet, tally, Over, Joins, Fails, Ends,
       SignsOut, Enters
  <2>3. QED
    BY <2>1, <2>2, RenewsKeeps
<1>6. ASSUME NEW h \in Handlers, StartRefresh(h)
      PROVE  Renews'
  BY <1>6, StartRefreshDoes DEF Renews
<1>7. ASSUME SignInAnswered
      PROVE  Renews'
  <2>1. \/ app'.stage # "checking"
        \/ app'.stage = app.stage /\ app'.refresh = app.refresh /\ app'.access = app.access
    BY <1>7, SignInAnsweredDoes DEF phone, Quiet, tally, Over, Joins, Fails, Ends, SignsOut, Enters
  <2>2. refresh' = refresh \/ refresh'.at \notin {"sent", "refresh"}
    BY <1>7, SignInAnsweredDoes, FreeWait DEF phone, Quiet, tally, Over, Joins, Fails, Ends,
       SignsOut, Enters
  <2>3. QED
    BY <2>1, <2>2, RenewsKeeps
<1>8. ASSUME SaveSignIn
      PROVE  Renews'
  <2>1. app'.stage # "checking" /\ UNCHANGED refresh
    BY <1>8, SaveSignInDoes, FreeWait DEF Checking
  <2>2. QED
    BY <2>1, RenewsKeeps
<1>9. ASSUME SaveFails
      PROVE  Renews'
  <2>1. \/ app'.stage # "checking"
        \/ app'.stage = app.stage /\ app'.refresh = app.refresh /\ app'.access = app.access
    BY <1>9, SaveFailsDoes DEF phone, Quiet, tally, Over, Joins, Fails, Ends, SignsOut, Enters
  <2>2. refresh' = refresh \/ refresh'.at \notin {"sent", "refresh"}
    BY <1>9, SaveFailsDoes, FreeWait DEF phone, Quiet, tally, Over, Joins, Fails, Ends, SignsOut,
       Enters
  <2>3. QED
    BY <2>1, <2>2, RenewsKeeps
<1>10. ASSUME BackToPhone
      PROVE  Renews'
  <2>1. \/ app'.stage # "checking"
        \/ app'.stage = app.stage /\ app'.refresh = app.refresh /\ app'.access = app.access
    BY <1>10, BackToPhoneDoes DEF phone, Quiet, tally, Over, Joins, Fails, Ends, SignsOut, Enters
  <2>2. refresh' = refresh \/ refresh'.at \notin {"sent", "refresh"}
    BY <1>10, BackToPhoneDoes, FreeWait DEF phone, Quiet, tally, Over, Joins, Fails, Ends,
       SignsOut, Enters
  <2>3. QED
    BY <2>1, <2>2, RenewsKeeps
<1>11. ASSUME NEW c \in Calls, NEW kind \in {"api", "logout"}, StartCall(c, kind)
      PROVE  Renews'
  <2>1. \/ app'.stage # "checking"
        \/ app'.stage = app.stage /\ app'.refresh = app.refresh /\ app'.access = app.access
    BY <1>11, StartCallDoes DEF phone, Quiet, tally, Over, Joins, Fails, Ends, SignsOut, Enters
  <2>2. refresh' = refresh \/ refresh'.at \notin {"sent", "refresh"}
    BY <1>11, StartCallDoes, FreeWait DEF phone, Quiet, tally, Over, Joins, Fails, Ends, SignsOut,
       Enters
  <2>3. QED
    BY <2>1, <2>2, RenewsKeeps
<1>12. ASSUME NEW c \in Calls, Answered(c)
      PROVE  Renews'
  <2>1. \/ app'.stage # "checking"
        \/ app'.stage = app.stage /\ app'.refresh = app.refresh /\ app'.access = app.access
    BY <1>12, AnsweredDoes DEF phone, Quiet, tally, Over, Joins, Fails, Ends, SignsOut, Enters
  <2>2. refresh' = refresh \/ refresh'.at \notin {"sent", "refresh"}
    BY <1>12, AnsweredDoes, FreeWait DEF phone, Quiet, tally, Over, Joins, Fails, Ends, SignsOut,
       Enters
  <2>3. QED
    BY <2>1, <2>2, RenewsKeeps
<1>13. ASSUME NEW c \in Calls, Unanswered(c)
      PROVE  Renews'
  <2>1. \/ app'.stage # "checking"
        \/ app'.stage = app.stage /\ app'.refresh = app.refresh /\ app'.access = app.access
    BY <1>13, UnansweredDoes DEF phone, Quiet, tally, Over, Joins, Fails, Ends, SignsOut, Enters
  <2>2. refresh' = refresh \/ refresh'.at \notin {"sent", "refresh"}
    BY <1>13, UnansweredDoes, FreeWait DEF phone, Quiet, tally, Over, Joins, Fails, Ends,
       SignsOut, Enters
  <2>3. QED
    BY <2>1, <2>2, RenewsKeeps
<1>14. ASSUME NEW c \in Calls, Restore(c)
      PROVE  Renews'
  <2>1. \/ app'.stage # "checking"
        \/ app'.stage = app.stage /\ app'.refresh = app.refresh /\ app'.access = app.access
    BY <1>14, RestoreDoes DEF phone, Quiet, tally, Over, Joins, Fails, Ends, SignsOut, Enters
  <2>2. refresh' = refresh \/ refresh'.at \notin {"sent", "refresh"}
    BY <1>14, RestoreDoes, FreeWait DEF phone, Quiet, tally, Over, Joins, Fails, Ends, SignsOut,
       Enters
  <2>3. QED
    BY <2>1, <2>2, RenewsKeeps
<1>15. ASSUME NothingToRefresh
      PROVE  Renews'
  <2>1. \/ app'.stage # "checking"
        \/ app'.stage = app.stage /\ app'.refresh = app.refresh /\ app'.access = app.access
    BY <1>15, NothingToRefreshDoes DEF phone, Quiet, tally, Over, Joins, Fails, Ends, SignsOut,
       Enters
  <2>2. refresh' = refresh \/ refresh'.at \notin {"sent", "refresh"}
    BY <1>15, NothingToRefreshDoes, FreeWait DEF phone, Quiet, tally, Over, Joins, Fails, Ends,
       SignsOut, Enters
  <2>3. QED
    BY <2>1, <2>2, RenewsKeeps
<1>16. ASSUME RefreshRefused
      PROVE  Renews'
  <2>1. \/ app'.stage # "checking"
        \/ app'.stage = app.stage /\ app'.refresh = app.refresh /\ app'.access = app.access
    BY <1>16, RefreshRefusedDoes DEF phone, Quiet, tally, Over, Joins, Fails, Ends, SignsOut, Enters
  <2>2. refresh' = refresh \/ refresh'.at \notin {"sent", "refresh"}
    BY <1>16, RefreshRefusedDoes, FreeWait DEF phone, Quiet, tally, Over, Joins, Fails, Ends,
       SignsOut, Enters
  <2>3. QED
    BY <2>1, <2>2, RenewsKeeps
<1>17. ASSUME RefreshGranted
      PROVE  Renews'
  <2>1. \/ app'.stage # "checking"
        \/ app'.stage = app.stage /\ app'.refresh = app.refresh /\ app'.access = app.access
    BY <1>17, RefreshGrantedDoes DEF phone, Quiet, tally, Over, Joins, Fails, Ends, SignsOut, Enters
  <2>2. refresh' = refresh \/ refresh'.at \notin {"sent", "refresh"}
    BY <1>17, RefreshGrantedDoes, FreeWait DEF phone, Quiet, tally, Over, Joins, Fails, Ends,
       SignsOut, Enters
  <2>3. QED
    BY <2>1, <2>2, RenewsKeeps
<1>18. ASSUME SaveRefreshed
      PROVE  Renews'
  BY <1>18, SaveRefreshedDoes, FreeWait DEF Renews
<1>19. ASSUME NEW result \in {"network", "401"}, RefreshLost(result)
      PROVE  Renews'
  <2>1. \/ app'.stage # "checking"
        \/ app'.stage = app.stage /\ app'.refresh = app.refresh /\ app'.access = app.access
    BY <1>19, RefreshLostDoes DEF phone, Quiet, tally, Over, Joins, Fails, Ends, SignsOut, Enters
  <2>2. refresh' = refresh \/ refresh'.at \notin {"sent", "refresh"}
    BY <1>19, RefreshLostDoes, FreeWait DEF phone, Quiet, tally, Over, Joins, Fails, Ends,
       SignsOut, Enters
  <2>3. QED
    BY <2>1, <2>2, RenewsKeeps
<1>20. ASSUME Launch
      PROVE  Renews'
  BY <1>20, LaunchDoes, FreeWait DEF Renews
<1>21. QED
  BY <1>1, <1>2, <1>3, <1>4, <1>5, <1>6, <1>7, <1>8, <1>9, <1>10, <1>11, <1>12, <1>13, <1>14,
     <1>15, <1>16, <1>17, <1>18, <1>19, <1>20, NextPhone


LEMMA UnblockedStep == Base /\ Unblocked /\ [Next]_vars => Unblocked'
<1> SUFFICES ASSUME Base, Unblocked, [Next]_vars
             PROVE  Unblocked'
  OBVIOUS
<1>1. \/ blocked' = blocked /\ faults' = faults
      \/ faults' = faults + 1
  BY ZenonT(40) DEF Next, vars, tally, ServerStep, RefreshStep, AskCode, TypeCode, TypeAgain,
     CheckCooldown, SendCode, ReadOtp, CountAttempt, DropOtp, FindOrCreateUser, ReadRefresh,
     LookupUser, Rotate, IssueTokens, ReadMembers, RevokeFamily, ServerError, SignInTimesOut,
     SignInAnswered, SaveSignIn, SaveFails, BackToPhone, StartCall, Answered, Unanswered, Restore,
     StartRefresh, NothingToRefresh, RefreshRefused, RefreshGranted, SaveRefreshed, RefreshLost,
     ExpireAccess, Launch, OtpRunsOut, Block
<1>2. CASE blocked' = blocked /\ faults' = faults
  BY <1>2 DEF Unblocked
<1>3. CASE faults' = faults + 1
  <2>1. faults' > 0
    BY <1>3 DEF Base, Typed
  <2>2. QED
    BY <2>1 DEF Unblocked
<1>4. QED
  BY <1>1, <1>2, <1>3

LEMMA ReplaysKeeps ==
    ASSUME Base, Replays, faults' = 0 => faults = 0,
           \A c \in Calls : \/ call'[c] = call[c]
                           \/ call'[c].replayed # TRUE
                           \/ /\ call'[c].kind = call[c].kind /\ call'[c].bearer = call[c].bearer
                              /\ call'[c].replayed = call[c].replayed,
           \A c \in Calls : call[c].replayed => call[c].bearer \notin expired' \ expired
    PROVE  Replays'
<1> SUFFICES ASSUME faults' = 0, NEW c \in Calls, call'[c].kind = "restore", call'[c].replayed
             PROVE  Good(c)'
  BY DEF Replays
<1>1. call[c] \in CallRow /\ call[c].replayed \in BOOLEAN
  BY DEF Base, Typed, CallRow
<1>2. /\ call'[c].kind = call[c].kind /\ call'[c].bearer = call[c].bearer
      /\ call'[c].replayed = call[c].replayed
  OBVIOUS
<1>3. call[c].kind = "restore" /\ call[c].replayed
  BY <1>2
<1>4. Good(c)
  BY <1>3 DEF Replays
<1>5. QED
  BY <1>2, <1>3, <1>4 DEF Good

LEMMA ReplaysFaulty ==
    ASSUME Base, faults' = faults + 1
    PROVE  Replays' /\ Accepted'
<1>1. faults' # 0
  BY DEF Base, Typed
<1>2. QED
  BY <1>1 DEF Replays, Accepted

LEMMA ReplaysStep ==
    ASSUME Base, Access, Checking, Renews, Replays, [Next]_vars
    PROVE  Replays'
<1>1. CASE UNCHANGED vars
  BY <1>1, ReplaysKeeps DEF vars, phone, tally
<1>2. ASSUME NEW h \in Handlers, AskCode(h)
      PROVE  Replays'
  <2>1. UNCHANGED <<call, faults, expired>>
    BY <1>2, AskCodeDoes DEF phone, tally, Quiet
  <2>2. QED
    BY <2>1, ReplaysKeeps
<1>3. ASSUME NEW h \in Handlers, NEW c \in 0..sent, TypeCode(h, c)
      PROVE  Replays'
  <2>1. UNCHANGED <<call, faults, expired>>
    BY <1>3, TypeCodeDoes DEF phone, tally, Quiet
  <2>2. QED
    BY <2>1, ReplaysKeeps
<1>4. ASSUME NEW h \in Handlers, TypeAgain(h)
      PROVE  Replays'
  <2>1. UNCHANGED <<call, faults, expired>>
    BY <1>4, TypeAgainDoes DEF phone, tally, Quiet
  <2>2. QED
    BY <2>1, ReplaysKeeps
<1>5. ASSUME NEW h \in Handlers, CheckCooldown(h)
      PROVE  Replays'
  <2>1. UNCHANGED <<call, faults, expired>>
    BY <1>5, CheckCooldownDoes DEF phone, tally, Quiet
  <2>2. QED
    BY <2>1, ReplaysKeeps
<1>6. ASSUME NEW h \in Handlers, SendCode(h)
      PROVE  Replays'
  <2>1. UNCHANGED <<call, faults, expired>>
    BY <1>6, SendCodeDoes DEF phone, tally, Quiet
  <2>2. QED
    BY <2>1, ReplaysKeeps
<1>7. ASSUME NEW h \in Handlers, ReadOtp(h)
      PROVE  Replays'
  <2>1. UNCHANGED <<call, faults, expired>>
    BY <1>7, ReadOtpDoes DEF phone, tally, Quiet
  <2>2. QED
    BY <2>1, ReplaysKeeps
<1>8. ASSUME NEW h \in Handlers, CountAttempt(h)
      PROVE  Replays'
  <2>1. UNCHANGED <<call, faults, expired>>
    BY <1>8, CountAttemptDoes DEF phone, tally, Quiet
  <2>2. QED
    BY <2>1, ReplaysKeeps
<1>9. ASSUME NEW h \in Handlers, DropOtp(h)
      PROVE  Replays'
  <2>1. UNCHANGED <<call, faults, expired>>
    BY <1>9, DropOtpDoes DEF phone, tally, Quiet
  <2>2. QED
    BY <2>1, ReplaysKeeps
<1>10. ASSUME NEW h \in Handlers, FindOrCreateUser(h)
      PROVE  Replays'
  <2>1. UNCHANGED <<call, faults, expired>>
    BY <1>10, FindOrCreateUserDoes DEF phone, tally, Quiet
  <2>2. QED
    BY <2>1, ReplaysKeeps
<1>11. ASSUME NEW h \in Handlers, ReadRefresh(h)
      PROVE  Replays'
  <2>1. UNCHANGED <<call, faults, expired>>
    BY <1>11, ReadRefreshDoes DEF phone, tally, Quiet
  <2>2. QED
    BY <2>1, ReplaysKeeps
<1>12. ASSUME NEW h \in Handlers, LookupUser(h)
      PROVE  Replays'
  <2>1. UNCHANGED <<call, faults, expired>>
    BY <1>12, LookupUserDoes DEF phone, tally, Quiet
  <2>2. QED
    BY <2>1, ReplaysKeeps
<1>13. ASSUME NEW h \in Handlers, Rotate(h)
      PROVE  Replays'
  <2>1. UNCHANGED <<call, faults, expired>>
    BY <1>13, RotateDoes DEF phone, tally, Quiet
  <2>2. QED
    BY <2>1, ReplaysKeeps
<1>14. ASSUME NEW h \in Handlers, IssueTokens(h)
      PROVE  Replays'
  <2>1. UNCHANGED <<call, faults, expired>>
    BY <1>14, IssueTokensDoes DEF phone, tally, Quiet
  <2>2. QED
    BY <2>1, ReplaysKeeps
<1>15. ASSUME NEW h \in Handlers, ReadMembers(h)
      PROVE  Replays'
  <2>1. UNCHANGED <<call, faults, expired>>
    BY <1>15, ReadMembersDoes DEF phone, tally, Quiet
  <2>2. QED
    BY <2>1, ReplaysKeeps
<1>16. ASSUME NEW h \in Handlers, RevokeFamily(h)
      PROVE  Replays'
  <2>1. UNCHANGED <<call, faults, expired>>
    BY <1>16, RevokeFamilyDoes DEF phone, tally, Quiet
  <2>2. QED
    BY <2>1, ReplaysKeeps
<1>17. ASSUME NEW h \in Handlers, ServerError(h)
      PROVE  Replays'
  BY <1>17, ServerErrorDoes, ReplaysFaulty
<1>18. ASSUME NEW h \in Handlers, SignInTimesOut(h)
      PROVE  Replays'
  BY <1>18, SignInTimesOutDoes, ReplaysFaulty
<1>19. ASSUME NEW h \in Handlers, StartRefresh(h)
      PROVE  Replays'
  <2>1. UNCHANGED <<call, faults, expired>>
    BY <1>19, StartRefreshDoes DEF phone, tally, Quiet
  <2>2. QED
    BY <2>1, ReplaysKeeps
<1>20. ASSUME SignInAnswered
      PROVE  Replays'
  <2>1. UNCHANGED <<call, faults, expired>>
    BY <1>20, SignInAnsweredDoes DEF phone, tally, Quiet
  <2>2. QED
    BY <2>1, ReplaysKeeps
<1>21. ASSUME SaveSignIn
      PROVE  Replays'
  <2>1. UNCHANGED <<call, faults, expired>>
    BY <1>21, SaveSignInDoes DEF phone, tally, Quiet
  <2>2. QED
    BY <2>1, ReplaysKeeps
<1>22. ASSUME SaveFails
      PROVE  Replays'
  BY <1>22, SaveFailsDoes, ReplaysFaulty
<1>23. ASSUME BackToPhone
      PROVE  Replays'
  <2>1. UNCHANGED <<call, faults, expired>>
    BY <1>23, BackToPhoneDoes DEF phone, tally, Quiet
  <2>2. QED
    BY <2>1, ReplaysKeeps
<1>24. ASSUME NEW c \in Calls, NEW kind \in {"api", "logout"}, StartCall(c, kind)
      PROVE  Replays'
  <2>1. /\ UNCHANGED <<faults, expired>>
        /\ \A k \in Calls : \/ call'[k] = call[k]
                           \/ call'[k].replayed # TRUE
                           \/ /\ call'[k].kind = call[k].kind /\ call'[k].bearer = call[k].bearer
                              /\ call'[k].replayed = call[k].replayed
    BY <1>24, StartCallDoes, NoCallRow DEF tally, Sends
  <2>2. QED
    BY <2>1, ReplaysKeeps
<1>25. ASSUME NEW c \in Calls, Answered(c)
      PROVE  Replays'
  <2>1. /\ UNCHANGED <<faults, expired>>
        /\ \A k \in Calls : \/ call'[k] = call[k]
                           \/ call'[k].replayed # TRUE
                           \/ /\ call'[k].kind = call[k].kind /\ call'[k].bearer = call[k].bearer
                              /\ call'[k].replayed = call[k].replayed
    BY <1>25, AnsweredDoes, NoCallRow DEF tally, Over
  <2>2. QED
    BY <2>1, ReplaysKeeps
<1>26. ASSUME NEW c \in Calls, Unanswered(c)
      PROVE  Replays'
  BY <1>26, UnansweredDoes, ReplaysFaulty
<1>27. ASSUME NEW c \in Calls, Restore(c)
      PROVE  Replays'
  <2>1. CASE faults' = faults + 1
    BY <2>1, ReplaysFaulty
  <2>2. CASE UNCHANGED faults
    <3>1. /\ UNCHANGED expired
          /\ \A k \in Calls : call'[k] = call[k] \/ call'[k].replayed # TRUE
      BY <1>27, <2>2, RestoreDoes, NoCallRow DEF tally, Sends
    <3>2. QED
      BY <2>2, <3>1, ReplaysKeeps
  <2>3. QED
    BY <1>27, <2>1, <2>2, RestoreDoes
<1>28. ASSUME NothingToRefresh
      PROVE  Replays'
  <2>1. CASE faults' = faults + 1
    BY <2>1, ReplaysFaulty
  <2>2. CASE UNCHANGED faults
    <3>1. /\ UNCHANGED expired
          /\ \A k \in Calls : call'[k] = call[k] \/ call'[k].replayed # TRUE
      BY <1>28, <2>2, NothingToRefreshDoes, NoCallRow DEF tally, Fails
    <3>2. QED
      BY <2>2, <3>1, ReplaysKeeps
  <2>3. QED
    BY <1>28, <2>1, <2>2, NothingToRefreshDoes
<1>29. ASSUME RefreshRefused
      PROVE  Replays'
  <2>1. /\ UNCHANGED <<faults, expired>>
        /\ \A k \in Calls : \/ call'[k] = call[k]
                           \/ call'[k].replayed # TRUE
                           \/ /\ call'[k].kind = call[k].kind /\ call'[k].bearer = call[k].bearer
                              /\ call'[k].replayed = call[k].replayed
    BY <1>29, RefreshRefusedDoes, NoCallRow DEF tally, Fails
  <2>2. QED
    BY <2>1, ReplaysKeeps
<1>30. ASSUME RefreshGranted
      PROVE  Replays'
  <2>1. UNCHANGED <<call, faults, expired>>
    BY <1>30, RefreshGrantedDoes DEF phone, tally, Quiet
  <2>2. QED
    BY <2>1, ReplaysKeeps
<1>31. ASSUME SaveRefreshed
      PROVE  Replays'
  <2>1. CASE UNCHANGED call
    BY <1>31, <2>1, SaveRefreshedDoes, ReplaysKeeps DEF tally
  <2>2. CASE ~UNCHANGED call
    <3>1. /\ refresh.at = "refresh" /\ refresh.t \in Tokens /\ UNCHANGED <<faults, expired>>
          /\ \A c \in Calls : IF call[c].at = "waiting"
                THEN /\ call'[c].at = "sent" /\ call'[c].kind = call[c].kind
                     /\ call'[c].bearer = app.access /\ call'[c].replayed = TRUE
                ELSE call'[c] = call[c]
      BY <1>31, <2>2, SaveRefreshedDoes DEF tally
    <3>2. ASSUME faults = 0, NEW c \in Calls, call'[c].kind = "restore", call'[c].replayed
          PROVE  Good(c)'
      <4>1. CASE call[c].at = "waiting"
        <5>1. app.stage = "checking"
          BY <3>1, <3>2, <4>1 DEF Checking
        <5>2. app.access = refresh.t /\ refresh.t \in Unread
          BY <3>1, <5>1 DEF Renews, Unread, Arriving
        <5>3. refresh.t \notin expired /\ refresh.t # None
          BY <3>1, <5>2, Bounds DEF Access
        <5>4. QED
          BY <3>1, <4>1, <5>2, <5>3 DEF Good
      <4>2. CASE call[c].at # "waiting"
        <5>1. call'[c] = call[c]
          BY <3>1, <4>2
        <5>2. Good(c)
          BY <3>2, <5>1 DEF Replays
        <5>3. QED
          BY <3>1, <5>1, <5>2 DEF Good
      <4>3. QED
        BY <4>1, <4>2
    <3>3. QED
      BY <3>1, <3>2 DEF Replays
  <2>3. QED
    BY <2>1, <2>2
<1>32. ASSUME NEW result \in {"network", "401"}, RefreshLost(result)
      PROVE  Replays'
  BY <1>32, RefreshLostDoes, ReplaysFaulty
<1>33. ASSUME NEW t \in Tokens, ExpireAccess(t)
      PROVE  Replays'
  <2>1. /\ UNCHANGED <<call, faults>> /\ expired' = expired \cup {t}
        /\ \A c \in Calls : call[c].replayed => call[c].bearer # t
    BY <1>33, ExpireAccessDoes DEF phone, tally, JustIssued
  <2>2. QED
    BY <2>1, ReplaysKeeps
<1>34. ASSUME Launch
      PROVE  Replays'
  <2>1. /\ UNCHANGED <<faults, expired>>
        /\ \A k \in Calls : \/ call'[k] = call[k]
                           \/ call'[k].replayed # TRUE
                           \/ /\ call'[k].kind = call[k].kind /\ call'[k].bearer = call[k].bearer
                              /\ call'[k].replayed = call[k].replayed
    BY <1>34, LaunchDoes, NoCallRow DEF tally, Done
  <2>2. QED
    BY <2>1, ReplaysKeeps
<1>35. ASSUME OtpRunsOut
      PROVE  Replays'
  <2>1. UNCHANGED <<call, faults, expired>>
    BY <1>35, OtpRunsOutDoes DEF phone, tally, Quiet
  <2>2. QED
    BY <2>1, ReplaysKeeps
<1>36. ASSUME Block
      PROVE  Replays'
  BY <1>36, BlockDoes, ReplaysFaulty
<1>37. QED
  BY <1>1, <1>2, <1>3, <1>4, <1>5, <1>6, <1>7, <1>8, <1>9, <1>10, <1>11, <1>12, <1>13, <1>14,
     <1>15, <1>16, <1>17, <1>18, <1>19, <1>20, <1>21, <1>22, <1>23, <1>24, <1>25, <1>26, <1>27,
     <1>28, <1>29, <1>30, <1>31, <1>32, <1>33, <1>34, <1>35, <1>36, NextCases


\* The steps of a refresh that is not refused.
Well(h) == handler[h].at \in {"read", "lookup", "rotate", "issue", "ok"}

LEMMA AcceptedKeeps ==
    ASSUME Base, Accepted, faults' = 0 => faults = 0, abandoned' = 0 => abandoned = 0,
           OnDevice' => OnDevice,
           refresh'.at = "sent" /\ app'.refresh = refresh'.t /\ OnDevice' =>
              /\ refresh' = refresh /\ app'.refresh = app.refresh
              /\ faults = 0 /\ abandoned = 0 /\ Well(refresh.h) => Well(refresh.h)'
    PROVE  Accepted'
BY DEF Accepted, Well

\* What happens to a handler that is not the refresh's does not matter to it.
LEMMA AcceptedElsewhere ==
    ASSUME Base, Accepted, UNCHANGED <<app, refresh, faults, abandoned>>,
           NEW h \in Handlers, Others(h),
           refresh.at = "sent" => refresh.h # h,
           \A t \in Tokens : Born(t) => token'[t].device = token[t].device
    PROVE  Accepted'
<1>1. refresh.at = "sent" => refresh.h \in Handlers /\ handler'[refresh.h] = handler[refresh.h]
  BY Served DEF Others
<1>2. OnDevice' => OnDevice
  BY DEF OnDevice, Base, Distinct, Arrived, Born
<1>3. QED
  BY <1>1, <1>2, AcceptedKeeps DEF Well

LEMMA AcceptedStep ==
    ASSUME Base, Keeping, Unblocked, Accepted, [Next]_vars
    PROVE  Accepted'
<1>1. CASE Gentle
  <2>1. refresh.at = "sent" => handler'[refresh.h] = handler[refresh.h]
    BY <1>1, Served DEF Gentle, Aside
  <2>2. (OnDevice' <=> OnDevice) /\ (faults' = 0 => faults = 0)
    BY <1>1 DEF Gentle, OnDevice, Base, Typed
  <2>3. QED
    BY <1>1, <2>1, <2>2, AcceptedKeeps DEF Gentle, Well
<1>2. ASSUME NEW h \in Handlers, ReadRefresh(h)
      PROVE  Accepted'
  <2>1. /\ UNCHANGED <<app, refresh, faults, abandoned, token>> /\ Others(h)
        /\ handler[h].at = "read"
    BY <1>2, ReadRefreshDoes DEF redis, phone, tally, Quiet, Replies, Turns
  <2>2. CASE refresh.at = "sent" => refresh.h # h
    BY <2>1, <2>2, AcceptedElsewhere
  <2>3. CASE refresh.at = "sent" /\ refresh.h = h
    <3>1. ASSUME abandoned = 0, OnDevice, app.refresh = refresh.t
          PROVE  Well(h)'
      <4>1. handler[h].t = refresh.t /\ handler[h].device = app.device
        BY <2>1, <2>3, Served DEF Base, Distinct, Presenting, Done
      <4>2. app.refresh \in Live
        BY <2>1, <2>3, <3>1 DEF Keeping, Kept, Stored, Renewing
      <4>3. token[handler[h].t].at = "live" /\ token[handler[h].t].device = handler[h].device
        BY <3>1, <4>1, <4>2 DEF Live, OnDevice
      <4>4. Turns(h, "lookup", handler[h].code, token[handler[h].t].family, handler[h].doomed)
        BY <1>2, <4>3, ReadRefreshDoes
      <4>5. QED
        BY <4>4 DEF Well, Turns
    <3>2. OnDevice' => OnDevice
      BY <2>1 DEF OnDevice
    <3>3. QED
      BY <2>1, <2>3, <3>1, <3>2, AcceptedKeeps
  <2>4. QED
    BY <2>2, <2>3
<1>3. ASSUME NEW h \in Handlers, LookupUser(h)
      PROVE  Accepted'
  <2>1. /\ UNCHANGED <<app, refresh, faults, abandoned>> /\ Others(h)
        /\ \A t \in Tokens : Born(t) => token'[t].device = token[t].device
    BY <1>3, LookupUserDoes DEF redis, phone, tally, Quiet, Born, Replies, Moves, Turns
  <2>2. CASE refresh.at = "sent" => refresh.h # h
    BY <2>1, <2>2, AcceptedElsewhere
  <2>3. CASE refresh.at = "sent" /\ refresh.h = h
    <3>1. OnDevice' => OnDevice
      BY <2>1 DEF OnDevice, Base, Distinct, Arrived, Born
    <3>2. handler[h].client = "refresh"
      BY <2>3, Served
    <3>3. faults = 0 => Well(h)'
      <4>1. faults = 0 => ~blocked
        BY DEF Unblocked
      <4>2. QED
        BY <1>3, <4>1, LookupUserDoes DEF Well, Moves, Turns
    <3>4. QED
      BY <2>1, <2>3, <3>1, <3>3, AcceptedKeeps
  <2>4. QED
    BY <2>2, <2>3
<1>4. ASSUME NEW h \in Handlers, Rotate(h)
      PROVE  Accepted'
  <2>1. /\ UNCHANGED <<app, refresh, faults, abandoned>> /\ Others(h)
        /\ \A t \in Tokens : Born(t) => token'[t].device = token[t].device
    BY <1>4, RotateDoes DEF redis, phone, tally, Quiet, Born, Moves, Turns, Untouched
  <2>2. CASE refresh.at = "sent" => refresh.h # h
    BY <2>1, <2>2, AcceptedElsewhere
  <2>3. CASE refresh.at = "sent" /\ refresh.h = h
    <3>1. OnDevice' => OnDevice
      BY <2>1 DEF OnDevice, Base, Distinct, Arrived, Born
    <3>2. handler[h].client = "refresh"
      BY <2>3, Served
    <3>3. Well(h)'
      BY <1>4, RotateDoes DEF Well, Moves, Turns
    <3>4. QED
      BY <2>1, <2>3, <3>1, <3>3, AcceptedKeeps
  <2>4. QED
    BY <2>2, <2>3
<1>5. ASSUME NEW h \in Handlers, IssueTokens(h)
      PROVE  Accepted'
  <2>1. PICK t \in Tokens, f \in Tokens : Issues(h, t, f)
    BY <1>5, IssueTokensDoes
  <2>2. /\ UNCHANGED <<app, refresh, faults, abandoned>> /\ Others(h)
        /\ \A u \in Tokens : Born(u) => token'[u].device = token[u].device
    BY <1>5, <2>1, IssueTokensDoes DEF phone, Born, Issues, Replies, Untouched
  <2>3. CASE refresh.at = "sent" => refresh.h # h
    BY <2>2, <2>3, AcceptedElsewhere
  <2>4. CASE refresh.at = "sent" /\ refresh.h = h
    <3>1. OnDevice' => OnDevice
      BY <2>2 DEF OnDevice, Base, Distinct, Arrived, Born
    <3>2. handler[h].client = "refresh"
      BY <2>4, Served
    <3>3. Well(h)'
      BY <2>1, <3>2 DEF Well, Issues, Replies
    <3>4. QED
      BY <2>2, <2>4, <3>1, <3>3, AcceptedKeeps
  <2>5. QED
    BY <2>3, <2>4
<1>6. ASSUME NEW h \in Handlers, ReadMembers(h)
      PROVE  Accepted'
  <2>1. /\ UNCHANGED <<app, refresh, faults, abandoned>> /\ Others(h)
        /\ \A t \in Tokens : Born(t) => token'[t].device = token[t].device
    BY <1>6, ReadMembersDoes DEF redis, phone, tally, Quiet, Born, Turns
  <2>2. CASE refresh.at = "sent" => refresh.h # h
    BY <2>1, <2>2, AcceptedElsewhere
  <2>3. CASE refresh.at = "sent" /\ refresh.h = h
    <3>1. OnDevice' => OnDevice
      BY <2>1 DEF OnDevice, Base, Distinct, Arrived, Born
    <3>2. handler[h].client = "refresh"
      BY <2>3, Served
    <3>3. ~Well(h)
      BY <1>6, ReadMembersDoes DEF Well
    <3>4. QED
      BY <2>1, <2>3, <3>1, <3>3, AcceptedKeeps
  <2>4. QED
    BY <2>2, <2>3
<1>7. ASSUME NEW h \in Handlers, RevokeFamily(h)
      PROVE  Accepted'
  <2>1. /\ UNCHANGED <<app, refresh, faults, abandoned>> /\ Others(h)
        /\ \A t \in Tokens : Born(t) => token'[t].device = token[t].device
    BY <1>7, RevokeFamilyDoes DEF redis, phone, tally, Quiet, Born, Replies, Revokes
  <2>2. CASE refresh.at = "sent" => refresh.h # h
    BY <2>1, <2>2, AcceptedElsewhere
  <2>3. CASE refresh.at = "sent" /\ refresh.h = h
    <3>1. OnDevice' => OnDevice
      BY <2>1 DEF OnDevice, Base, Distinct, Arrived, Born
    <3>2. handler[h].client = "refresh"
      BY <2>3, Served
    <3>3. ~Well(h)
      BY <1>7, RevokeFamilyDoes DEF Well
    <3>4. QED
      BY <2>1, <2>3, <3>1, <3>3, AcceptedKeeps
  <2>4. QED
    BY <2>2, <2>3
<1>8. ASSUME NEW h \in Handlers, ServerError(h)
      PROVE  Accepted'
  BY <1>8, ServerErrorDoes, ReplaysFaulty
<1>9. ASSUME NEW h \in Handlers, SignInTimesOut(h)
      PROVE  Accepted'
  BY <1>9, SignInTimesOutDoes, ReplaysFaulty
<1>10. ASSUME NEW h \in Handlers, StartRefresh(h)
      PROVE  Accepted'
  <2>1. refresh'.h = h /\ handler'[h].at = "read"
    BY <1>10, StartRefreshDoes DEF Starts
  <2>2. QED
    BY <2>1 DEF Accepted
<1>11. ASSUME SignInAnswered
      PROVE  Accepted'
  <2>1. /\ UNCHANGED <<faults, abandoned, token>> /\ Heard(login.h) /\ login.h \in Handlers
        /\ handler[login.h].client = "login"
        /\ app'.refresh = app.refresh /\ app'.device = app.device
    BY <1>11, SignInAnsweredDoes DEF redis, tally
  <2>2. refresh'.at = "sent" => refresh' = refresh
    BY <1>11, SignInAnsweredDoes DEF Joins
  <2>3. refresh.at = "sent" => handler'[refresh.h] = handler[refresh.h]
    BY <2>1, Served DEF Heard, Others
  <2>4. OnDevice' => OnDevice
    BY <2>1 DEF OnDevice
  <2>5. QED
    BY <2>1, <2>2, <2>3, <2>4, AcceptedKeeps DEF Well
<1>12. ASSUME SaveSignIn
      PROVE  Accepted'
  <2>1. /\ UNCHANGED <<token, handler, refresh, faults, abandoned>> /\ login.t \in Unread
        /\ app'.device = app.device
        /\ app'.refresh = app.refresh \/ app'.refresh = login.t
    BY <1>12, SaveSignInDoes DEF redis, Unread, Arriving
  <2>2. refresh.at = "sent" => login.t # refresh.t
    BY <2>1 DEF Keeping, Apart, Elsewhere
  <2>3. CASE app'.refresh = app.refresh
    BY <2>1, <2>3, AcceptedKeeps DEF OnDevice, Well
  <2>4. CASE app'.refresh = login.t
    BY <2>1, <2>2, <2>4 DEF Accepted
  <2>5. QED
    BY <2>1, <2>3, <2>4
<1>13. ASSUME SaveFails
      PROVE  Accepted'
  BY <1>13, SaveFailsDoes, ReplaysFaulty
<1>14. ASSUME NEW c \in Calls, Answered(c)
      PROVE  Accepted'
  <2>1. /\ UNCHANGED <<token, handler, faults, abandoned>> /\ app'.device = app.device
        /\ app'.refresh \in {app.refresh, None}
        /\ refresh'.at = "sent" => refresh' = refresh
    BY <1>14, AnsweredDoes DEF redis, Over, Ends, SignsOut, Enters, Joins
  <2>2. OnDevice' => OnDevice /\ app'.refresh = app.refresh
    BY <2>1 DEF OnDevice
  <2>3. QED
    BY <2>1, <2>2, AcceptedKeeps DEF Well
<1>15. ASSUME NEW c \in Calls, Unanswered(c)
      PROVE  Accepted'
  BY <1>15, UnansweredDoes, ReplaysFaulty
<1>16. ASSUME NothingToRefresh
      PROVE  Accepted'
  <2>1. refresh'.at # "sent"
    BY <1>16, NothingToRefreshDoes, FreeWait DEF Fails
  <2>2. QED
    BY <2>1 DEF Accepted
<1>17. ASSUME RefreshRefused
      PROVE  Accepted'
  <2>1. refresh'.at # "sent"
    BY <1>17, RefreshRefusedDoes, FreeWait DEF Fails
  <2>2. QED
    BY <2>1 DEF Accepted
<1>18. ASSUME RefreshGranted
      PROVE  Accepted'
  <2>1. refresh'.at # "sent"
    BY <1>18, RefreshGrantedDoes
  <2>2. QED
    BY <2>1 DEF Accepted
<1>19. ASSUME SaveRefreshed
      PROVE  Accepted'
  <2>1. refresh'.at # "sent"
    BY <1>19, SaveRefreshedDoes, FreeWait
  <2>2. QED
    BY <2>1 DEF Accepted
<1>20. ASSUME NEW result \in {"network", "401"}, RefreshLost(result)
      PROVE  Accepted'
  BY <1>20, RefreshLostDoes, ReplaysFaulty
<1>21. ASSUME Launch
      PROVE  Accepted'
  <2>1. refresh'.at # "sent"
    BY <1>21, LaunchDoes, FreeWait
  <2>2. QED
    BY <2>1 DEF Accepted
<1>22. QED
  BY <1>1, <1>2, <1>3, <1>4, <1>5, <1>6, <1>7, <1>8, <1>9, <1>10, <1>11, <1>12, <1>13, <1>14,
     <1>15, <1>16, <1>17, <1>18, <1>19, <1>20, <1>21, NextPairs

-----------------------------------------------------------------------------
(* The invariant, and what follows from it *)

IInv == Base /\ Guessing /\ Accounted /\ Keeping /\ Access /\ Screens

LEMMA BaseInit == Init => Base
<1> SUFFICES ASSUME Init
             PROVE  Base
  OBVIOUS
<1>1. \A h \in Handlers : handler[h] = Idle
  BY DEF Init
<1>2. \A t \in Tokens : token[t].at = "unborn" /\ token[t].family = None /\ member[t] = {}
  BY DEF Init
<1>3. Typed
  <2>1. otp \in OtpRow /\ cooldown \in BOOLEAN /\ blocked \in BOOLEAN
    BY DEF Init, OtpRow, None
  <2>2. token \in [Tokens -> TokenRow] /\ member \in [Tokens -> SUBSET Tokens]
    BY DEF Init, TokenRow, None
  <2>3. app \in AppRow
    BY DEF Init, AppRow, None
  <2>4. handler \in [Handlers -> Job] /\ call \in [Calls -> CallRow]
    BY IdleJob, NoCallRow DEF Init
  <2>5. QED
    BY <2>1, <2>2, <2>3, <2>4, FreeWait DEF Init, Typed
<1>4. Attended
  BY <1>1, FreeWait, IdleJob DEF Init, Attended, Serves, LoginWaits, RefreshWaits, Done, Coding
<1>5. Spare
  <2>1. Minting = {} /\ Asks = {}
    BY <1>1, IdleJob DEF Minting, Asks
  <2>2. Cardinality(Minting) = 0 /\ Cardinality(Asks) = 0
    BY <2>1, FS_EmptySet
  <2>3. Cardinality(Unborn) \in Nat /\ sent = 0
    BY Finite, FS_CardinalityType DEF Init
  <2>4. QED
    BY <2>2, <2>3, Bounds DEF Spare
<1>6. Families
  BY <1>1, <1>2, IdleJob DEF Families, TokenFamily, JobFamily, Born
<1>7. Distinct
  <2>1. Unread = {} /\ Arriving(login) = {}
    BY FreeWait DEF Init, Unread, Arriving
  <2>2. app.refresh = None /\ \A h \in Handlers : ~Granted(h) /\ ~Presented(h)
    BY <1>1, IdleJob DEF Init, Granted, Presented
  <2>3. QED
    BY <1>1, <2>1, <2>2, IdleJob DEF Distinct, OnePlace, Arrived, Presenting
<1>8. QED
  BY <1>3, <1>4, <1>5, <1>6, <1>7 DEF Base

LEMMA GuessingInit == Init => Guessing
<1> SUFFICES ASSUME Init
             PROVE  Guessing
  OBVIOUS
<1>1. \A h \in Handlers : handler[h] = Idle
  BY DEF Init
<1>2. Nobody = {} /\ Counting = {}
  BY <1>1, IdleJob DEF Nobody, Counting
<1>3. Cardinality(Nobody) = 0 /\ Cardinality(Counting) = 0
  BY <1>2, FS_EmptySet
<1>4. otp.code = None /\ otp.attempts = 0 /\ sent = 0 /\ abandoned = 0 /\ redeemed = {}
  BY DEF Init
<1>5. \A c \in Codes : compared[c] = 0
  BY DEF Init
<1>6. AttemptsBounded
  BY <1>3, <1>4, Bounds, FS_CardinalityType DEF AttemptsBounded
<1>7. CodesSent
  BY <1>1, <1>4, <1>5, IdleJob DEF CodesSent, None
<1>8. QED
  BY <1>1, <1>3, <1>4, <1>5, <1>6, <1>7, IdleJob, Bounds
     DEF Guessing, Abandonments, Counted, Spent, GuessesCapped

LEMMA RestInit == Init => Accounted /\ Keeping /\ Access /\ Screens
<1> SUFFICES ASSUME Init
             PROVE  Accounted /\ Keeping /\ Access /\ Screens
  OBVIOUS
<1>1. /\ \A h \in Handlers : handler[h] = Idle
      /\ \A c \in Calls : call[c] = NoCall
      /\ \A t \in Tokens : token[t].at = "unborn" /\ token[t].device = None
      /\ app.stage = "phoneEntry" /\ app.access = None /\ app.refresh = None /\ app.device = 1
      /\ login = Free /\ refresh = Free /\ expired = {} /\ launches = 0
      /\ abandoned = 0 /\ discarded = 0
  BY DEF Init
<1>2. blocked = FALSE
  BY DEF Init
<1>3. Live = {} /\ Unread = {} /\ Arriving(login) = {} /\ \A h \in Handlers : ~Granted(h)
  BY <1>1, FreeWait, IdleJob DEF Live, Unread, Arriving, Granted
<1>4. Accounted
  <2>1. Lost = {} /\ Nobody = {}
    BY <1>1, <1>3, IdleJob DEF Lost, Nobody
  <2>2. Cardinality(Lost) = 0 /\ Cardinality(Nobody) = 0
    BY <2>1, FS_EmptySet
  <2>3. Risk = 0
    BY <1>1, FreeWait DEF Risk, InFlight
  <2>4. QED
    BY <1>1, <2>2, <2>3 DEF Accounted
<1>5. Devices
  BY <1>1, IdleJob DEF Devices, None
<1>6. Apart /\ \A h \in Handlers : Signing(h)
  BY <1>1, FreeWait, IdleJob DEF Apart, Signing
<1>7. Kept
  BY <1>1, <1>3, FreeWait DEF Kept, Stored, OnDevice, Coming, Unhurt
<1>8. Access
  BY <1>1, NoCallRow, Bounds DEF Access, InUse
<1>9. Checking
  BY <1>1, NoCallRow DEF Checking
<1>10. Renews /\ Replays /\ Accepted
  BY <1>1, NoCallRow, FreeWait DEF Renews, Replays, Accepted
<1>11. Unblocked
  BY <1>2 DEF Unblocked
<1>12. QED
  BY <1>4, <1>5, <1>6, <1>7, <1>8, <1>9, <1>10, <1>11 DEF Keeping, Screens

LEMMA InvStep == IInv /\ [Next]_vars => IInv'
<1> SUFFICES ASSUME IInv, [Next]_vars
             PROVE  IInv'
  OBVIOUS
<1>1. Base'
  BY TypedStep, AttendedStep, SpareStep, FamiliesStep, DistinctStep DEF IInv, Base
<1>2. sent' \in Nat /\ sent' <= MaxCodes
  <2>1. sent' \in Nat /\ sent' + Cardinality(Asks') <= MaxCodes
    BY <1>1 DEF Base, Typed, Spare
  <2>2. Asks' \subseteq Handlers
    BY DEF Asks
  <2>3. Cardinality(Asks') \in Nat
    BY <2>2, Part, Bounds
  <2>4. QED
    BY <2>1, <2>3, Bounds
<1>3. Guessing' /\ Accounted'
  BY <1>2, GuessingStep, AccountedStep DEF IInv
<1>4. Keeping'
  BY DevicesStep, SigningStep, ApartStep, KeptStep DEF IInv, Keeping, Guessing
<1>5. Access' /\ Screens'
  BY AccessStep, CheckingStep, RenewsStep, UnblockedStep, ReplaysStep, AcceptedStep
     DEF IInv, Screens
<1>6. QED
  BY <1>1, <1>3, <1>4, <1>5 DEF IInv

LEMMA InvHolds == Spec => []IInv
<1>1. Init => IInv
  BY BaseInit, GuessingInit, RestInit DEF IInv
<1>2. QED
  BY <1>1, InvStep, PTL DEF Spec

-----------------------------------------------------------------------------
\* Every variable has its type in every reachable state; the attempts counted for a code
\* pass OTP_MAX_ATTEMPTS by no more than the requests at work beside the one that counts.
THEOREM SessionsAreTyped == Spec => []TypeOK
<1>1. IInv => TypeOK
  <2> SUFFICES ASSUME IInv
               PROVE  TypeOK
    OBVIOUS
  <2>1. otp.attempts <= MaxAttempts + Cardinality(Handlers) - 1
    <3>1. /\ Cardinality(Counting) \in Nat /\ Cardinality(Handlers) \in Nat
          /\ otp.attempts \in Nat
      BY Finite, Bounds, FS_CardinalityType DEF IInv, Base, Typed, OtpRow
    <3>2. QED
      BY <3>1, Bounds DEF IInv, Guessing, AttemptsBounded
  <2>2. otp \in [code : Codes \cup {None}, attempts : 0..(MaxAttempts + Cardinality(Handlers) - 1)]
    <3>1. otp \in OtpRow /\ MaxAttempts + Cardinality(Handlers) - 1 \in Int
      BY Bounds, FS_CardinalityType DEF IInv, Base, Typed
    <3>2. otp.attempts \in 0..(MaxAttempts + Cardinality(Handlers) - 1)
      BY <2>1, <3>1 DEF OtpRow
    <3>3. QED
      BY <3>1, <3>2 DEF OtpRow
  <2>3. QED
    BY <2>2 DEF IInv, Base, Typed, TypeOK, TokenRow, AppRow, CallRow, LoginRow, RefreshRow
<1>2. QED
  BY <1>1, InvHolds, PTL

\* For any number of requests at work, codes, guesses and failures: a code is compared
\* with what was typed OTP_MAX_ATTEMPTS times, and once more for each request whose answer
\* nobody used, never more (verifyOtp reads the attempts once and counts them afterwards).
THEOREM CodesAreGuessedRarely == Spec => []GuessesCapped
<1>1. IInv => GuessesCapped
  BY DEF IInv, Guessing
<1>2. QED
  BY <1>1, InvHolds, PTL

\* A code exchanged for tokens is compared with nothing any more, whatever request was
\* running: its record is deleted before the tokens are issued, and no code is sent twice.
THEOREM CodesSignInOnce == Spec => CodeSignsInOnce
<1>1. ASSUME IInv, [Next]_vars, NEW c \in redeemed
      PROVE  compared'[c] = compared[c]
  <2>1. CASE UNCHANGED compared
    BY <2>1
  <2>2. CASE \E h \in Handlers : ReadOtp(h)
    <3>1. PICK h \in Handlers : ReadOtp(h)
      BY <2>2
    <3>2. UNCHANGED compared \/ compared' = [compared EXCEPT ![otp.code] = @ + 1]
      BY <1>1, <3>1, ReadOtpDoes DEF IInv
    <3>3. c # otp.code
      BY <1>1 DEF IInv, Guessing, Spent
    <3>4. QED
      BY <1>1, <3>2, <3>3 DEF IInv, Base, Typed
  <2>3. UNCHANGED compared \/ \E h \in Handlers : ReadOtp(h)
    BY ZenonT(40), <1>1 DEF Next, vars, tally, ServerStep, RefreshStep, AskCode, TypeCode, TypeAgain,
       CheckCooldown, SendCode, CountAttempt, DropOtp, FindOrCreateUser, ReadRefresh, LookupUser,
       Rotate, IssueTokens, ReadMembers, RevokeFamily, ServerError, SignInTimesOut, SignInAnswered,
       SaveSignIn, SaveFails, BackToPhone, StartCall, Answered, Unanswered, Restore, StartRefresh,
       NothingToRefresh, RefreshRefused, RefreshGranted, SaveRefreshed, RefreshLost, ExpireAccess,
       Launch, OtpRunsOut, Block
  <2>4. QED
    BY <2>1, <2>2, <2>3
<1>2. IInv /\ [Next]_vars => [\A c \in redeemed : compared'[c] = compared[c]]_vars
  BY <1>1
<1>3. QED
  BY <1>2, InvHolds, PTL DEF Spec, CodeSignsInOnce

\* For any number of requests, tokens, launches and failures: a live refresh token is the
\* app's, is on its way to it, or was left behind by an answer nobody used or by tokens
\* removed on the phone alone, one for each.  The refresh whose answer is still under way is
\* counted before it is lost (Risk), and so is each request nobody waits for any more.
THEOREM OrphansAreAccountedFor == Spec => []LeftBehindBounded
<1>1. IInv => LeftBehindBounded
  <2> SUFFICES ASSUME IInv
               PROVE  LeftBehindBounded
    OBVIOUS
  <2>1. Live \ Held \subseteq Lost
    BY DEF Lost, Held, Elsewhere, Unread, Granted
  <2>2. IsFiniteSet(Lost)
    BY Finite, FS_Subset DEF Lost
  <2>3. /\ Cardinality(Live \ Held) \in Nat /\ Cardinality(Lost) \in Nat
        /\ Cardinality(Live \ Held) <= Cardinality(Lost)
    BY <2>1, <2>2, Part
  <2>4. Cardinality(Nobody) \in Nat
    BY Finite, FS_CardinalityType
  <2>5. abandoned \in Nat /\ discarded \in Nat
    BY DEF IInv, Base, Typed
  <2>6. Risk \in {0, 1} /\ Cardinality(Lost) + Cardinality(Nobody) + Risk <= abandoned + discarded
    BY DEF IInv, Accounted, Risk
  <2>7. QED
    BY <2>3, <2>4, <2>5, <2>6 DEF LeftBehindBounded
<1>2. QED
  BY <1>1, InvHolds, PTL

\* While no answer was lost, the token in the keystore is live whenever no refresh is under
\* way, for any number of calls that meet a 401 in any order: one refresh is shared, and the
\* token it presents is the only one it can revoke.
THEOREM SessionIsKept == Spec => []KeepsSession
<1>1. IInv => KeepsSession
  <2> SUFFICES ASSUME IInv, abandoned = 0, refresh = Free, OnDevice
               PROVE  app.refresh \in Live
    BY DEF KeepsSession, OnDevice
  <2>1. ~Renewing
    BY FreeWait DEF Renewing
  <2>2. QED
    BY <2>1 DEF IInv, Keeping, Kept, Stored
<1>2. QED
  BY <1>1, InvHolds, PTL

\* The end of a call signs the app out when it is the sign-out, or a check answered 401.
LEMMA EndedBySignOut ==
    ASSUME NEW c \in Calls, NEW result, Ends(c, result), call[c].kind = "restore" => result # "401",
           app.stage \in {"checking", "authenticated"}, app'.stage = "phoneEntry"
    PROVE  call[c].kind = "logout"
BY DEF Ends, SignsOut, Enters

LEMMA FailedBySignOut ==
    ASSUME NEW result, Fails(result),
           \A c \in Calls : call[c].at = "waiting" /\ call[c].kind = "restore" => result # "401",
           app.stage \in {"checking", "authenticated"}, app'.stage = "phoneEntry"
    PROVE  \E k \in Calls : call[k].kind = "logout"
<1>1. PICK c \in Calls : call[c].at = "waiting" /\ Ends(c, result)
  BY DEF Fails
<1>2. QED
  BY <1>1, EndedBySignOut

LEMMA SignedOut ==
    ASSUME IInv, [Next]_vars, app.stage \in {"checking", "authenticated"}, app.refresh # None,
           token[app.refresh].device = app.device, faults' = 0, abandoned = 0,
           app'.stage = "phoneEntry"
    PROVE  \E k \in Calls : call[k].kind = "logout"
<1>0. Base
  BY DEF IInv
<1>1. CASE UNCHANGED phone
  BY <1>1 DEF phone
<1>2. ASSUME NEW h \in Handlers, AskCode(h)
      PROVE  \E k \in Calls : call[k].kind = "logout"
  BY <1>0, <1>2, AskCodeDoes DEF phone, Quiet
<1>3. ASSUME NEW h \in Handlers, NEW c \in 0..sent, TypeCode(h, c)
      PROVE  \E k \in Calls : call[k].kind = "logout"
  BY <1>0, <1>3, TypeCodeDoes DEF phone, Quiet
<1>4. ASSUME NEW h \in Handlers, TypeAgain(h)
      PROVE  \E k \in Calls : call[k].kind = "logout"
  BY <1>0, <1>4, TypeAgainDoes DEF phone, Quiet
<1>5. ASSUME NEW h \in Handlers, SignInTimesOut(h)
      PROVE  \E k \in Calls : call[k].kind = "logout"
  <2>1. faults' = faults + 1
    BY <1>0, <1>5, SignInTimesOutDoes
  <2>2. QED
    BY <2>1 DEF IInv, Base, Typed
<1>6. ASSUME NEW h \in Handlers, StartRefresh(h)
      PROVE  \E k \in Calls : call[k].kind = "logout"
  BY <1>0, <1>6, StartRefreshDoes DEF phone, Quiet
<1>7. ASSUME SignInAnswered
      PROVE  \E k \in Calls : call[k].kind = "logout"
  BY <1>0, <1>7, SignInAnsweredDoes DEF phone
<1>8. ASSUME SaveSignIn
      PROVE  \E k \in Calls : call[k].kind = "logout"
  BY <1>0, <1>8, SaveSignInDoes DEF phone
<1>9. ASSUME SaveFails
      PROVE  \E k \in Calls : call[k].kind = "logout"
  <2>1. faults' = faults + 1
    BY <1>0, <1>9, SaveFailsDoes
  <2>2. QED
    BY <2>1 DEF IInv, Base, Typed
<1>10. ASSUME BackToPhone
      PROVE  \E k \in Calls : call[k].kind = "logout"
  BY <1>0, <1>10, BackToPhoneDoes DEF phone
<1>11. ASSUME NEW c \in Calls, NEW kind \in {"api", "logout"}, StartCall(c, kind)
      PROVE  \E k \in Calls : call[k].kind = "logout"
  BY <1>0, <1>11, StartCallDoes DEF phone
<1>12. ASSUME NEW c \in Calls, Answered(c)
      PROVE  \E k \in Calls : call[k].kind = "logout"
  <2>1. faults = 0
    BY <1>0, <1>12, AnsweredDoes
  <2>2. Replays
    BY DEF IInv, Screens
  <2>3. CASE UNCHANGED app
    BY <2>3
  <2>4. CASE ~UNCHANGED app
    <3>1. PICK result : Over(c, result) /\ (result = "401" => ~Good(c) /\ call[c].replayed)
      BY <1>0, <1>12, <2>4, AnsweredDoes
    <3>2. call[c].kind = "restore" => result # "401"
      BY <2>1, <2>2, <3>1 DEF Replays
    <3>3. QED
      BY <3>1, <3>2, EndedBySignOut DEF Over
  <2>5. QED
    BY <2>3, <2>4
<1>13. ASSUME NEW c \in Calls, Unanswered(c)
      PROVE  \E k \in Calls : call[k].kind = "logout"
  <2>1. faults' = faults + 1
    BY <1>0, <1>13, UnansweredDoes
  <2>2. QED
    BY <2>1 DEF IInv, Base, Typed
<1>14. ASSUME NEW c \in Calls, Restore(c)
      PROVE  \E k \in Calls : call[k].kind = "logout"
  <2>1. faults' = faults + 1 \/ UNCHANGED app
    BY <1>0, <1>14, RestoreDoes
  <2>2. faults' # faults + 1
    BY DEF IInv, Base, Typed
  <2>3. QED
    BY <2>1, <2>2
<1>15. ASSUME NothingToRefresh
      PROVE  \E k \in Calls : call[k].kind = "logout"
  <2>1. faults' = faults + 1
    BY <1>0, <1>15, NothingToRefreshDoes
  <2>2. QED
    BY <2>1 DEF IInv, Base, Typed
<1>16. ASSUME RefreshRefused
      PROVE  \E k \in Calls : call[k].kind = "logout"
  <2>1. faults = 0 /\ refresh.at = "sent"
    BY <1>0, <1>16, RefreshRefusedDoes
  <2>2. Checking /\ Renews /\ Accepted
    BY DEF IInv, Screens
  <2>3. CASE Fails("network")
    BY <2>3, FailedBySignOut
  <2>4. CASE handler[refresh.h].at = "refused" /\ Fails("401")
    <3>1. app.refresh # refresh.t
      BY <2>1, <2>2, <2>4 DEF Accepted, OnDevice
    <3>2. app.stage # "checking"
      BY <2>1, <2>2, <3>1 DEF Renews
    <3>3. \A c \in Calls : call[c].kind # "restore"
      BY <2>2, <3>2 DEF Checking
    <3>4. QED
      BY <2>4, <3>3, FailedBySignOut
  <2>5. QED
    BY <1>0, <1>16, <2>3, <2>4, RefreshRefusedDoes
<1>17. ASSUME RefreshGranted
      PROVE  \E k \in Calls : call[k].kind = "logout"
  BY <1>0, <1>17, RefreshGrantedDoes DEF phone, Quiet
<1>18. ASSUME SaveRefreshed
      PROVE  \E k \in Calls : call[k].kind = "logout"
  BY <1>0, <1>18, SaveRefreshedDoes DEF phone
<1>19. ASSUME NEW result \in {"network", "401"}, RefreshLost(result)
      PROVE  \E k \in Calls : call[k].kind = "logout"
  <2>1. faults' = faults + 1
    BY <1>0, <1>19, RefreshLostDoes
  <2>2. QED
    BY <2>1 DEF IInv, Base, Typed
<1>20. ASSUME Launch
      PROVE  \E k \in Calls : call[k].kind = "logout"
  BY <1>0, <1>20, LaunchDoes DEF phone
<1>21. QED
  BY <1>0, <1>1, <1>2, <1>3, <1>4, <1>5, <1>6, <1>7, <1>8, <1>9, <1>10, <1>11, <1>12, <1>13,
     <1>14, <1>15, <1>16, <1>17, <1>18, <1>19, <1>20, NextPhone

\* With no failure and no block a signed-in app reaches the phone number screen by its
\* sign-out alone: a check's 401 is answered by a refresh that succeeds, and the replay
\* carries the token just fetched.
THEOREM OnlySignOutEnds == Spec => OnlySignOutEndsSession
<1>1. IInv /\ [Next]_vars =>
        [(/\ app.stage \in {"checking", "authenticated"} /\ app.refresh # None
          /\ token[app.refresh].device = app.device
          /\ faults' = 0 /\ abandoned = 0
          /\ app'.stage = "phoneEntry")
              => \E c \in Calls : call[c].kind = "logout"]_vars
  BY SignedOut
<1>2. QED
  BY <1>1, InvHolds, PTL DEF Spec, OnlySignOutEndsSession
===============================================================================
