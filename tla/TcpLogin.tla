------------------------------ MODULE TcpLogin ------------------------------
(***************************************************************************)
(* Logins over TCP, and the end of their tokens: the login sessions of     *)
(* internal/daemon/auth.go with their step timers, revoke and expiry of    *)
(* internal/daemon/tokens.go, and the token store of                       *)
(* internal/clientauth/store.go with its file.                             *)
(*                                                                         *)
(* A frame is reduced to whether it is right for the login's next step, or *)
(* too large to read.  A session names one token.  Flush is given the time *)
(* it needs.  Each connection has one dispatch goroutine and at most one   *)
(* timer; revokes come from one local client, one at a time.  What the     *)
(* store does under its lock is one step, its file being replaced by a     *)
(* rename.  The audit log, the backoff's length and the stop of the daemon *)
(* are left out, and so is handlePreLogin's branch for a session that is   *)
(* not registered, which SessionRegistered shows is never taken.           *)
(***************************************************************************)
EXTENDS Naturals, FiniteSets

CONSTANTS
    Conns,
    Tokens,
    None,        \* no token
    MaxFaults,   \* bound: writes of tokens.json that fail
    MaxKills,    \* bound: times the daemon is killed
    MaxSends     \* bound: frames others send a connection

ASSUME TcpLoginAssumption ==
    /\ None \notin Tokens /\ Tokens # {}
    /\ {MaxFaults, MaxKills, MaxSends} \subseteq Nat

VARIABLES
    link,      \* [Conns -> "new", "open", "closed"]
    disp,      \* [Conns -> where the dispatch goroutine is]
    state,     \* [Conns -> loginSession.state]
    known,     \* authService.logins
    timer,     \* [Conns -> the state its armed timer was set for, or "off"]
    fired,     \* [Conns -> the state a fired timer was set for, or "off"]
    refusal,   \* [Conns -> what became of the refusal frame]
    told,      \* [Conns -> refusal frames sent]
    refuser,   \* [Conns -> [Enders -> where its refuseLogin is]]
    token,     \* [Conns -> the token its hello named, or None]
    auth,      \* [Conns -> the token it is logged in with, or None]
    revoked,   \* connections whose AuthState is revoked
    index,     \* authService.index: connections found by their token
    entries, expired,  \* the store's tokens, and those past their expiry
    disk,      \* tokens.json
    touch,     \* the tokens when a last_used write was asked for, or {None}
    revoke,    \* the revoke under way, as [pc, token, victims]
    workers,   \* connections closeAuthConns has a worker for
    sender,    \* [Conns -> a frame for it that passed the check: none, or "checked"]
    budget,    \* what is left of each bound
    left,      \* history: connections whose peer went first
    answered,  \* history: revokes that were answered with success
    late       \* history: connections sent a frame after their revoke

loginVars == <<disp, state, known, timer, fired, refusal, told, refuser, token>>
authVars == <<auth, revoked, index>>
storeVars == <<entries, expired, disk, touch>>
endVars == <<revoke, workers, sender>>
histVars == <<left, answered, late>>
vars == <<link, loginVars, authVars, storeVars, endVars, budget, histVars>>

LoginStates == {"none", "pending", "checking", "proof", "done", "refusing"}
Timers == {"off", "pending", "proof"}
NoRevoke == [pc |-> "idle", token |-> None, victims |-> {}]
Enders == {"dispatch", "timer"}
NoRefuser == [e \in Enders |-> "none"]

TypeOK ==
    /\ link \in [Conns -> {"new", "open", "closed"}]
    /\ disp \in [Conns -> {"off", "receive", "hello", "proof", "expiring", "admitted",
                           "refuse", "refusing", "toolarge", "teardown", "gone"}]
    /\ state \in [Conns -> LoginStates]
    /\ timer \in [Conns -> Timers] /\ fired \in [Conns -> Timers]
    /\ refusal \in [Conns -> {"none", "queued", "written", "lost"}]
    /\ told \in [Conns -> 0 .. 1]
    /\ refuser \in [Conns -> [Enders -> {"none", "send", "flush", "close"}]]
    /\ token \in [Conns -> Tokens \cup {None}] /\ auth \in [Conns -> Tokens \cup {None}]
    /\ UNION {known, revoked, index, workers, left, late} \subseteq Conns
    /\ UNION {entries, expired, disk, answered} \subseteq Tokens
    /\ touch \subseteq Tokens \cup {None}
    /\ revoke \in [pc : {"idle", "close", "answer"}, token : Tokens \cup {None}, victims : SUBSET Conns]
    /\ sender \in [Conns -> {"none", "checked"}]

Fresh ==
    /\ disp = [c \in Conns |-> "off"]
    /\ state = [c \in Conns |-> "none"] /\ known = {}
    /\ timer = [c \in Conns |-> "off"] /\ fired = [c \in Conns |-> "off"]
    /\ refusal = [c \in Conns |-> "none"] /\ refuser = [c \in Conns |-> NoRefuser]
    /\ told = [c \in Conns |-> 0]
    /\ token = [c \in Conns |-> None]

Init ==
    /\ link = [c \in Conns |-> "new"] /\ Fresh
    /\ auth = [c \in Conns |-> None] /\ revoked = {} /\ index = {}
    /\ entries = Tokens /\ disk = Tokens /\ expired = {} /\ touch = {None}
    /\ revoke = NoRevoke /\ workers = {} /\ sender = [c \in Conns |-> "none"]
    /\ budget = [faults |-> MaxFaults, kills |-> MaxKills, sends |-> MaxSends]
    /\ left = {} /\ answered = {} /\ late = {}

Spend(what) == budget[what] > 0 /\ budget' = [budget EXCEPT ![what] = @ - 1]
Set(f, c, v) == [f EXCEPT ![c] = v]
Goto(c, pc) == disp' = Set(disp, c, pc)
At(c, pc) == disp[c] = pc

-----------------------------------------------------------------------------
(* The login session. *)

\* onTCPAccepted, before the connection's first read.
Accepted(c) ==
    /\ link[c] = "new"
    /\ link' = Set(link, c, "open")
    /\ known' = known \cup {c}
    /\ state' = Set(state, c, "pending")
    /\ timer' = Set(timer, c, "pending")
    /\ Goto(c, "receive")
    /\ UNCHANGED <<fired, refusal, told, refuser, token, authVars, storeVars, endVars, budget, histVars>>

\* A frame of a connection that is not logged in.
Reading(c) == At(c, "receive") /\ link[c] = "open" /\ auth[c] = None

\* handlePreLogin: the CAS that wins the step from its timer.
HelloFrame(c) ==
    /\ Reading(c) /\ c \in known /\ state[c] = "pending"
    /\ state' = Set(state, c, "checking")
    /\ timer' = Set(timer, c, "off")
    /\ Goto(c, "hello")
    /\ UNCHANGED <<link, known, fired, refusal, told, refuser, token, authVars, storeVars, endVars,
                   budget, histVars>>

ProofFrame(c) ==
    /\ Reading(c) /\ c \in known /\ state[c] = "proof"
    /\ state' = Set(state, c, "checking")
    /\ timer' = Set(timer, c, "off")
    /\ Goto(c, "proof")
    /\ UNCHANGED <<link, known, fired, refusal, told, refuser, token, authVars, storeVars, endVars,
                   budget, histVars>>

\* Fault: the proof step has no timer.
ArmProof_Forgotten(c) == UNCHANGED timer
ArmProof(c) == timer' = Set(timer, c, "proof")

\* loginHello.
Challenge(c) ==
    /\ At(c, "hello")
    /\ \E t \in Tokens : token' = Set(token, c, t)
    /\ state' = Set(state, c, "proof")
    /\ ArmProof(c)
    /\ Goto(c, "receive")
    /\ UNCHANGED <<link, known, fired, refusal, told, refuser, authVars, storeVars, endVars, budget,
                   histVars>>

\* A bad hello, a bad proof, or an entry that is not there.
Refused(c) ==
    /\ At(c, "hello") \/ At(c, "proof")
    /\ Goto(c, "refuse")
    /\ UNCHANGED <<link, state, known, timer, fired, refusal, told, refuser, token, authVars,
                   storeVars, endVars, budget, histVars>>

\* loginProof reads the time before Admit waits for the store's lock.
ProofRead(c) ==
    /\ At(c, "proof") /\ token[c] \notin expired
    /\ Goto(c, "expiring")
    /\ UNCHANGED <<link, state, known, timer, fired, refusal, told, refuser, token, authVars,
                   storeVars, endVars, budget, histVars>>

\* Fault: the index is filled by nobody.
IndexAdd_Forgotten(c) == UNCHANGED index
IndexAdd(c) == index' = index \cup {c}

\* Fault: the entry was looked up before the lock was taken.
StillThere_Before(c) == TRUE
StillThere(c) == token[c] \in entries

\* Store.Admit with its callback, under the store's lock.
Admit(c) ==
    /\ At(c, "expiring") /\ StillThere(c)
    /\ IndexAdd(c)
    /\ auth' = Set(auth, c, token[c])
    /\ Goto(c, "admitted")
    /\ UNCHANGED <<link, state, known, timer, fired, refusal, told, refuser, token, revoked,
                   storeVars, endVars, budget, histVars>>

AdmitRefused(c) ==
    /\ At(c, "expiring") /\ ~StillThere(c)
    /\ Goto(c, "refuse")
    /\ UNCHANGED <<link, state, known, timer, fired, refusal, told, refuser, token, authVars,
                   storeVars, endVars, budget, histVars>>

\* The rest of loginProof; TouchLastUsed finds nothing of a revoked token.
LoggedIn(c) ==
    /\ At(c, "admitted")
    /\ state' = Set(state, c, "done")
    /\ known' = known \ {c}
    /\ touch' = IF auth[c] \in entries THEN entries ELSE touch
    /\ Goto(c, "receive")
    /\ UNCHANGED <<link, timer, fired, refusal, told, refuser, token, authVars, entries, expired,
                   disk, endVars, budget, histVars>>

-----------------------------------------------------------------------------
(* Step timers, refusals and oversized frames. *)

TimerFires(c) ==
    /\ timer[c] # "off"
    /\ fired' = Set(fired, c, timer[c])
    /\ timer' = Set(timer, c, "off")
    /\ UNCHANGED <<link, disp, state, known, refusal, told, refuser, token, authVars, storeVars,
                   endVars, budget, histVars>>

\* Fault: the timer does not look at the state it was armed for.
TimerWins_Always(c) == TRUE
TimerWins(c) == state[c] = fired[c]

\* loginTimedOut.
TimedOut(c) ==
    /\ fired[c] # "off"
    /\ IF TimerWins(c)
         THEN /\ state' = Set(state, c, "refusing")
              /\ refuser' = [refuser EXCEPT ![c]["timer"] = "send"]
         ELSE UNCHANGED <<state, refuser>>
    /\ fired' = Set(fired, c, "off")
    /\ UNCHANGED <<link, disp, known, timer, refusal, told, token, authVars, storeVars, endVars,
                   budget, histVars>>

EnterRefuse(c) ==
    /\ At(c, "refuse") /\ refuser[c]["dispatch"] = "none"
    /\ refuser' = [refuser EXCEPT ![c]["dispatch"] = "send"]
    /\ Goto(c, "refusing")
    /\ UNCHANGED <<link, state, known, timer, fired, refusal, told, token, authVars, storeVars,
                   endVars, budget, histVars>>

\* Fault: a refused session is forgotten before its refusal is flushed.
StillKnown_Forgotten(c) == known' = known \ {c}
StillKnown(c) == UNCHANGED known

\* refuseLogin up to its flush.
SendRefusal(c, e) ==
    /\ refuser[c][e] = "send"
    /\ state' = Set(state, c, "refusing")
    /\ timer' = Set(timer, c, "off")
    /\ StillKnown(c)
    /\ IF link[c] = "open"
         THEN refusal' = Set(refusal, c, "queued") /\ told' = Set(told, c, told[c] + 1)
         ELSE UNCHANGED <<refusal, told>>
    /\ refuser' = [refuser EXCEPT ![c][e] = "flush"]
    /\ UNCHANGED <<link, disp, fired, token, authVars, storeVars, endVars, budget, histVars>>

\* The send loop.
WriteRefusal(c) ==
    /\ refusal[c] = "queued" /\ link[c] = "open"
    /\ refusal' = Set(refusal, c, "written")
    /\ UNCHANGED <<link, disp, state, known, timer, fired, told, refuser, token, authVars,
                   storeVars, endVars, budget, histVars>>

Flushed(c, e) ==
    /\ refuser[c][e] = "flush"
    /\ refusal[c] # "queued" \/ link[c] = "closed"
    /\ refuser' = [refuser EXCEPT ![c][e] = "close"]
    /\ UNCHANGED <<link, disp, state, known, timer, fired, refusal, told, token, authVars,
                   storeVars, endVars, budget, histVars>>

\* Close drops what is still queued.
CloseLink(c) ==
    /\ link' = Set(link, c, "closed")
    /\ refusal' = IF refusal[c] = "queued" THEN Set(refusal, c, "lost") ELSE refusal

CloseRefused(c, e) ==
    /\ refuser[c][e] = "close"
    /\ CloseLink(c)
    /\ refuser' = [refuser EXCEPT ![c][e] = "none"]
    /\ disp' = IF e = "dispatch" /\ At(c, "refusing") THEN Set(disp, c, "receive") ELSE disp
    /\ UNCHANGED <<state, known, timer, fired, told, token, authVars, storeVars, endVars,
                   budget, histVars>>

\* Receive stops at a frame over the cap before login: onTCPRejected, after
\* which the connection is closed.
TooLarge(c) ==
    /\ Reading(c)
    /\ \/ /\ state[c] = "pending"
          /\ Goto(c, "teardown") /\ state' = Set(state, c, "refusing")
          /\ timer' = Set(timer, c, "off")
          /\ UNCHANGED refuser
       \/ /\ state[c] = "proof"
          /\ Goto(c, "toolarge") /\ state' = Set(state, c, "refusing")
          /\ refuser' = [refuser EXCEPT ![c]["dispatch"] = "send"]
          /\ UNCHANGED timer
       \/ /\ state[c] \notin {"pending", "proof"}
          /\ Goto(c, "toolarge")
          /\ UNCHANGED <<state, timer, refuser>>
    /\ UNCHANGED <<link, known, fired, refusal, told, token, authVars, storeVars, endVars, budget,
                   histVars>>

\* Fault: an oversized frame does not wait for the refusal under way.
RefusalOver_NoWait(c) == refuser[c]["dispatch"] = "none"
RefusalOver(c) == refuser[c] = NoRefuser

TooLargeEnds(c) ==
    /\ At(c, "toolarge") /\ RefusalOver(c)
    /\ Goto(c, "teardown")
    /\ UNCHANGED <<link, state, known, timer, fired, refusal, told, refuser, token, authVars,
                   storeVars, endVars, budget, histVars>>

PeerLeaves(c) ==
    /\ link[c] = "open"
    /\ CloseLink(c)
    /\ left' = left \cup {c}
    /\ UNCHANGED <<disp, state, known, timer, fired, told, refuser, token, authVars, storeVars,
                   endVars, budget, answered, late>>

ReceiveFails(c) ==
    /\ At(c, "receive") /\ link[c] = "closed"
    /\ Goto(c, "teardown")
    /\ UNCHANGED <<link, state, known, timer, fired, refusal, told, refuser, token, authVars,
                   storeVars, endVars, budget, histVars>>

\* handleConn's deferred close and onTCPDisconnect.
Teardown(c) ==
    /\ At(c, "teardown")
    /\ CloseLink(c)
    /\ known' = known \ {c}
    /\ timer' = Set(timer, c, "off")
    /\ index' = index \ {c}
    /\ Goto(c, "gone")
    /\ UNCHANGED <<state, fired, told, refuser, token, auth, revoked, storeVars, endVars, budget,
                   histVars>>
-----------------------------------------------------------------------------
(* The end of tokens: revoke, expiry, restarts. *)

\* markRevoked's connections.
Live(t) == {c \in index : auth[c] = t}

\* Store.Revoke under its lock: the entry goes, the file is written, and only
\* then is everyone of the token silenced.
Revoke(t) ==
    /\ revoke.pc = "idle" /\ t \in entries
    /\ entries' = entries \ {t} /\ disk' = entries \ {t}
    /\ revoked' = revoked \cup Live(t)
    /\ revoke' = [pc |-> "close", token |-> t, victims |-> Live(t)]
    /\ UNCHANGED <<link, loginVars, auth, index, expired, touch, workers, sender, budget,
                   histVars>>

\* Fault: an entry whose removal was not written stays away.
Restored_Forgotten(t) == entries \ {t}
Restored(t) == entries

\* The write fails: the revoke is answered with an error.
RevokeFails(t) ==
    /\ revoke.pc = "idle" /\ t \in entries
    /\ Spend("faults")
    /\ entries' = Restored(t)
    /\ UNCHANGED <<link, loginVars, authVars, expired, disk, touch, endVars, histVars>>

\* closeAuthConns.
RevokeCloses ==
    /\ revoke.pc = "close"
    /\ workers' = workers \cup revoke.victims
    /\ revoke' = [revoke EXCEPT !.pc = "answer"]
    /\ UNCHANGED <<link, loginVars, authVars, storeVars, sender, budget, histVars>>

RevokeAnswers ==
    /\ revoke.pc = "answer"
    /\ answered' = answered \cup {revoke.token}
    /\ revoke' = NoRevoke
    /\ UNCHANGED <<link, loginVars, authVars, storeVars, workers, sender, budget, left, late>>

\* A worker: the reason is sent and flushed, the connection closed.
WorkerCloses(c) ==
    /\ c \in workers
    /\ CloseLink(c)
    /\ workers' = workers \ {c}
    /\ UNCHANGED <<disp, state, known, timer, fired, told, refuser, token, authVars, storeVars,
                   revoke, sender, budget, histVars>>

TimePasses(t) ==
    /\ t \notin expired
    /\ expired' = expired \cup {t}
    /\ UNCHANGED <<link, loginVars, authVars, entries, disk, touch, endVars, budget, histVars>>

\* Everyone of an expired token that is still listed.
Swept == {c \in index : auth[c] \in entries \cap expired}

ExpireTokens ==
    /\ Swept \ workers # {}
    /\ revoked' = revoked \cup Swept
    /\ workers' = workers \cup Swept
    /\ UNCHANGED <<link, loginVars, auth, index, storeVars, revoke, sender, budget, histVars>>

\* Fault: what is written is what there was when the write was asked for.
Persist_AsTouched == disk' = touch
\* Store.Persist, on a worker, of what there is when it has the lock.
PersistNow == disk' = entries

Persist ==
    /\ touch # {None}
    /\ PersistNow
    /\ touch' = {None}
    /\ UNCHANGED <<link, loginVars, authVars, entries, expired, endVars, budget, histVars>>

\* Killed between any two steps and started again from tokens.json.
Killed ==
    /\ Spend("kills")
    /\ link' = [c \in Conns |-> IF link[c] = "new" THEN "new" ELSE "closed"]
    /\ disp' = [c \in Conns |-> IF link[c] = "new" THEN "off" ELSE "gone"]
    /\ state' = [c \in Conns |-> "none"] /\ known' = {}
    /\ timer' = [c \in Conns |-> "off"] /\ fired' = [c \in Conns |-> "off"]
    /\ refusal' = [c \in Conns |-> "none"] /\ told' = [c \in Conns |-> 0]
    /\ refuser' = [c \in Conns |-> NoRefuser] /\ token' = [c \in Conns |-> None]
    /\ auth' = [c \in Conns |-> None] /\ revoked' = {} /\ index' = {}
    /\ entries' = disk /\ touch' = {None}
    /\ revoke' = NoRevoke /\ workers' = {} /\ sender' = [c \in Conns |-> "none"]
    /\ UNCHANGED <<expired, disk, histVars>>

\* A frame from another goroutine: Send and Broadcast look whether the
\* connection is silenced, and queue the frame after.
SendCheck(c) ==
    /\ sender[c] = "none" /\ link[c] = "open" /\ auth[c] # None /\ c \notin revoked
    /\ Spend("sends")
    /\ sender' = Set(sender, c, "checked")
    /\ UNCHANGED <<link, loginVars, authVars, storeVars, revoke, workers, histVars>>

SendQueue(c) ==
    /\ sender[c] = "checked"
    /\ sender' = Set(sender, c, "none")
    /\ late' = IF link[c] = "open" /\ c \in revoked THEN late \cup {c} ELSE late
    /\ UNCHANGED <<link, loginVars, authVars, storeVars, revoke, workers, budget, left, answered>>

-----------------------------------------------------------------------------
Dispatching(c) ==
    \/ Challenge(c) \/ Refused(c) \/ ProofRead(c) \/ Admit(c) \/ AdmitRefused(c) \/ LoggedIn(c)
    \/ EnterRefuse(c) \/ TooLargeEnds(c) \/ ReceiveFails(c) \/ Teardown(c)

Refusing(c, e) == SendRefusal(c, e) \/ Flushed(c, e) \/ CloseRefused(c, e)

Frames(c) == Accepted(c) \/ HelloFrame(c) \/ ProofFrame(c) \/ TooLarge(c)

Revoking == RevokeCloses \/ RevokeAnswers

Next ==
    \/ \E c \in Conns :
        \/ Frames(c) \/ Dispatching(c) \/ PeerLeaves(c)
        \/ TimerFires(c) \/ TimedOut(c) \/ WriteRefusal(c)
        \/ \E e \in Enders : Refusing(c, e)
        \/ WorkerCloses(c) \/ SendCheck(c) \/ SendQueue(c)
    \/ \E t \in Tokens : Revoke(t) \/ RevokeFails(t) \/ TimePasses(t)
    \/ Revoking \/ ExpireTokens \/ Persist \/ Killed

Spec == Init /\ [][Next]_vars

\* Goroutines and timers run and the sweep comes round.  Peers owe nothing.
Fairness ==
    /\ \A c \in Conns :
        /\ WF_vars(Dispatching(c)) /\ WF_vars(TimerFires(c)) /\ WF_vars(TimedOut(c))
        /\ WF_vars(WriteRefusal(c)) /\ WF_vars(WorkerCloses(c))
        /\ \A e \in Enders : WF_vars(Refusing(c, e))
    /\ WF_vars(Revoking) /\ WF_vars(ExpireTokens)

FairSpec == Spec /\ Fairness

-----------------------------------------------------------------------------
(* Properties. *)

\* Revoke and admission do not cross: whoever is logged in with a token that
\* has been taken away is silenced already (docs/architecture.md, Store.Admit
\* and Store.Revoke under one lock).
NoLiveSessionOfRevoked ==
    \A c \in Conns :
        link[c] = "open" /\ auth[c] # None /\ auth[c] \notin entries => c \in revoked

\* A login has one verdict: its timer, its frames and an oversized one end it
\* once, and nobody who was let in is also refused (the CAS on
\* loginSession.state).
OneVerdict == \A c \in Conns : told[c] <= 1 /\ (auth[c] # None => told[c] = 0)

\* A refusal that was queued reaches a peer that waits for it: no other path
\* closes the connection before the flush (loginRefusing, loginSession.refused).
RefusalDelivered == \A c \in Conns : refusal[c] = "lost" => c \in left

\* A frame before login always finds its session: the branch for one that is
\* not registered is not reachable, as handlePreLogin's comment says.
SessionRegistered == \A c \in Conns : Reading(c) => c \in known

\* A revoke that was answered holds: neither a failed write, a last_used write
\* that was asked for earlier, nor a kill brings the token back.
RevokeHolds == answered \cap (entries \cup disk) = {}

\* A token the file still has is not gone from memory alone: a revoke that
\* could not be written leaves it in force, as its caller was told.
FileIsMemory == revoke.pc = "idle" => disk = entries

\* Nothing new is queued for a connection after its token's revoke (AuthState.
\* Revoke).  A sender between its check and its queue still does.
NothingAfterRevoke == late = {}

\* Whoever connects is let in or cut off in the end, however it stalls: a place
\* for a login is not held for ever (the step timers).
LoginEnds ==
    \A c \in Conns : link[c] = "open" /\ auth[c] = None ~> link[c] = "closed" \/ auth[c] # None

\* The connections of an expired token are closed, also one that Admit let in
\* on a clock read before the expiry (expireTokens).
ExpiredCutOff ==
    \A c \in Conns : auth[c] # None /\ auth[c] \in expired \cap entries ~> link[c] = "closed"

\* The types, and a login's one course: a session from the first frame on, one
\* verdict, and a refusal that arrives.
LoginSound == TypeOK /\ SessionRegistered /\ OneVerdict /\ RefusalDelivered

\* A token that was revoked is out: in memory, on the disk and on every open
\* connection, and one that could not be revoked is still in.
RevokedStaysOut == NoLiveSessionOfRevoked /\ RevokeHolds /\ FileIsMemory
=============================================================================
