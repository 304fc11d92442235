--------------------------- MODULE TcpLogin_proofs ---------------------------
(***************************************************************************)
(* What TcpLogin keeps for every number of connections, tokens, faults and *)
(* kills.                                                                  *)
(*                                                                         *)
(* A login's state is a lock: the dispatch goroutine holds it while it     *)
(* checks a frame, and whoever moves it to "refusing" is the only one to   *)
(* refuse.  That gives one verdict, and a refusal nobody closes before it  *)
(* is flushed.  A revoked token stays out because the file is the memory,  *)
(* and because whoever is logged in on an open connection is in the index. *)
(***************************************************************************)
EXTENDS TcpLogin, TLAPS

DispPCs == {"off", "receive", "hello", "proof", "expiring", "admitted", "refuse", "refusing",
            "toolarge", "teardown", "gone"}
Checks == {"hello", "proof", "expiring", "admitted", "refuse"}
RefuserPCs == {"none", "send", "flush", "close"}

\* The types of what a connection has.
ConnTypes ==
    /\ link \in [Conns -> {"new", "open", "closed"}]
    /\ disp \in [Conns -> DispPCs] /\ state \in [Conns -> LoginStates]
    /\ timer \in [Conns -> Timers] /\ fired \in [Conns -> Timers]
    /\ refusal \in [Conns -> {"none", "queued", "written", "lost"}]
    /\ told \in [Conns -> 0 .. 1]
    /\ refuser \in [Conns -> [Enders -> RefuserPCs]]
    /\ token \in [Conns -> Tokens \cup {None}] /\ auth \in [Conns -> Tokens \cup {None}]
    /\ sender \in [Conns -> {"none", "checked"}]

\* The types of the sets.
SetTypes ==
    /\ known \subseteq Conns /\ revoked \subseteq Conns /\ index \subseteq Conns
    /\ workers \subseteq Conns /\ left \subseteq Conns /\ late \subseteq Conns
    /\ entries \subseteq Tokens /\ expired \subseteq Tokens /\ disk \subseteq Tokens
    /\ answered \subseteq Tokens /\ touch \subseteq Tokens \cup {None}
    /\ revoke \in [pc : {"idle", "close", "answer"}, token : Tokens \cup {None}, victims : SUBSET Conns]

\* Where the dispatch goroutine is, with the state of the login.
Course(c) ==
    /\ link[c] = "new" <=> disp[c] = "off"
    /\ link[c] = "new" => state[c] = "none" /\ timer[c] = "off" /\ fired[c] = "off"
    /\ state[c] = "none" => disp[c] \in {"off", "gone"}
    /\ disp[c] \in Checks => state[c] = "checking"
    /\ state[c] = "checking" => disp[c] \in Checks \cup {"refusing"}
    /\ disp[c] = "toolarge" => state[c] = "refusing"
    /\ disp[c] = "gone" => link[c] = "closed"
    /\ disp[c] \notin {"off", "gone"} => c \in known \/ auth[c] # None
    /\ disp[c] = "admitted" => auth[c] # None
    /\ state[c] = "done" => auth[c] # None
    /\ auth[c] # None => state[c] = "done" \/ (state[c] = "checking" /\ disp[c] = "admitted")

\* One refuses at a time, and only who holds the state.
Refuser(c) ==
    /\ refuser[c]["dispatch"] = "none" \/ refuser[c]["timer"] = "none"
    /\ \A e \in Enders : refuser[c][e] = "send" => told[c] = 0
    /\ \A e \in Enders : refuser[c][e] # "none" =>
         \/ state[c] = "refusing"
         \/ e = "dispatch" /\ refuser[c][e] = "send" /\ state[c] = "checking" /\ disp[c] = "refusing"
    /\ told[c] = 1 => state[c] = "refusing"
    /\ refusal[c] = "queued" => link[c] = "open" /\ \E e \in Enders : refuser[c][e] = "flush"
    /\ refusal[c] = "lost" => c \in left
    /\ disp[c] = "teardown" =>
         \/ link[c] = "closed"
         \/ /\ state[c] = "refusing"
            /\ refuser[c]["dispatch"] = "none" /\ refuser[c]["timer"] = "none"

Session(c) == Course(c) /\ Refuser(c)

\* Whoever is logged in on an open connection is found by its token.
Indexed ==
    /\ \A c \in Conns : auth[c] # None /\ link[c] = "open" => c \in index
    /\ \A c \in index \cup workers \cup revoke.victims : auth[c] # None

\* The file is the memory, and what a revoke took is in neither.
Taken ==
    /\ disk = entries
    /\ answered \cap entries = {}
    /\ revoke.pc # "idle" => revoke.token \in Tokens /\ revoke.token \notin entries

IInv ==
    /\ ConnTypes /\ SetTypes
    /\ \A c \in Conns : Session(c)
    /\ Indexed /\ Taken /\ NoLiveSessionOfRevoked

----------------------------------------------------------------------------
LEMMA Constants == None \notin Tokens
  BY TcpLoginAssumption

LEMMA InitInv == Init => IInv
<1> SUFFICES ASSUME Init PROVE IInv
  OBVIOUS
<1> USE DEF Init, Fresh
<1>1. ConnTypes
  BY DEF ConnTypes, DispPCs, LoginStates, Timers, RefuserPCs, NoRefuser
<1>2. SetTypes
  BY DEF SetTypes, NoRevoke
<1>3. ASSUME NEW c \in Conns PROVE Session(c)
  <2>1. refuser[c]["dispatch"] = "none" /\ \A e \in Enders : refuser[c][e] = "none"
    BY DEF NoRefuser, Enders
  <2> QED
    BY <2>1 DEF Session, Course, Refuser, Checks, Enders
<1>4. Indexed /\ Taken /\ NoLiveSessionOfRevoked
  BY DEF Indexed, Taken, NoLiveSessionOfRevoked, NoRevoke
<1> QED
  BY <1>1, <1>2, <1>3, <1>4 DEF IInv

\* One refuser's step is its own, and no other connection's.
LEMMA RefuserSet ==
    ASSUME ConnTypes, NEW c \in Conns, NEW e \in Enders, NEW pc \in RefuserPCs,
           refuser' = [refuser EXCEPT ![c][e] = pc]
    PROVE  /\ refuser' \in [Conns -> [Enders -> RefuserPCs]]
           /\ refuser'[c][e] = pc
           /\ \A x \in Enders : x # e => refuser'[c][x] = refuser[c][x]
           /\ \A d \in Conns : d # c => refuser'[d] = refuser[d]
<1>1. refuser[c] \in [Enders -> RefuserPCs]
  BY DEF ConnTypes
<1>2. refuser' = [refuser EXCEPT ![c] = [refuser[c] EXCEPT ![e] = pc]]
  OBVIOUS
<1>3. [refuser[c] EXCEPT ![e] = pc] \in [Enders -> RefuserPCs]
  BY <1>1
<1> QED
  BY <1>1, <1>2, <1>3 DEF ConnTypes

LEMMA NoRefuserIs ==
    ASSUME ConnTypes, NEW c \in Conns
    PROVE  refuser[c] = NoRefuser <=> refuser[c]["dispatch"] = "none" /\ refuser[c]["timer"] = "none"
<1>1. refuser[c] \in [Enders -> RefuserPCs]
  BY DEF ConnTypes
<1> QED
  BY <1>1 DEF NoRefuser, Enders

----------------------------------------------------------------------------
(* The course of a login *)

\* What another connection's step leaves alone.
LEMMA Untouched ==
    ASSUME NEW d \in Conns, Session(d),
           link'[d] = link[d], disp'[d] = disp[d], state'[d] = state[d], timer'[d] = timer[d],
           fired'[d] = fired[d],
           refusal'[d] = refusal[d], told'[d] = told[d], refuser'[d] = refuser[d],
           auth'[d] = auth[d], (d \in known) = (d \in known'), (d \in left) => (d \in left')
    PROVE  Session(d)'
  BY DEF Session, Course, Refuser

\* Frames of a connection that is not logged in.
LEMMA FramesKeepCourse ==
    ASSUME IInv, NEW c \in Conns, Accepted(c) \/ HelloFrame(c) \/ ProofFrame(c)
    PROVE  Session(c)'
<1> USE DEF IInv, ConnTypes, Session, Course, Refuser, Set, Goto, At, authVars, histVars, Checks, Enders
<1>1. CASE Accepted(c)
  BY <1>1 DEF Accepted
<1>2. CASE HelloFrame(c)
  BY <1>2 DEF HelloFrame, Reading
<1>3. CASE ProofFrame(c)
  BY <1>3 DEF ProofFrame, Reading
<1> QED
  BY <1>1, <1>2, <1>3

LEMMA DispatchKeepsCourse ==
    ASSUME IInv, NEW c \in Conns,
           Challenge(c) \/ Refused(c) \/ ProofRead(c) \/ Admit(c) \/ AdmitRefused(c) \/ LoggedIn(c)
             \/ ReceiveFails(c)
    PROVE  Session(c)'
<1> USE DEF IInv, ConnTypes, Session, Course, Refuser, Set, Goto, At, authVars, histVars, Checks, Enders
<1>1. CASE Challenge(c)
  BY <1>1 DEF Challenge
<1>2. CASE Refused(c)
  BY <1>2 DEF Refused
<1>3. CASE ProofRead(c)
  BY <1>3 DEF ProofRead
<1>4. CASE Admit(c)
  <2>1. token[c] # None
    BY <1>4, Constants DEF Admit, StillThere, SetTypes
  <2> QED
    BY <1>4, <2>1 DEF Admit
<1>5. CASE AdmitRefused(c)
  BY <1>5 DEF AdmitRefused
<1>6. CASE LoggedIn(c)
  BY <1>6 DEF LoggedIn
<1>7. CASE ReceiveFails(c)
  BY <1>7 DEF ReceiveFails
<1> QED
  BY <1>1, <1>2, <1>3, <1>4, <1>5, <1>6, <1>7

LEMMA TimersKeepCourse ==
    ASSUME IInv, NEW c \in Conns, TimerFires(c) \/ TimedOut(c) \/ WriteRefusal(c) \/ EnterRefuse(c)
    PROVE  Session(c)'
<1> USE DEF IInv, ConnTypes, Session, Course, Refuser, Set, Goto, At, authVars, histVars, Checks, Enders
<1>1. CASE TimerFires(c)
  BY <1>1 DEF TimerFires
<1>2. CASE TimedOut(c)
  <2>1. CASE TimerWins(c)
    <3>1. refuser'[c]["timer"] = "send" /\ refuser'[c]["dispatch"] = refuser[c]["dispatch"]
      BY <1>2, <2>1, RefuserSet DEF TimedOut, RefuserPCs
    <3>2. state[c] \in {"pending", "proof"} /\ state'[c] = "refusing"
      BY <1>2, <2>1 DEF TimedOut, TimerWins, Timers
    <3>3. told[c] = 0 /\ refuser[c]["timer"] = "none" /\ refuser[c]["dispatch"] = "none"
      BY <3>2
    <3> QED
      BY <1>2, <2>1, <3>1, <3>2, <3>3 DEF TimedOut
  <2>2. CASE ~TimerWins(c)
    BY <1>2, <2>2 DEF TimedOut
  <2> QED
    BY <2>1, <2>2
<1>3. CASE WriteRefusal(c)
  BY <1>3 DEF WriteRefusal
<1>4. CASE EnterRefuse(c)
  <2>1. refuser'[c]["dispatch"] = "send" /\ refuser'[c]["timer"] = refuser[c]["timer"]
    BY <1>4, RefuserSet DEF EnterRefuse, RefuserPCs
  <2>2. state[c] = "checking" /\ told[c] = 0 /\ refuser[c]["timer"] = "none"
    BY <1>4 DEF EnterRefuse
  <2> QED
    BY <1>4, <2>1, <2>2 DEF EnterRefuse
<1> QED
  BY <1>1, <1>2, <1>3, <1>4

LEMMA RefusingKeepsCourse ==
    ASSUME IInv, NEW c \in Conns, NEW e \in Enders, Refusing(c, e)
    PROVE  Session(c)'
<1> USE DEF IInv, ConnTypes, Session, Course, Refuser, Set, Goto, At, authVars, histVars, Checks, Enders
<1>1. CASE SendRefusal(c, e)
  BY <1>1, RefuserSet, SMTT(30) DEF SendRefusal, StillKnown, RefuserPCs
<1>2. CASE Flushed(c, e)
  BY <1>2, RefuserSet, SMTT(30) DEF Flushed, RefuserPCs
<1>3. CASE CloseRefused(c, e)
  BY <1>3, RefuserSet, SMTT(30) DEF CloseRefused, CloseLink, RefuserPCs
<1> QED
  BY <1>1, <1>2, <1>3 DEF Refusing

LEMMA EndsKeepCourse ==
    ASSUME IInv, NEW c \in Conns,
           TooLarge(c) \/ TooLargeEnds(c) \/ PeerLeaves(c) \/ Teardown(c) \/ WorkerCloses(c)
    PROVE  Session(c)'
<1> USE DEF IInv, ConnTypes, Session, Course, Refuser, Set, Goto, At, authVars, histVars, Checks, Enders
<1>1. CASE TooLarge(c)
  <2>1. CASE state[c] = "pending"
    BY <1>1, <2>1 DEF TooLarge, Reading
  <2>2. CASE state[c] = "proof"
    <3>1. refuser' = [refuser EXCEPT ![c]["dispatch"] = "send"]
      BY <1>1, <2>2 DEF TooLarge
    <3>2. refuser'[c]["dispatch"] = "send" /\ refuser'[c]["timer"] = refuser[c]["timer"]
      BY <3>1, RefuserSet DEF RefuserPCs
    <3>3. told[c] = 0 /\ refuser[c]["timer"] = "none"
      BY <2>2
    <3> QED
      BY <1>1, <2>2, <3>2, <3>3 DEF TooLarge, Reading
  <2>3. CASE state[c] \notin {"pending", "proof"}
    BY <1>1, <2>3 DEF TooLarge, Reading, LoginStates
  <2> QED
    BY <2>1, <2>2, <2>3
<1>2. CASE TooLargeEnds(c)
  BY <1>2, NoRefuserIs DEF TooLargeEnds, RefusalOver
<1>3. CASE PeerLeaves(c)
  BY <1>3 DEF PeerLeaves, CloseLink
<1>4. CASE Teardown(c)
  BY <1>4, SMTT(30) DEF Teardown, CloseLink
<1>5. CASE WorkerCloses(c)
  BY <1>5 DEF WorkerCloses, CloseLink, Indexed
<1> QED
  BY <1>1, <1>2, <1>3, <1>4, <1>5

\* Steps of the connection c.
ConnStep(c) ==
    \/ Frames(c) \/ Dispatching(c) \/ PeerLeaves(c)
    \/ TimerFires(c) \/ TimedOut(c) \/ WriteRefusal(c)
    \/ \E e \in Enders : Refusing(c, e)
    \/ WorkerCloses(c)

LEMMA StepKeepsOwnCourse ==
    ASSUME IInv, NEW c \in Conns, ConnStep(c)
    PROVE  Session(c)'
<1>1. ASSUME NEW e \in Enders, Refusing(c, e) PROVE Session(c)'
  BY <1>1, RefusingKeepsCourse
<1> QED
  BY <1>1, FramesKeepCourse, DispatchKeepsCourse, TimersKeepCourse, EndsKeepCourse
  DEF ConnStep, Frames, Dispatching

\* A connection's step leaves the others' course alone.
LEMMA StepKeepsOtherCourses ==
    ASSUME IInv, NEW c \in Conns, ConnStep(c), NEW d \in Conns, d # c
    PROVE  Session(d)'
<1> USE DEF IInv, ConnTypes, Set, Goto, authVars, histVars, CloseLink
<1>1. CASE Frames(c)
  <2>1. refuser'[d] = refuser[d]
    BY <1>1 DEF Frames, Accepted, HelloFrame, ProofFrame, TooLarge
  <2> QED
    BY <1>1, <2>1, Untouched, SMTT(40) DEF Frames, Accepted, HelloFrame, ProofFrame, TooLarge
<1>2. CASE Dispatching(c)
  <2>1. refuser'[d] = refuser[d]
    BY <1>2 DEF Dispatching, Challenge, Refused, ProofRead, Admit, AdmitRefused, LoggedIn,
                EnterRefuse, TooLargeEnds, ReceiveFails, Teardown
  <2>2. timer'[d] = timer[d]
    BY <1>2 DEF Dispatching, Challenge, Refused, ProofRead, Admit, AdmitRefused, LoggedIn,
                EnterRefuse, TooLargeEnds, ReceiveFails, Teardown, ArmProof
  <2>3. /\ link'[d] = link[d] /\ disp'[d] = disp[d] /\ state'[d] = state[d]
        /\ fired'[d] = fired[d] /\ auth'[d] = auth[d]
    BY <1>2 DEF Dispatching, Challenge, Refused, ProofRead, Admit, AdmitRefused, LoggedIn,
                EnterRefuse, TooLargeEnds, ReceiveFails, Teardown
  <2>4. /\ refusal'[d] = refusal[d] /\ told'[d] = told[d] /\ left' = left
        /\ (d \in known) = (d \in known')
    BY <1>2 DEF Dispatching, Challenge, Refused, ProofRead, Admit, AdmitRefused, LoggedIn,
                EnterRefuse, TooLargeEnds, ReceiveFails, Teardown
  <2> QED
    BY <2>1, <2>2, <2>3, <2>4, Untouched
<1>3. CASE PeerLeaves(c) \/ TimerFires(c) \/ TimedOut(c) \/ WriteRefusal(c) \/ WorkerCloses(c)
  <2>1. refuser'[d] = refuser[d]
    BY <1>3 DEF PeerLeaves, TimerFires, TimedOut, WriteRefusal, WorkerCloses
  <2> QED
    BY <1>3, <2>1, Untouched DEF PeerLeaves, TimerFires, TimedOut, WriteRefusal, WorkerCloses
<1>4. ASSUME NEW e \in Enders, Refusing(c, e) PROVE Session(d)'
  <2>1. refuser'[d] = refuser[d]
    BY <1>4 DEF Refusing, SendRefusal, Flushed, CloseRefused
  <2> QED
    BY <1>4, <2>1, Untouched DEF Refusing, SendRefusal, StillKnown, Flushed, CloseRefused
<1> QED
  BY <1>1, <1>2, <1>3, <1>4 DEF ConnStep

\* Everyone else's steps.
OtherStep ==
    \/ \E c \in Conns : SendCheck(c) \/ SendQueue(c)
    \/ \E t \in Tokens : Revoke(t) \/ RevokeFails(t) \/ TimePasses(t)
    \/ Revoking \/ ExpireTokens \/ Persist

LEMMA NextSplits == Next <=> (\E c \in Conns : ConnStep(c)) \/ OtherStep \/ Killed
  BY DEF Next, ConnStep, OtherStep

LEMMA StepKeepsCourses ==
    ASSUME IInv, [Next]_vars
    PROVE  \A c \in Conns : Session(c)'
<1>1. ASSUME NEW c \in Conns, ConnStep(c) PROVE \A d \in Conns : Session(d)'
  BY <1>1, StepKeepsOwnCourse, StepKeepsOtherCourses
<1>2. CASE OtherStep \/ UNCHANGED vars
  <2>1. UNCHANGED <<link, loginVars, auth, left>>
    BY <1>2 DEF OtherStep, vars, SendCheck, SendQueue, Revoke, RevokeFails, TimePasses, Revoking,
                RevokeCloses, RevokeAnswers, ExpireTokens, Persist, authVars, histVars
  <2> QED
    BY <2>1, Untouched DEF loginVars, IInv
<1>3. CASE Killed
  <2> SUFFICES ASSUME NEW c \in Conns PROVE Session(c)'
    OBVIOUS
  <2>1. /\ refuser'[c]["dispatch"] = "none" /\ refuser'[c]["timer"] = "none"
        /\ \A e \in Enders : refuser'[c][e] = "none"
    BY <1>3 DEF Killed, NoRefuser, Enders
  <2>2. /\ link'[c] = IF link[c] = "new" THEN "new" ELSE "closed"
        /\ disp'[c] = IF link[c] = "new" THEN "off" ELSE "gone"
        /\ state'[c] = "none" /\ timer'[c] = "off" /\ fired'[c] = "off" /\ refusal'[c] = "none"
        /\ told'[c] = 0 /\ auth'[c] = None
    BY <1>3 DEF Killed
  <2> QED
    BY <2>1, <2>2 DEF Session, Course, Refuser, Checks
<1> QED
  BY <1>1, <1>2, <1>3, NextSplits

----------------------------------------------------------------------------
(* The types *)

\* A connection's own step, one variable at a time.
LEMMA ConnStepKeepsTypes ==
    ASSUME IInv, NEW c \in Conns, ConnStep(c)
    PROVE  ConnTypes'
<1> DEFINE Framing == Accepted(c) \/ HelloFrame(c) \/ ProofFrame(c) \/ TooLarge(c)
           Checking == Challenge(c) \/ Refused(c) \/ ProofRead(c) \/ Admit(c) \/ AdmitRefused(c)
                         \/ LoggedIn(c)
           Ending == EnterRefuse(c) \/ TooLargeEnds(c) \/ ReceiveFails(c) \/ Teardown(c)
                       \/ PeerLeaves(c) \/ WorkerCloses(c)
           Timing == TimerFires(c) \/ TimedOut(c) \/ WriteRefusal(c)
           Refusal == \E e \in Enders : SendRefusal(c, e) \/ Flushed(c, e) \/ CloseRefused(c, e)
<1> USE DEF IInv, ConnTypes, Set, Goto, CloseLink, authVars, endVars
<1>1. Framing \/ Checking \/ Ending \/ Timing \/ Refusal
  BY DEF ConnStep, Frames, Dispatching, Refusing
<1>2. CASE Framing
  <2>1. link' \in [Conns -> {"new", "open", "closed"}]
    BY <1>2, SMTT(30) DEF Accepted, HelloFrame, ProofFrame, TooLarge
  <2>2. disp' \in [Conns -> DispPCs]
    BY <1>2 DEF Accepted, HelloFrame, ProofFrame, TooLarge, DispPCs
  <2>3. state' \in [Conns -> LoginStates]
    <3>1. state' = state \/ \E s \in LoginStates : state' = [state EXCEPT ![c] = s]
      BY <1>2 DEF Accepted, HelloFrame, ProofFrame, TooLarge, LoginStates
    <3> QED
      BY <3>1
  <2>4. timer' \in [Conns -> Timers]
    BY <1>2 DEF Accepted, HelloFrame, ProofFrame, TooLarge, Timers
  <2>5. fired' \in [Conns -> Timers]
    BY <1>2 DEF Accepted, HelloFrame, ProofFrame, TooLarge, Timers
  <2>6. refusal' \in [Conns -> {"none", "queued", "written", "lost"}]
    BY <1>2 DEF Accepted, HelloFrame, ProofFrame, TooLarge
  <2>7. told' \in [Conns -> 0 .. 1]
    BY <1>2 DEF Accepted, HelloFrame, ProofFrame, TooLarge
  <2>8. refuser' \in [Conns -> [Enders -> RefuserPCs]]
    BY <1>2, RefuserSet DEF Accepted, HelloFrame, ProofFrame, TooLarge, RefuserPCs, Enders
  <2>9. token' \in [Conns -> Tokens \cup {None}] /\ auth' \in [Conns -> Tokens \cup {None}]
    BY <1>2 DEF Accepted, HelloFrame, ProofFrame, TooLarge
  <2>10. sender' \in [Conns -> {"none", "checked"}]
    BY <1>2 DEF Accepted, HelloFrame, ProofFrame, TooLarge
  <2> QED
    BY <2>1, <2>2, <2>3, <2>4, <2>5, <2>6, <2>7, <2>8, <2>9, <2>10
<1>3. CASE Checking
  <2>1. link' \in [Conns -> {"new", "open", "closed"}]
    BY <1>3 DEF Challenge, ArmProof, Refused, ProofRead, Admit, AdmitRefused, LoggedIn
  <2>2. disp' \in [Conns -> DispPCs]
    BY <1>3 DEF Challenge, ArmProof, Refused, ProofRead, Admit, AdmitRefused, LoggedIn, DispPCs
  <2>3. state' \in [Conns -> LoginStates]
    BY <1>3 DEF Challenge, ArmProof, Refused, ProofRead, Admit, AdmitRefused, LoggedIn, LoginStates
  <2>4. timer' \in [Conns -> Timers]
    BY <1>3 DEF Challenge, ArmProof, Refused, ProofRead, Admit, AdmitRefused, LoggedIn, Timers
  <2>5. fired' \in [Conns -> Timers]
    BY <1>3 DEF Challenge, ArmProof, Refused, ProofRead, Admit, AdmitRefused, LoggedIn, Timers
  <2>6. refusal' \in [Conns -> {"none", "queued", "written", "lost"}]
    BY <1>3 DEF Challenge, ArmProof, Refused, ProofRead, Admit, AdmitRefused, LoggedIn
  <2>7. told' \in [Conns -> 0 .. 1]
    BY <1>3 DEF Challenge, ArmProof, Refused, ProofRead, Admit, AdmitRefused, LoggedIn
  <2>8. refuser' \in [Conns -> [Enders -> RefuserPCs]]
    BY <1>3, RefuserSet DEF Challenge, ArmProof, Refused, ProofRead, Admit, AdmitRefused, LoggedIn, RefuserPCs, Enders
  <2>9. token' \in [Conns -> Tokens \cup {None}] /\ auth' \in [Conns -> Tokens \cup {None}]
    <3>1. token' = token \/ \E t \in Tokens : token' = [token EXCEPT ![c] = t]
      BY <1>3 DEF Challenge, Refused, ProofRead, Admit, AdmitRefused, LoggedIn
    <3>2. auth' = auth \/ auth' = [auth EXCEPT ![c] = token[c]]
      BY <1>3 DEF Challenge, Refused, ProofRead, Admit, AdmitRefused, LoggedIn
    <3>3. token' \in [Conns -> Tokens \cup {None}]
      BY <3>1
    <3> QED
      BY <3>2, <3>3
  <2>10. sender' \in [Conns -> {"none", "checked"}]
    BY <1>3 DEF Challenge, ArmProof, Refused, ProofRead, Admit, AdmitRefused, LoggedIn
  <2> QED
    BY <2>1, <2>2, <2>3, <2>4, <2>5, <2>6, <2>7, <2>8, <2>9, <2>10
<1>4. CASE Ending
  <2>1. link' \in [Conns -> {"new", "open", "closed"}]
    BY <1>4 DEF EnterRefuse, TooLargeEnds, ReceiveFails, Teardown, PeerLeaves, WorkerCloses
  <2>2. disp' \in [Conns -> DispPCs]
    BY <1>4 DEF EnterRefuse, TooLargeEnds, ReceiveFails, Teardown, PeerLeaves, WorkerCloses, DispPCs
  <2>3. state' \in [Conns -> LoginStates]
    BY <1>4 DEF EnterRefuse, TooLargeEnds, ReceiveFails, Teardown, PeerLeaves, WorkerCloses, LoginStates
  <2>4. timer' \in [Conns -> Timers]
    BY <1>4 DEF EnterRefuse, TooLargeEnds, ReceiveFails, Teardown, PeerLeaves, WorkerCloses, Timers
  <2>5. fired' \in [Conns -> Timers]
    BY <1>4 DEF EnterRefuse, TooLargeEnds, ReceiveFails, Teardown, PeerLeaves, WorkerCloses, Timers
  <2>6. refusal' \in [Conns -> {"none", "queued", "written", "lost"}]
    BY <1>4 DEF EnterRefuse, TooLargeEnds, ReceiveFails, Teardown, PeerLeaves, WorkerCloses
  <2>7. told' \in [Conns -> 0 .. 1]
    BY <1>4 DEF EnterRefuse, TooLargeEnds, ReceiveFails, Teardown, PeerLeaves, WorkerCloses
  <2>8. refuser' \in [Conns -> [Enders -> RefuserPCs]]
    BY <1>4, RefuserSet DEF EnterRefuse, TooLargeEnds, ReceiveFails, Teardown, PeerLeaves, WorkerCloses, RefuserPCs, Enders
  <2>9. token' \in [Conns -> Tokens \cup {None}] /\ auth' \in [Conns -> Tokens \cup {None}]
    BY <1>4 DEF EnterRefuse, TooLargeEnds, ReceiveFails, Teardown, PeerLeaves, WorkerCloses
  <2>10. sender' \in [Conns -> {"none", "checked"}]
    BY <1>4 DEF EnterRefuse, TooLargeEnds, ReceiveFails, Teardown, PeerLeaves, WorkerCloses
  <2> QED
    BY <2>1, <2>2, <2>3, <2>4, <2>5, <2>6, <2>7, <2>8, <2>9, <2>10
<1>5. CASE Timing
  <2>1. link' \in [Conns -> {"new", "open", "closed"}]
    BY <1>5 DEF TimerFires, TimedOut, WriteRefusal
  <2>2. disp' \in [Conns -> DispPCs]
    BY <1>5 DEF TimerFires, TimedOut, WriteRefusal, DispPCs
  <2>3. state' \in [Conns -> LoginStates]
    BY <1>5 DEF TimerFires, TimedOut, WriteRefusal, LoginStates
  <2>4. timer' \in [Conns -> Timers]
    BY <1>5 DEF TimerFires, TimedOut, WriteRefusal, Timers
  <2>5. fired' \in [Conns -> Timers]
    BY <1>5 DEF TimerFires, TimedOut, WriteRefusal, Timers
  <2>6. refusal' \in [Conns -> {"none", "queued", "written", "lost"}]
    BY <1>5 DEF TimerFires, TimedOut, WriteRefusal
  <2>7. told' \in [Conns -> 0 .. 1]
    BY <1>5 DEF TimerFires, TimedOut, WriteRefusal
  <2>8. refuser' \in [Conns -> [Enders -> RefuserPCs]]
    BY <1>5, RefuserSet DEF TimerFires, TimedOut, WriteRefusal, RefuserPCs, Enders
  <2>9. token' \in [Conns -> Tokens \cup {None}] /\ auth' \in [Conns -> Tokens \cup {None}]
    BY <1>5 DEF TimerFires, TimedOut, WriteRefusal
  <2>10. sender' \in [Conns -> {"none", "checked"}]
    BY <1>5 DEF TimerFires, TimedOut, WriteRefusal
  <2> QED
    BY <2>1, <2>2, <2>3, <2>4, <2>5, <2>6, <2>7, <2>8, <2>9, <2>10
<1>6. CASE Refusal
  <2>1. link' \in [Conns -> {"new", "open", "closed"}]
    BY <1>6 DEF SendRefusal, Flushed, CloseRefused
  <2>2. disp' \in [Conns -> DispPCs]
    BY <1>6 DEF SendRefusal, Flushed, CloseRefused, DispPCs
  <2>3. state' \in [Conns -> LoginStates]
    BY <1>6, SMTT(30) DEF SendRefusal, Flushed, CloseRefused, LoginStates
  <2>4. timer' \in [Conns -> Timers]
    BY <1>6, SMTT(30) DEF SendRefusal, Flushed, CloseRefused, Timers
  <2>5. fired' \in [Conns -> Timers]
    BY <1>6 DEF SendRefusal, Flushed, CloseRefused, Timers
  <2>6. refusal' \in [Conns -> {"none", "queued", "written", "lost"}]
    <3>1. refusal' = refusal \/ \E r \in {"queued", "lost"} : refusal' = [refusal EXCEPT ![c] = r]
      BY <1>6 DEF SendRefusal, Flushed, CloseRefused
    <3> QED
      BY <3>1
  <2>7. told' \in [Conns -> 0 .. 1]
    BY <1>6 DEF SendRefusal, Flushed, CloseRefused, Session, Refuser
  <2>8. refuser' \in [Conns -> [Enders -> RefuserPCs]]
    BY <1>6, RefuserSet DEF SendRefusal, Flushed, CloseRefused, RefuserPCs, Enders
  <2>9. token' \in [Conns -> Tokens \cup {None}] /\ auth' \in [Conns -> Tokens \cup {None}]
    BY <1>6 DEF SendRefusal, Flushed, CloseRefused
  <2>10. sender' \in [Conns -> {"none", "checked"}]
    BY <1>6 DEF SendRefusal, Flushed, CloseRefused
  <2> QED
    BY <2>1, <2>2, <2>3, <2>4, <2>5, <2>6, <2>7, <2>8, <2>9, <2>10
<1> QED
  BY <1>1, <1>2, <1>3, <1>4, <1>5, <1>6

LEMMA StepKeepsConnTypes ==
    ASSUME IInv, [Next]_vars
    PROVE  ConnTypes'
<1> USE DEF IInv, ConnTypes, Set
<1>1. CASE OtherStep \/ UNCHANGED vars
  <2>1. UNCHANGED <<link, loginVars, auth>>
    BY <1>1 DEF OtherStep, vars, SendCheck, SendQueue, Revoke, RevokeFails, TimePasses, Revoking,
                RevokeCloses, RevokeAnswers, ExpireTokens, Persist, authVars
  <2>2. sender' \in [Conns -> {"none", "checked"}]
    BY <1>1 DEF OtherStep, vars, SendCheck, SendQueue, Revoke, RevokeFails, TimePasses, Revoking,
                RevokeCloses, RevokeAnswers, ExpireTokens, Persist, endVars
  <2> QED
    BY <2>1, <2>2 DEF loginVars
<1>2. CASE Killed
  <2>1. refuser' \in [Conns -> [Enders -> RefuserPCs]]
    BY <1>2 DEF Killed, NoRefuser, RefuserPCs
  <2>2. link' \in [Conns -> {"new", "open", "closed"}] /\ disp' \in [Conns -> DispPCs]
    BY <1>2 DEF Killed, DispPCs
  <2>3. state' \in [Conns -> LoginStates] /\ timer' \in [Conns -> Timers] /\ fired' \in [Conns -> Timers]
    BY <1>2 DEF Killed, LoginStates, Timers
  <2>4. /\ refusal' \in [Conns -> {"none", "queued", "written", "lost"}]
        /\ told' \in [Conns -> 0 .. 1] /\ token' \in [Conns -> Tokens \cup {None}]
        /\ auth' \in [Conns -> Tokens \cup {None}] /\ sender' \in [Conns -> {"none", "checked"}]
    BY <1>2 DEF Killed
  <2> QED
    BY <2>1, <2>2, <2>3, <2>4
<1> QED
  BY <1>1, <1>2, NextSplits, ConnStepKeepsTypes

\* What a revoke carries.
RevokeType ==
    revoke \in [pc : {"idle", "close", "answer"}, token : Tokens \cup {None}, victims : SUBSET Conns]

LEMMA StepKeepsRevokeType ==
    ASSUME IInv, [Next]_vars
    PROVE  RevokeType'
<1> USE DEF IInv, SetTypes, RevokeType
<1>1. ASSUME NEW c \in Conns, ConnStep(c) PROVE UNCHANGED revoke
  BY <1>1 DEF ConnStep, Frames, Accepted, HelloFrame, ProofFrame, TooLarge, Dispatching, Challenge,
              Refused, ProofRead, Admit, AdmitRefused, LoggedIn, EnterRefuse, TooLargeEnds,
              ReceiveFails, Teardown, PeerLeaves, TimerFires, TimedOut, WriteRefusal, Refusing,
              SendRefusal, Flushed, CloseRefused, WorkerCloses, endVars
<1>2. CASE OtherStep
  <2>1. ASSUME NEW t \in Tokens, Revoke(t) PROVE RevokeType'
    BY <2>1 DEF Revoke, Live
  <2>2. CASE RevokeCloses
    <3>1. \A r \in [pc : {"idle", "close", "answer"}, token : Tokens \cup {None}, victims : SUBSET Conns] :
            [r EXCEPT !.pc = "answer"] \in
              [pc : {"idle", "close", "answer"}, token : Tokens \cup {None}, victims : SUBSET Conns]
      OBVIOUS
    <3> QED
      BY <2>2, <3>1 DEF RevokeCloses
  <2>3. CASE RevokeAnswers
    BY <2>3 DEF RevokeAnswers, NoRevoke
  <2>4. ASSUME NEW t \in Tokens, RevokeFails(t) \/ TimePasses(t) PROVE RevokeType'
    BY <2>4 DEF RevokeFails, TimePasses, endVars
  <2>5. CASE ExpireTokens \/ Persist \/ \E c \in Conns : SendCheck(c) \/ SendQueue(c)
    BY <2>5 DEF ExpireTokens, Persist, SendCheck, SendQueue, endVars
  <2> QED
    BY <1>2, <2>1, <2>2, <2>3, <2>4, <2>5 DEF OtherStep, Revoking
<1>3. CASE Killed
  BY <1>3 DEF Killed, NoRevoke
<1>4. CASE UNCHANGED vars
  BY <1>4 DEF vars, endVars
<1> QED
  BY <1>1, <1>2, <1>3, <1>4, NextSplits

LEMMA StepKeepsSetTypes ==
    ASSUME IInv, [Next]_vars
    PROVE  SetTypes'
<1> USE DEF IInv, SetTypes, Set, authVars, storeVars, endVars, histVars, loginVars
<1>1. RevokeType'
  BY StepKeepsRevokeType
<1>2. ASSUME NEW c \in Conns, Frames(c) \/ Dispatching(c) PROVE SetTypes'
  BY <1>1, <1>2 DEF Frames, Accepted, HelloFrame, ProofFrame, TooLarge, Dispatching, Challenge,
                    Refused, ProofRead, Admit, IndexAdd, AdmitRefused, LoggedIn, EnterRefuse,
                    TooLargeEnds, ReceiveFails, Teardown, RevokeType
<1>3. ASSUME NEW c \in Conns, PeerLeaves(c) \/ TimerFires(c) \/ TimedOut(c) \/ WriteRefusal(c)
                              \/ WorkerCloses(c) \/ SendCheck(c) \/ SendQueue(c)
      PROVE  SetTypes'
  BY <1>1, <1>3 DEF PeerLeaves, TimerFires, TimedOut, WriteRefusal, WorkerCloses, SendCheck,
                    SendQueue, RevokeType
<1>4. ASSUME NEW c \in Conns, NEW e \in Enders, Refusing(c, e) PROVE SetTypes'
  BY <1>1, <1>4 DEF Refusing, SendRefusal, StillKnown, Flushed, CloseRefused, RevokeType
<1>5. ASSUME NEW t \in Tokens, Revoke(t) \/ RevokeFails(t) \/ TimePasses(t) PROVE SetTypes'
  BY <1>1, <1>5 DEF Revoke, Live, RevokeFails, Restored, TimePasses, RevokeType
<1>6. CASE RevokeCloses
  <2>1. revoke.victims \subseteq Conns
    OBVIOUS
  <2> QED
    BY <1>1, <1>6, <2>1 DEF RevokeCloses, RevokeType
<1>7. CASE RevokeAnswers
  <2>1. revoke.token \in Tokens
    BY <1>7 DEF RevokeAnswers, Taken
  <2> QED
    BY <1>1, <1>7, <2>1 DEF RevokeAnswers, RevokeType
<1>8. CASE ExpireTokens \/ Persist \/ Killed
  BY <1>1, <1>8 DEF ExpireTokens, Swept, Persist, PersistNow, Killed, RevokeType
<1>9. CASE UNCHANGED vars
  BY <1>9 DEF vars
<1> QED
  BY <1>2, <1>3, <1>4, <1>5, <1>6, <1>7, <1>8, <1>9 DEF Next, Revoking

----------------------------------------------------------------------------
(* Revokes *)

\* What a connection's own step leaves of the tokens, and of who is silenced.
LEMMA ConnStepFrame ==
    ASSUME NEW c \in Conns, ConnStep(c)
    PROVE  UNCHANGED <<entries, expired, disk, revoke, revoked, answered, late, budget>>
<1> USE DEF authVars, storeVars, endVars, histVars
<1>1. CASE Frames(c) \/ Dispatching(c)
  BY <1>1 DEF Frames, Accepted, HelloFrame, ProofFrame, TooLarge, Dispatching, Challenge, Refused,
              ProofRead, Admit, AdmitRefused, LoggedIn, EnterRefuse, TooLargeEnds, ReceiveFails,
              Teardown
<1>2. CASE PeerLeaves(c) \/ TimerFires(c) \/ TimedOut(c) \/ WriteRefusal(c) \/ WorkerCloses(c)
  BY <1>2 DEF PeerLeaves, TimerFires, TimedOut, WriteRefusal, WorkerCloses
<1>3. CASE \E e \in Enders : Refusing(c, e)
  BY <1>3 DEF Refusing, SendRefusal, Flushed, CloseRefused
<1> QED
  BY <1>1, <1>2, <1>3 DEF ConnStep

\* Admit is the only step that logs someone in.
LEMMA OnlyAdmit ==
    ASSUME NEW c \in Conns, ConnStep(c), ~Admit(c)
    PROVE  auth' = auth
<1> USE DEF authVars
<1>1. CASE Frames(c) \/ Dispatching(c)
  BY <1>1 DEF Frames, Accepted, HelloFrame, ProofFrame, TooLarge, Dispatching, Challenge, Refused,
              ProofRead, AdmitRefused, LoggedIn, EnterRefuse, TooLargeEnds, ReceiveFails, Teardown
<1>2. CASE PeerLeaves(c) \/ TimerFires(c) \/ TimedOut(c) \/ WriteRefusal(c) \/ WorkerCloses(c)
  BY <1>2 DEF PeerLeaves, TimerFires, TimedOut, WriteRefusal, WorkerCloses
<1>3. CASE \E e \in Enders : Refusing(c, e)
  BY <1>3 DEF Refusing, SendRefusal, Flushed, CloseRefused
<1> QED
  BY <1>1, <1>2, <1>3 DEF ConnStep

\* Who is in the index, and who has a worker, when a connection has stepped.
LEMMA ConnStepLists ==
    ASSUME IInv, NEW c \in Conns, ConnStep(c), ~Admit(c)
    PROVE  /\ index' \subseteq index /\ workers' \subseteq workers
           /\ \A d \in index : d \in index' \/ (d = c /\ link'[d] = "closed")
           /\ \A d \in Conns : link'[d] = "open" =>
                link[d] = "open" \/ (d = c /\ auth[d] = None)
<1> USE DEF IInv, ConnTypes, Set, CloseLink, authVars, endVars
<1>1. CASE Frames(c)
  BY <1>1 DEF Frames, Accepted, HelloFrame, ProofFrame, TooLarge, Session, Course
<1>2. CASE Dispatching(c)
  BY <1>2 DEF Dispatching, Challenge, Refused, ProofRead, AdmitRefused, LoggedIn, EnterRefuse,
              TooLargeEnds, ReceiveFails, Teardown
<1>3. CASE PeerLeaves(c) \/ TimerFires(c) \/ TimedOut(c) \/ WriteRefusal(c) \/ WorkerCloses(c)
  BY <1>3 DEF PeerLeaves, TimerFires, TimedOut, WriteRefusal, WorkerCloses
<1>4. ASSUME NEW e \in Enders, Refusing(c, e)
      PROVE  /\ index' = index /\ workers' = workers
             /\ \A d \in Conns : link'[d] = "open" => link[d] = "open"
  BY <1>4 DEF Refusing, SendRefusal, Flushed, CloseRefused
<1> QED
  BY <1>1, <1>2, <1>3, <1>4 DEF ConnStep

\* Admit and what it knows, under the store's lock.
LEMMA AdmitKnows ==
    ASSUME IInv, NEW c \in Conns, Admit(c)
    PROVE  /\ token[c] \in entries /\ token[c] # None /\ auth[c] = None
           /\ auth' = [auth EXCEPT ![c] = token[c]] /\ index' = index \cup {c}
           /\ UNCHANGED <<link, revoked, entries, disk, revoke, workers, answered>>
<1>1. token[c] \in entries /\ token[c] # None
  BY Constants DEF Admit, StillThere, IInv, SetTypes
<1>2. auth[c] = None
  BY DEF Admit, At, IInv, Session, Course, Checks
<1> QED
  BY <1>1, <1>2 DEF Admit, IndexAdd, Set, storeVars, endVars, histVars

LEMMA StepKeepsIndexed ==
    ASSUME IInv, [Next]_vars
    PROVE  Indexed'
<1> USE DEF IInv, ConnTypes, SetTypes, Indexed
<1>1. ASSUME NEW c \in Conns, ConnStep(c) PROVE Indexed'
  <2>1. CASE Admit(c)
    BY <2>1, AdmitKnows
  <2>2. CASE ~Admit(c)
    <3>1. auth' = auth /\ revoke' = revoke
      BY <1>1, <2>2, OnlyAdmit, ConnStepFrame
    <3> QED
      BY <1>1, <2>2, <3>1, ConnStepLists
  <2> QED
    BY <2>1, <2>2
<1>2. ASSUME NEW t \in Tokens, Revoke(t) \/ RevokeFails(t) \/ TimePasses(t) PROVE Indexed'
  <2>1. t # None
    BY Constants
  <2> QED
    BY <1>2, <2>1 DEF Revoke, Live, RevokeFails, TimePasses, authVars, endVars
<1>3. CASE RevokeCloses
  <2>1. revoke'.victims = revoke.victims
    BY <1>3 DEF RevokeCloses
  <2> QED
    BY <1>3, <2>1 DEF RevokeCloses, authVars
<1>4. CASE RevokeAnswers
  BY <1>4 DEF RevokeAnswers, NoRevoke, authVars
<1>5. CASE ExpireTokens \/ Persist \/ \E c \in Conns : SendCheck(c) \/ SendQueue(c)
  BY <1>5 DEF ExpireTokens, Swept, Persist, SendCheck, SendQueue, authVars, endVars
<1>6. CASE Killed
  BY <1>6 DEF Killed, NoRevoke
<1>7. CASE UNCHANGED vars
  BY <1>7 DEF vars, authVars, endVars
<1> QED
  BY <1>1, <1>2, <1>3, <1>4, <1>5, <1>6, <1>7, NextSplits DEF OtherStep, Revoking

LEMMA StepKeepsTaken ==
    ASSUME IInv, [Next]_vars
    PROVE  Taken'
<1> USE DEF IInv, SetTypes, Taken
<1>1. ASSUME NEW c \in Conns, ConnStep(c) PROVE Taken'
  BY <1>1, ConnStepFrame
<1>2. ASSUME NEW t \in Tokens, Revoke(t) \/ RevokeFails(t) \/ TimePasses(t) PROVE Taken'
  <2>1. CASE Revoke(t)
    <3>1. revoke'.token = t /\ entries' = entries \ {t} /\ disk' = entries' /\ answered' = answered
      BY <2>1 DEF Revoke, histVars
    <3> QED
      BY <3>1
  <2>2. CASE RevokeFails(t) \/ TimePasses(t)
    BY <2>2 DEF RevokeFails, Restored, TimePasses, endVars, histVars
  <2> QED
    BY <1>2, <2>1, <2>2
<1>3. CASE RevokeCloses
  <2>1. revoke'.token = revoke.token
    BY <1>3 DEF RevokeCloses
  <2> QED
    BY <1>3, <2>1 DEF RevokeCloses, storeVars, histVars
<1>4. CASE RevokeAnswers
  BY <1>4 DEF RevokeAnswers, NoRevoke, storeVars
<1>5. CASE ExpireTokens \/ Persist \/ \E c \in Conns : SendCheck(c) \/ SendQueue(c)
  BY <1>5 DEF ExpireTokens, Persist, PersistNow, SendCheck, SendQueue, storeVars, endVars, histVars
<1>6. CASE Killed
  BY <1>6 DEF Killed, NoRevoke, histVars
<1>7. CASE UNCHANGED vars
  BY <1>7 DEF vars, storeVars, endVars, histVars
<1> QED
  BY <1>1, <1>2, <1>3, <1>4, <1>5, <1>6, <1>7, NextSplits DEF OtherStep, Revoking

LEMMA StepKeepsSilence ==
    ASSUME IInv, [Next]_vars
    PROVE  NoLiveSessionOfRevoked'
<1> USE DEF IInv, ConnTypes, SetTypes, NoLiveSessionOfRevoked
<1>1. ASSUME NEW c \in Conns, ConnStep(c) PROVE NoLiveSessionOfRevoked'
  <2>1. CASE Admit(c)
    BY <2>1, AdmitKnows
  <2>2. CASE ~Admit(c)
    <3>1. auth' = auth /\ entries' = entries /\ revoked' = revoked
      BY <1>1, <2>2, OnlyAdmit, ConnStepFrame
    <3> QED
      BY <1>1, <2>2, <3>1, ConnStepLists
  <2> QED
    BY <2>1, <2>2
<1>2. ASSUME NEW t \in Tokens, Revoke(t) PROVE NoLiveSessionOfRevoked'
  BY <1>2 DEF Revoke, Live, Indexed
<1>3. ASSUME NEW t \in Tokens, RevokeFails(t) \/ TimePasses(t) PROVE NoLiveSessionOfRevoked'
  BY <1>3 DEF RevokeFails, Restored, TimePasses, authVars
<1>4. CASE Revoking \/ ExpireTokens \/ Persist \/ \E c \in Conns : SendCheck(c) \/ SendQueue(c)
  BY <1>4 DEF Revoking, RevokeCloses, RevokeAnswers, ExpireTokens, Persist, SendCheck, SendQueue,
              authVars, storeVars
<1>5. CASE Killed
  BY <1>5 DEF Killed
<1>6. CASE UNCHANGED vars
  BY <1>6 DEF vars, authVars, storeVars
<1> QED
  BY <1>1, <1>2, <1>3, <1>4, <1>5, <1>6, NextSplits DEF OtherStep

----------------------------------------------------------------------------
\* The inductive invariant.
THEOREM LoginInvariance == Spec => []IInv
<1>1. Init => IInv
  BY InitInv
<1>2. IInv /\ [Next]_vars => IInv'
  <2> SUFFICES ASSUME IInv, [Next]_vars PROVE IInv'
    OBVIOUS
  <2>1. ConnTypes' /\ SetTypes'
    BY StepKeepsConnTypes, StepKeepsSetTypes
  <2>2. \A c \in Conns : Session(c)'
    BY StepKeepsCourses
  <2>3. Indexed' /\ Taken' /\ NoLiveSessionOfRevoked'
    BY StepKeepsIndexed, StepKeepsTaken, StepKeepsSilence
  <2> QED
    BY <2>1, <2>2, <2>3 DEF IInv
<1> QED
  BY <1>1, <1>2, PTL DEF Spec

\* The types, and a login's one course: its frames find its session, its timer,
\* its frames and an oversized one end it once, nobody who was let in is also
\* refused, and nobody closes a refused connection before the refusal is out.
THEOREM OneVerdictEach == Spec => []LoginSound
<1>1. IInv => LoginSound
  <2> SUFFICES ASSUME IInv PROVE TypeOK /\ SessionRegistered /\ OneVerdict /\ RefusalDelivered
    BY DEF LoginSound
  <2>1. TypeOK
    <3>1. /\ UNION {known, revoked, index, workers, left, late} \subseteq Conns
          /\ UNION {entries, expired, disk, answered} \subseteq Tokens
      BY DEF IInv, SetTypes
    <3> QED
      BY <3>1 DEF IInv, ConnTypes, SetTypes, TypeOK, DispPCs, RefuserPCs
  <2>2. ASSUME NEW c \in Conns
        PROVE  /\ Reading(c) => c \in known
               /\ told[c] <= 1 /\ (auth[c] # None => told[c] = 0)
               /\ refusal[c] = "lost" => c \in left
    <3>1. Session(c) /\ told[c] \in 0 .. 1
      BY DEF IInv, ConnTypes
    <3> QED
      BY <3>1 DEF Session, Course, Refuser, Reading, At
  <2> QED
    BY <2>1, <2>2 DEF SessionRegistered, OneVerdict, RefusalDelivered
<1> QED
  BY <1>1, LoginInvariance, PTL

\* A revoked token is out of memory, off the disk and silenced on every open
\* connection, whatever Admit, a failed write, a late last_used write or a kill
\* does in between; and one whose revoke could not be written is still in.
THEOREM RevokedStayOut == Spec => []RevokedStaysOut
<1>1. IInv => RevokedStaysOut
  BY DEF IInv, Taken, RevokedStaysOut, RevokeHolds, FileIsMemory
<1> QED
  BY <1>1, LoginInvariance, PTL
=============================================================================
