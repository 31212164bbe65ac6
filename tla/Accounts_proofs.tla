--------------------------- MODULE Accounts_proofs ---------------------------
(***************************************************************************)
(* Proofs about Accounts, for any processes, requests, states and bounds:  *)
(* a sign-in state is used once, an e-mail address has one account, and    *)
(* an address signs up a bounded number of times.                          *)
(***************************************************************************)
EXTENDS Accounts, FiniteSetTheorems, TLAPS

Nonce(s) == [kind |-> "nonce", state |-> s]
Token(s) == [kind |-> "token", state |-> s]

Verifying == {"nonce", "marking", "marked"}
InSteps == Verifying \union {"register", "record", "adopt"}
Phase == {"nonce", "marking", "marked", "google", "register", "record"}
Via == {"signup", "google"}

\* What a request carries once it verifies a state, and once it makes an account.
SignInCall == [phase : Phase, via : Via, proc : Proc, state : State]
AccountCall == [phase : Phase, via : Via, proc : Proc, email : Email, id : Nat]

\* Only states that were minted are verified.
Shapes ==
  /\ expiry \in [State -> Nat] /\ accepts \in [State -> Nat] /\ clock \in Nat
  /\ issued \in Nat /\ DOMAIN call = Request
  /\ \A r \in Request :
       /\ call[r].phase \in Verifying \union {"google"} =>
            call[r] \in SignInCall /\ expiry[call[r].state] # 0
       /\ call[r].phase \in {"register", "record"} => call[r] \in AccountCall
       /\ call[r].phase \in {"body", "adopt"} => call[r].proc \in Proc
       /\ call[r].phase = "body" => call[r].via \in Via

\* A process runs one request between two awaits.
OneAtATime ==
  \A q, r \in Request : InStep(q) /\ InStep(r) /\ call[q].proc = call[r].proc => q = r

Is(r, phase, s) == call[r].phase = phase /\ call[r].state = s

\* A state that lives and was neither touched by a failure nor contested: its
\* nonce is on disk from the first mark on, nobody is about to mark it then,
\* and who has marked it is alone and has not been accepted yet.
Guarded(s) ==
  /\ Nonce(s) \in usedDb => \A r \in Request : ~Is(r, "marking", s)
  /\ \A r \in Request : Is(r, "marked", s) => Nonce(s) \in usedDb /\ accepts[s] = 0
  /\ accepts[s] # 0 => Nonce(s) \in usedDb
  /\ \A q, r \in Request : Is(q, "marked", s) /\ Is(r, "marked", s) => q = r

Once(s) ==
  /\ expiry[s] = 0 => accepts[s] = 0
  /\ <<"state", s>> \notin excused =>
       accepts[s] <= 1 /\ (clock < expiry[s] => Guarded(s))

IInv == Shapes /\ OneAtATime /\ \A s \in State : Once(s)

----------------------------------------------------------------------------
(* Data *)

\* Marks differ by kind and state.
LEMMA Marks ==
  ASSUME NEW s, NEW t
  PROVE  /\ Nonce(s) = Nonce(t) <=> s = t
         /\ Nonce(s) # Token(t)
         /\ Nonce(s).state = s /\ Token(s).state = s
<1>1. Nonce(s).state = s /\ Nonce(t).state = t /\ Token(s).state = s
  BY DEF Nonce, Token
<1>2. Nonce(s).kind = "nonce" /\ Token(t).kind = "token"
  BY DEF Nonce, Token
<1> QED  BY <1>1, <1>2

\* A request that goes on keeps all but its phase.
LEMMA SignInGoesOn ==
  ASSUME NEW c \in SignInCall, NEW phase \in Phase
  PROVE  LET d == [c EXCEPT !.phase = phase]
         IN  d \in SignInCall /\ d.phase = phase /\ d.proc = c.proc /\ d.state = c.state
  BY DEF SignInCall

\* The same of a request that makes an account.
LEMMA AccountGoesOn ==
  ASSUME NEW c \in AccountCall, NEW phase \in Phase
  PROVE  LET d == [c EXCEPT !.phase = phase]
         IN  d \in AccountCall /\ d.phase = phase /\ d.proc = c.proc
  BY DEF AccountCall

\* At the start nothing is minted.
LEMMA InitIInv == Init => IInv
<1> SUFFICES ASSUME Init PROVE IInv
  OBVIOUS
<1>1. \A r \in Request : call[r].phase = "idle"
  BY DEF Init, Idle
<1>2. Shapes
  BY <1>1 DEF Shapes, Init, Verifying
<1>3. OneAtATime
  BY <1>1 DEF OneAtATime, InStep
<1>4. \A s \in State : Once(s)
  BY DEF Once, Init
<1> QED  BY <1>2, <1>3, <1>4 DEF IInv

----------------------------------------------------------------------------
(* Steps that mark nothing *)

\* One request changes: it was between two awaits already, or the loop was free.
LEMMA OneCall ==
  ASSUME OneAtATime, DOMAIN call = Request, NEW r \in Request, NEW c,
         call' = [call EXCEPT ![r] = c],
         c.phase \in InSteps => LoopIsFree(c.proc) \/ (InStep(r) /\ c.proc = call[r].proc)
  PROVE  /\ OneAtATime' /\ DOMAIN call' = Request
         /\ call'[r] = c /\ \A q \in Request : q # r => call'[q] = call[q]
<1>1. call'[r] = c /\ DOMAIN call' = Request /\ \A q \in Request : q # r => call'[q] = call[q]
  OBVIOUS
<1>2. ASSUME NEW q \in Request, q # r, InStep(q)', InStep(r)', call'[q].proc = call'[r].proc
      PROVE  FALSE
  <2>1. InStep(q) /\ call[q].proc = c.proc /\ c.phase \in InSteps
    BY <1>1, <1>2 DEF InStep, InSteps, Verifying
  <2>2. CASE LoopIsFree(c.proc)
    BY <2>1, <2>2 DEF LoopIsFree
  <2>3. CASE InStep(r) /\ c.proc = call[r].proc
    BY <1>2, <2>1, <2>3 DEF OneAtATime
  <2> QED  BY <2>1, <2>2, <2>3
<1>3. ASSUME NEW q \in Request, NEW u \in Request, InStep(q)', InStep(u)',
             call'[q].proc = call'[u].proc
      PROVE  q = u
  <2>1. CASE q = r \/ u = r
    BY <1>2, <1>3, <2>1
  <2>2. CASE q # r /\ u # r
    BY <1>1, <1>3, <2>2 DEF OneAtATime, InStep
  <2> QED  BY <2>1, <2>2
<1> QED  BY <1>1, <1>3 DEF OneAtATime

\* Nobody gets to the two marks, and nothing that is promised changes.
LEMMA Frame ==
  ASSUME IInv, Shapes', OneAtATime', UNCHANGED <<expiry, usedDb, accepts>>,
         clock' >= clock, excused \subseteq excused',
         \A r \in Request : call'[r].phase \in {"marking", "marked"} => call'[r] = call[r]
  PROVE  IInv'
<1>1. ASSUME NEW s \in State PROVE Once(s)'
  <2>1. clock' < expiry'[s] => clock < expiry[s]
    BY DEF IInv, Shapes
  <2>2. \A r \in Request : /\ Is(r, "marking", s)' => Is(r, "marking", s)
                           /\ Is(r, "marked", s)' => Is(r, "marked", s)
    BY DEF Is
  <2>3. Guarded(s) => Guarded(s)'
    BY <2>2 DEF Guarded
  <2> QED  BY <2>1, <2>3 DEF IInv, Once
<1> QED  BY <1>1 DEF IInv

\* A request changes that does not verify a state, or ceases to.
LEMMA OtherCall ==
  ASSUME IInv, NEW r \in Request, NEW c, call' = [call EXCEPT ![r] = c],
         c.phase \notin Verifying \union {"google"},
         c.phase \in {"register", "record"} => c \in AccountCall,
         c.phase \in {"body", "adopt"} => c.proc \in Proc,
         c.phase = "body" => c.via \in Via,
         c.phase \in InSteps => LoopIsFree(c.proc) \/ (InStep(r) /\ c.proc = call[r].proc),
         UNCHANGED <<expiry, usedDb, accepts, clock>>, issued' \in Nat,
         excused \subseteq excused'
  PROVE  IInv'
<1>1. /\ OneAtATime' /\ DOMAIN call' = Request
      /\ call'[r] = c /\ \A q \in Request : q # r => call'[q] = call[q]
  BY OneCall DEF IInv, Shapes
<1>2. Shapes'
  BY <1>1 DEF IInv, Shapes
<1>3. clock' >= clock
  BY DEF IInv, Shapes
<1>4. \A q \in Request : call'[q].phase \in {"marking", "marked"} => call'[q] = call[q]
  BY <1>1 DEF Verifying
<1> QED  BY <1>1, <1>2, <1>3, <1>4, Frame

\* No request changes.
LEMMA NoCall ==
  ASSUME IInv, UNCHANGED <<expiry, usedDb, accepts, call, excused>>, issued' \in Nat,
         clock' \in Nat, clock' >= clock
  PROVE  IInv'
<1>1. Shapes'
  BY DEF IInv, Shapes
<1>2. OneAtATime'
  BY DEF IInv, OneAtATime, InStep
<1> QED  BY <1>1, <1>2, Frame

\* What a request becomes that is over.
LEMMA IdleStep ==
  ASSUME IInv, NEW r \in Request, End(r), UNCHANGED <<expiry, usedDb, accepts, clock>>,
         issued' \in Nat, excused \subseteq excused'
  PROVE  IInv'
<1>1. Idle.phase = "idle"
  BY DEF Idle
<1>2. Idle.phase \notin Verifying \union {"google"} \union InSteps
      /\ Idle.phase \notin {"register", "record", "body", "adopt"}
  BY <1>1 DEF Verifying, InSteps
<1> QED  BY <1>2, OtherCall DEF End

\* What is excused stays excused.
LEMMA ExcuseGrows == ASSUME NEW well, NEW x, Excuse(well, x) PROVE excused \subseteq excused'
  BY DEF Excuse

\* A sign-up waits for its body.
LEMMA SignupStep ==
  ASSUME IInv, NEW r \in Request, NEW p \in Proc, NEW ok, Signup(r, p, ok) PROVE IInv'
<1> DEFINE c == [phase |-> "body", via |-> "signup", proc |-> p]
<1>1. c.phase = "body" /\ c.proc \in Proc /\ c.via \in Via
  BY DEF Via
<1>2. c.phase \notin Verifying \union {"google"} \union InSteps
      /\ c.phase \notin {"register", "record"}
  BY <1>1 DEF Verifying, InSteps
<1>3. call' = [call EXCEPT ![r] = c] /\ UNCHANGED <<expiry, usedDb, accepts, clock, issued>>
      /\ excused \subseteq excused'
  BY ExcuseGrows DEF Signup, signIn
<1>4. issued' \in Nat
  BY <1>3 DEF IInv, Shapes
<1> HIDE DEF c
<1> QED  BY <1>1, <1>2, <1>3, <1>4, OtherCall

\* A new account is begun by a request that holds no loop, on a free one.
LEMMA StartAccountStep ==
  ASSUME IInv, NEW r \in Request, NEW e \in Email, NEW ok, StartAccount(r, e, ok),
         LoopIsFree(call[r].proc), call[r].proc \in Proc, call[r].via \in Via,
         UNCHANGED <<expiry, usedDb, accepts, clock>>
  PROVE  IInv'
<1> DEFINE c == [phase |-> "register", via |-> call[r].via, proc |-> call[r].proc,
                 email |-> e, id |-> issued + 1]
<1>1. c.phase = "register" /\ c.proc = call[r].proc
  OBVIOUS
<1>2. c \in AccountCall
  <2>1. issued + 1 \in Nat
    BY DEF IInv, Shapes
  <2> QED  BY <2>1 DEF AccountCall, Phase
<1>3. c.phase \notin Verifying \union {"google"} /\ c.phase \notin {"body", "adopt"}
  BY <1>1 DEF Verifying
<1>4. call' = [call EXCEPT ![r] = c]
  BY DEF StartAccount
<1>5. issued' \in Nat /\ excused \subseteq excused'
  BY ExcuseGrows DEF StartAccount, IInv, Shapes
<1> HIDE DEF c
<1> QED  BY <1>1, <1>2, <1>3, <1>4, <1>5, OtherCall

\* The body is there: refused, or an account is begun.
LEMMA SignupBodyStep == ASSUME IInv, NEW r \in Request, SignupBody(r) PROVE IInv'
<1>1. UNCHANGED <<expiry, usedDb, accepts, clock>>
  BY DEF SignupBody, signIn
<1>2. ASSUME RefuseBody(r) PROVE IInv'
  <2>1. issued' \in Nat /\ excused \subseteq excused'
    BY <1>2 DEF RefuseBody, IInv, Shapes
  <2> QED  BY <1>1, <1>2, <2>1, IdleStep DEF RefuseBody
<1>3. ASSUME NEW e \in Email, NEW ok, StartAccount(r, e, ok) PROVE IInv'
  <2>1. call[r].proc \in Proc /\ call[r].via \in Via /\ LoopIsFree(call[r].proc)
    BY DEF SignupBody, IInv, Shapes
  <2> QED  BY <1>1, <1>3, <2>1, StartAccountStep
<1> QED  BY <1>2, <1>3 DEF SignupBody

\* The key of the new account is saved.
LEMMA RegisterStep == ASSUME IInv, NEW r \in Request, NEW ok, Register(r, ok) PROVE IInv'
<1> DEFINE c == [call[r] EXCEPT !.phase = "record"]
<1>1. call[r] \in AccountCall /\ InStep(r)
  BY DEF Register, InStep, IInv, Shapes
<1>2. c \in AccountCall /\ c.phase = "record" /\ c.proc = call[r].proc
  BY <1>1, AccountGoesOn DEF Phase
<1>3. c.phase \notin Verifying \union {"google"} /\ c.phase \notin {"body", "adopt"}
  BY <1>2 DEF Verifying
<1>4. call' = [call EXCEPT ![r] = c]
  BY DEF Register, Goto
<1>5. issued' \in Nat /\ excused \subseteq excused' /\ UNCHANGED <<expiry, usedDb, accepts, clock>>
  BY ExcuseGrows DEF Register, signIn, IInv, Shapes
<1> HIDE DEF c
<1> QED  BY <1>1, <1>2, <1>3, <1>4, <1>5, OtherCall

\* The row of the new account is written.
LEMMA RecordStep == ASSUME IInv, NEW r \in Request, NEW ok, Record(r, ok) PROVE IInv'
  BY IdleStep DEF Record, Return, signIn, IInv, Shapes

\* The key of an account is registered anew.
LEMMA AdoptStep == ASSUME IInv, NEW r \in Request, NEW ok, Adopt(r, ok) PROVE IInv'
  BY IdleStep DEF Adopt, Return, signIn, IInv, Shapes

\* Google's answer ends the sign-in, starts an account or adopts one.
LEMMA GoogleStep == ASSUME IInv, NEW r \in Request, GoogleAnswers(r) PROVE IInv'
<1>1. UNCHANGED <<expiry, usedDb, accepts, clock>>
  BY DEF GoogleAnswers, signIn
<1>2. call[r] \in SignInCall /\ LoopIsFree(call[r].proc)
  BY DEF GoogleAnswers, IInv, Shapes
<1>3. call[r].proc \in Proc /\ call[r].via \in Via
  BY <1>2 DEF SignInCall
<1>4. ASSUME End(r), UNCHANGED <<issued, excused>> PROVE IInv'
  BY <1>1, <1>4, IdleStep DEF IInv, Shapes
<1>5. ASSUME NEW e \in Email, NEW ok, StartAccount(r, e, ok) PROVE IInv'
  BY <1>1, <1>2, <1>3, <1>5, StartAccountStep
<1>6. ASSUME NEW id, UNCHANGED <<issued, excused>>,
             call' = [call EXCEPT ![r] = [phase |-> "adopt", via |-> "google",
                                          proc |-> call[r].proc, id |-> id]]
      PROVE  IInv'
  <2> DEFINE c == [phase |-> "adopt", via |-> "google", proc |-> call[r].proc, id |-> id]
  <2>1. c.phase = "adopt" /\ c.proc = call[r].proc
    OBVIOUS
  <2>2. c.phase \notin Verifying \union {"google"} /\ c.phase \notin {"register", "record", "body"}
    BY <2>1 DEF Verifying
  <2>3. call' = [call EXCEPT ![r] = c] /\ issued' \in Nat /\ excused \subseteq excused'
    BY <1>6 DEF IInv, Shapes
  <2> HIDE DEF c
  <2> QED  BY <1>1, <1>2, <1>3, <2>1, <2>2, <2>3, OtherCall
<1> QED  BY <1>4, <1>5, <1>6 DEF GoogleAnswers, Return

\* A restart drops the requests of its process.
LEMMA RestartStep == ASSUME IInv, NEW p \in Proc, Restart(p) PROVE IInv'
<1>1. \A r \in Request : call'[r] = call[r] \/ call'[r].phase = "idle"
  BY DEF Restart, Idle
<1>2. DOMAIN call' = Request
  BY DEF Restart
<1>3. UNCHANGED <<expiry, usedDb, accepts, clock, issued, excused>>
  BY DEF Restart
<1>4. Shapes'
  BY <1>1, <1>2, <1>3 DEF IInv, Shapes, Verifying
<1>5. OneAtATime'
  BY <1>1 DEF IInv, OneAtATime, InStep
<1>6. clock' >= clock
  BY <1>3 DEF IInv, Shapes
<1>7. \A r \in Request : call'[r].phase \in {"marking", "marked"} => call'[r] = call[r]
  BY <1>1
<1> QED  BY <1>3, <1>4, <1>5, <1>6, <1>7, Frame

----------------------------------------------------------------------------
(* The steps of a sign-in *)

\* A state is minted; nobody can hold it yet.
LEMMA LoginStep == ASSUME IInv, NEW p \in Proc, NEW s \in State, Login(p, s) PROVE IInv'
<1>1. expiry[s] = 0 /\ expiry' = [expiry EXCEPT ![s] = clock + StateLife]
  BY DEF Login, Mint
<1>2. StateLife \in Nat /\ StateLife # 0
  BY AccountsAssumption DEF AccountsAssumption
<1>3. UNCHANGED <<usedDb, accepts, call, clock, issued, excused>>
  BY DEF Login
<1>4. expiry' \in [State -> Nat] /\ \A t \in State : expiry[t] # 0 => expiry'[t] = expiry[t]
  BY <1>1, <1>2 DEF IInv, Shapes
<1>5. Shapes'
  BY <1>2, <1>3, <1>4 DEF IInv, Shapes, SignInCall
<1>6. OneAtATime'
  BY <1>3 DEF IInv, OneAtATime, InStep
<1>7. ASSUME NEW t \in State PROVE Once(t)'
  <2>1. CASE t = s
    <3>1. accepts[t] = 0
      BY <1>1, <2>1 DEF IInv, Once
    <3>2. \A r \in Request : ~Is(r, "marking", t) /\ ~Is(r, "marked", t)
      BY <1>1, <2>1 DEF Is, IInv, Shapes, Verifying
    <3>3. Guarded(t)'
      BY <1>3, <3>1, <3>2 DEF Guarded, Is
    <3> QED  BY <1>3, <3>1, <3>3 DEF Once
  <2>2. CASE t # s
    <3>1. expiry'[t] = expiry[t]
      BY <1>1, <2>2 DEF IInv, Shapes
    <3>2. Guarded(t) => Guarded(t)'
      BY <1>3 DEF Guarded, Is
    <3> QED  BY <1>3, <3>1, <3>2 DEF IInv, Once
  <2> QED  BY <2>1, <2>2
<1> QED  BY <1>5, <1>6, <1>7 DEF IInv

\* A state comes back, and its token is looked up.
LEMMA CallbackStep ==
  ASSUME IInv, NEW r \in Request, NEW p \in Proc, NEW s \in State, NEW ok, Callback(r, p, s, ok)
  PROVE  IInv'
<1> DEFINE c == [phase |-> "nonce", via |-> "google", proc |-> p, state |-> s]
<1>1. UNCHANGED <<expiry, usedDb, accepts, clock, issued>> /\ excused \subseteq excused'
  BY ExcuseGrows DEF Callback
<1>2. clock \in Nat /\ issued \in Nat
  BY DEF IInv, Shapes
<1>3. CASE UNCHANGED call
  <2>1. Shapes' /\ OneAtATime'
    BY <1>1, <1>3 DEF IInv, Shapes, OneAtATime, InStep
  <2> QED  BY <1>1, <1>2, <1>3, <2>1, Frame
<1>4. CASE call' = [call EXCEPT ![r] = c]
  <2>1. c \in SignInCall /\ c.phase = "nonce" /\ c.proc = p /\ c.state = s
    BY DEF SignInCall, Phase, Via
  <2>2. LoopIsFree(p) /\ expiry[s] # 0
    BY DEF Callback
  <2> HIDE DEF c
  <2>3. /\ OneAtATime' /\ DOMAIN call' = Request
        /\ call'[r] = c /\ \A q \in Request : q # r => call'[q] = call[q]
    BY <1>4, <2>1, <2>2, OneCall DEF IInv, Shapes
  <2>4. Shapes'
    BY <1>1, <2>1, <2>2, <2>3 DEF IInv, Shapes
  <2>5. \A q \in Request : call'[q].phase \in {"marking", "marked"} => call'[q] = call[q]
    BY <2>1, <2>3
  <2> QED  BY <1>1, <1>2, <2>3, <2>4, <2>5, Frame
<1> QED  BY <1>3, <1>4 DEF Callback

\* A verifying request goes on with its state; the rest stays.
LEMMA GoesOn ==
  ASSUME IInv, NEW r \in Request, call[r].phase \in Verifying, NEW phase \in Phase,
         phase \notin {"register", "record"}, Goto(r, phase),
         UNCHANGED <<expiry, clock, issued>>, accepts' \in [State -> Nat]
  PROVE  /\ Shapes' /\ OneAtATime'
         /\ call'[r].phase = phase /\ call'[r].state = call[r].state
         /\ \A q \in Request : q # r => call'[q] = call[q]
<1> DEFINE c == [call[r] EXCEPT !.phase = phase]
<1>1. call[r] \in SignInCall /\ InStep(r) /\ expiry[call[r].state] # 0
  BY DEF IInv, Shapes, InStep, Verifying
<1>2. c \in SignInCall /\ c.phase = phase /\ c.proc = call[r].proc /\ c.state = call[r].state
  BY <1>1, SignInGoesOn
<1>3. call' = [call EXCEPT ![r] = c]
  BY DEF Goto
<1>4. phase \notin {"register", "record", "body", "adopt"}
  BY DEF Phase
<1> HIDE DEF c
<1>5. /\ OneAtATime' /\ DOMAIN call' = Request
      /\ call'[r] = c /\ \A q \in Request : q # r => call'[q] = call[q]
  BY <1>1, <1>2, <1>3, OneCall DEF IInv, Shapes
<1>6. Shapes'
  BY <1>1, <1>2, <1>4, <1>5 DEF IInv, Shapes
<1> QED  BY <1>2, <1>5, <1>6

\* The second lookup: the state whose nonce is on disk goes no further.
LEMMA CheckNonceStep == ASSUME IInv, NEW r \in Request, NEW ok, CheckNonce(r, ok) PROVE IInv'
<1> DEFINE s == call[r].state
<1>1. /\ UNCHANGED <<expiry, usedDb, accepts, clock, issued>>
      /\ call[r].phase = "nonce" /\ excused \subseteq excused'
  BY ExcuseGrows DEF CheckNonce
<1>2. CASE End(r)
  BY <1>1, <1>2, IdleStep DEF IInv, Shapes
<1>3. CASE Goto(r, "marking") /\ ~IsConsumed(call[r].proc, Nonce(s), ok)
  <2>1. /\ Shapes' /\ OneAtATime'
        /\ call'[r].phase = "marking" /\ call'[r].state = s
        /\ \A q \in Request : q # r => call'[q] = call[q]
    BY <1>1, <1>3, GoesOn DEF Verifying, Phase, IInv, Shapes
  <2>2. ASSUME NEW t \in State PROVE Once(t)'
    <3>1. \A q \in Request : /\ Is(q, "marked", t)' => Is(q, "marked", t)
                             /\ Is(q, "marking", t)' => Is(q, "marking", t) \/ t = s
      BY <2>1 DEF Is
    <3>2. CASE t # s
      <4>1. Guarded(t) => Guarded(t)'
        BY <1>1, <3>1, <3>2 DEF Guarded
      <4> QED  BY <1>1, <4>1 DEF IInv, Once
    <3>3. CASE t = s /\ ~ok
      <4>1. <<"state", t>> \in excused'
        BY <3>3 DEF CheckNonce, Excuse
      <4> QED  BY <1>1, <4>1 DEF IInv, Once
    <3>4. CASE t = s /\ ok
      <4>1. clock < expiry[t] => Nonce(t) \notin usedDb
        BY <1>3, <3>4, Marks DEF IsConsumed, Live, IInv, Shapes
      <4>2. clock < expiry[t] /\ Guarded(t) => Guarded(t)'
        BY <1>1, <3>1, <4>1 DEF Guarded
      <4> QED  BY <1>1, <4>2 DEF IInv, Once
    <3> QED  BY <3>2, <3>3, <3>4
  <2> QED  BY <2>1, <2>2 DEF IInv
<1> QED  BY <1>2, <1>3 DEF CheckNonce, Nonce

\* What a mark does to the marks on disk of the states that live.
LEMMA MarkKeeps ==
  ASSUME NEW p, NEW m, NEW ok, Mark(p, m, ok), NEW t \in State, clock < expiry[t],
         expiry \in [State -> Nat], clock \in Nat
  PROVE  /\ Nonce(t) \in usedDb' => Nonce(t) \in usedDb \/ Nonce(t) = m
         /\ Nonce(t) \in usedDb => Nonce(t) \in usedDb'
         /\ ok /\ Nonce(t) = m => Nonce(t) \in usedDb'
  BY Marks DEF Mark, Live

\* The first mark: nobody else is about to set it, and it is not there yet.
LEMMA MarkNonceStep == ASSUME IInv, NEW r \in Request, NEW ok, MarkNonce(r, ok) PROVE IInv'
<1> DEFINE s == call[r].state
<1>1. /\ UNCHANGED <<expiry, accepts, clock, issued>> /\ excused \subseteq excused'
      /\ call[r].phase = "marking" /\ Goto(r, "marked")
      /\ Mark(call[r].proc, Nonce(s), ok)
  BY ExcuseGrows DEF MarkNonce, Nonce
<1>2. /\ Shapes' /\ OneAtATime'
      /\ call'[r].phase = "marked" /\ call'[r].state = s
      /\ \A q \in Request : q # r => call'[q] = call[q]
  BY <1>1, GoesOn DEF Verifying, Phase, IInv, Shapes
<1>3. ASSUME NEW t \in State PROVE Once(t)'
  <2>1. \A q \in Request : /\ Is(q, "marking", t)' => Is(q, "marking", t) /\ q # r
                           /\ Is(q, "marked", t)' => Is(q, "marked", t) \/ (q = r /\ t = s)
    BY <1>2 DEF Is
  <2>2. clock < expiry[t] => /\ Nonce(t) \in usedDb' => Nonce(t) \in usedDb \/ t = s
                             /\ Nonce(t) \in usedDb => Nonce(t) \in usedDb'
                             /\ ok /\ t = s => Nonce(t) \in usedDb'
    BY <1>1, MarkKeeps, Marks DEF IInv, Shapes
  <2>3. CASE t # s
    <3>1. clock < expiry[t] /\ Guarded(t) => Guarded(t)'
      BY <1>1, <2>1, <2>2, <2>3 DEF Guarded
    <3> QED  BY <1>1, <3>1 DEF IInv, Once
  <2>4. CASE t = s /\ ~(ok /\ ~IsContested(r))
    <3>1. <<"state", t>> \in excused'
      BY <2>4 DEF MarkNonce, Excuse
    <3> QED  BY <1>1, <3>1 DEF IInv, Once
  <2>5. CASE t = s /\ ok /\ ~IsContested(r)
    <3>1. Is(r, "marking", t)
      BY <1>1, <2>5 DEF Is
    <3>2. ASSUME NEW q \in Request, Is(q, "marking", t) PROVE q = r
      <4>1. call[q].proc = call[r].proc
        BY <2>5, <3>2 DEF IsContested, Is
      <4> QED  BY <1>1, <3>2, <4>1 DEF IInv, OneAtATime, InStep, Is
    <3>3. clock < expiry[t] /\ Guarded(t) => Guarded(t)'
      BY <1>1, <2>1, <2>2, <2>5, <3>1, <3>2 DEF Guarded
    <3> QED  BY <1>1, <3>3 DEF IInv, Once
  <2> QED  BY <2>3, <2>4, <2>5
<1> QED  BY <1>2, <1>3 DEF IInv

\* The second mark, and the state is accepted.
LEMMA MarkTokenStep == ASSUME IInv, NEW r \in Request, NEW ok, MarkToken(r, ok) PROVE IInv'
<1> DEFINE s == call[r].state
<1>1. /\ UNCHANGED <<expiry, clock, issued>> /\ excused \subseteq excused'
      /\ call[r].phase = "marked"
      /\ End(r) \/ Goto(r, "google")
      /\ Mark(call[r].proc, Token(s), ok)
  BY ExcuseGrows DEF MarkToken, Token
<1>2. /\ accepts' \in [State -> Nat]
      /\ \A t \in State : t # s \/ ~(clock < expiry[t]) => accepts'[t] = accepts[t]
      /\ \A t \in State : accepts'[t] = accepts[t] \/ accepts'[t] = accepts[t] + 1
  <2>1. accepts \in [State -> Nat]
    BY DEF IInv, Shapes
  <2>2. \/ accepts' = accepts
        \/ clock < expiry[s] /\ accepts' = [accepts EXCEPT ![s] = @ + 1]
    BY DEF MarkToken
  <2> HIDE DEF s
  <2> QED  BY <2>1, <2>2
<1>3. call[r] \in SignInCall /\ s \in State
  BY <1>1 DEF IInv, Shapes, Verifying, SignInCall
<1>4. /\ Shapes' /\ OneAtATime'
      /\ call'[r].phase \notin {"marking", "marked"}
      /\ \A q \in Request : q # r => call'[q] = call[q]
  <2>1. CASE Goto(r, "google")
    BY <1>1, <1>2, <2>1, GoesOn DEF Verifying, Phase
  <2>2. CASE End(r)
    <3>1. /\ Idle.phase \notin InSteps /\ Idle.phase \notin Verifying \union {"google"}
          /\ Idle.phase \notin {"register", "record", "body", "adopt", "marking", "marked"}
      BY DEF Idle, InSteps, Verifying
    <3>2. /\ OneAtATime' /\ DOMAIN call' = Request
          /\ call'[r] = Idle /\ \A q \in Request : q # r => call'[q] = call[q]
      BY <2>2, <3>1, OneCall DEF End, IInv, Shapes
    <3>3. Shapes'
      BY <1>1, <1>2, <3>1, <3>2 DEF IInv, Shapes
    <3> QED  BY <3>1, <3>2, <3>3
  <2> QED  BY <1>1, <2>1, <2>2
<1>5. ASSUME NEW t \in State PROVE Once(t)'
  <2>1. \A q \in Request : /\ Is(q, "marking", t)' => Is(q, "marking", t) /\ q # r
                           /\ Is(q, "marked", t)' => Is(q, "marked", t) /\ q # r
    BY <1>4 DEF Is
  <2>2. clock < expiry[t] => (Nonce(t) \in usedDb' <=> Nonce(t) \in usedDb)
    BY <1>1, MarkKeeps, Marks DEF IInv, Shapes
  <2>3. expiry[t] = 0 => accepts'[t] = 0
    <3>1. expiry[t] = 0 => accepts[t] = 0
      BY DEF IInv, Once
    <3>2. clock \in Nat /\ expiry' = expiry
      BY <1>1 DEF IInv, Shapes
    <3>3. expiry[t] = 0 => ~(clock < expiry[t])
      BY <3>2
    <3> QED  BY <1>2, <3>1, <3>2, <3>3
  <2>4. CASE t # s \/ ~(clock < expiry[t])
    <3>1. accepts'[t] = accepts[t]
      BY <1>2, <2>4
    <3>2. clock < expiry[t] /\ Guarded(t) => Guarded(t)'
      BY <2>1, <2>2, <3>1 DEF Guarded
    <3> QED  BY <1>1, <2>3, <3>1, <3>2 DEF IInv, Once
  <2>5. CASE t = s /\ clock < expiry[t]
    <3>1. Is(r, "marked", t)
      BY <1>1, <2>5 DEF Is
    <3>2. Guarded(t) => accepts[t] = 0 /\ accepts'[t] <= 1 /\ Guarded(t)'
      BY <1>2, <2>1, <2>2, <2>5, <3>1 DEF Guarded
    <3> QED  BY <1>1, <2>3, <2>5, <3>2 DEF IInv, Once
  <2> QED  BY <2>4, <2>5
<1> QED  BY <1>4, <1>5 DEF IInv

----------------------------------------------------------------------------
(* Theorem *)

\* The steps that change no request.
LEMMA OtherSteps ==
  ASSUME IInv, NEW p \in Proc,
         \/ RegisterClient(p) \/ \E k \in Id : Authorize(p, k)
         \/ \E c \in codes[p], fits \in BOOLEAN, ok \in BOOLEAN : Redeem(p, c, fits, ok)
         \/ \E ok \in BOOLEAN : ClientToken(p, ok) \/ \E k \in Id : UpgradeKey(p, k, ok)
  PROVE  IInv'
<1>1. UNCHANGED <<expiry, usedDb, accepts, call, clock, excused>>
  BY DEF RegisterClient, Authorize, Redeem, ClientToken, UpgradeKey, signIn
<1>2. issued' \in Nat
  <2>1. issued' = issued \/ issued' = issued + 1
    BY DEF RegisterClient, Authorize, Redeem, ClientToken, UpgradeKey, Issue, ledger
  <2> QED  BY <2>1 DEF IInv, Shapes
<1> QED  BY <1>1, <1>2, NoCall DEF IInv, Shapes

\* The clock moves on: fewer states live.
LEMMA TickStep == ASSUME IInv, Tick PROVE IInv'
<1>1. clock \in Nat /\ clock' = clock + 1
  BY DEF Tick, IInv, Shapes
<1> QED  BY <1>1, NoCall DEF Tick, signIn, IInv, Shapes

\* Every step keeps the invariant.
LEMMA NextIInv == IInv /\ [Next]_vars => IInv'
<1> SUFFICES ASSUME IInv, [Next]_vars PROVE IInv'
  OBVIOUS
<1>1. CASE Next
  BY <1>1, SignupStep, SignupBodyStep, RegisterStep, RecordStep, AdoptStep, GoogleStep,
     RestartStep, LoginStep, CallbackStep, CheckNonceStep, MarkNonceStep, MarkTokenStep,
     OtherSteps, TickStep DEF Next
<1>2. CASE UNCHANGED vars
  BY <1>2, NoCall DEF vars, IInv, Shapes
<1> QED  BY <1>1, <1>2

\* A sign-in state is accepted once before it expires, by all processes together
\* and over their restarts, unless SQLite failed for it or two processes looked it
\* up before either marked it (_is_oauth_token_consumed, _mark_oauth_token_consumed).
THEOREM StatesAreUsedOnce == Spec => []StateUsedOnce
<1>1. IInv => StateUsedOnce
  BY DEF IInv, Once, StateUsedOnce
<1> QED  BY <1>1, InitIInv, NextIInv, PTL DEF Spec
----------------------------------------------------------------------------
(* Accounts, their keys and the limit on sign-ups *)

Account == [email : Email, id : Id, via : Via, at : Nat]
\* A key has a plan: one that is registered differs from NoKey by it.
IsKeyTable(table) == DOMAIN table = Id /\ \A k \in Id : "plan" \in DOMAIN table[k]
Makes(r, e) == call[r].phase \in {"register", "record"} /\ call[r].email = e
IsSaved(k) == row[k] # NoKey \/ <<"key", k>> \in excused

Tables ==
  /\ IsKeyTable(row)
  /\ DOMAIN keys = Proc /\ \A p \in Proc : IsKeyTable(keys[p])

Books ==
  /\ accounts \in Seq(Account) /\ stamps \in [Proc -> Seq(Nat)] /\ Tables
  /\ \A r \in Request :
       /\ call[r].phase \in {"register", "record"} => call[r].id \in Id
       /\ call[r].phase \in Verifying \union {"google"} => call[r].via = "google"

\* Who is about to record an account has had its key saved.
Saved ==
  /\ \A i \in DOMAIN accounts : IsSaved(accounts[i].id)
  /\ \A r \in Request : call[r].phase = "record" => IsSaved(call[r].id)

\* While a request makes an account for e there is none, and it is alone.
Sole(e) ==
  <<"email", e>> \in excused \/
    /\ \A i, j \in DOMAIN accounts : accounts[i].email = e /\ accounts[j].email = e => i = j
    /\ \A r \in Request : Makes(r, e) => RowsOf(e) = {}
    /\ \A q, r \in Request : Makes(q, e) /\ Makes(r, e) => q = r

\* The rows of the window, and the sign-ups that may add one.
Counted == {i \in DOMAIN accounts : accounts[i].via = "signup" /\ accounts[i].at + Window > clock}
Coming == {r \in Request : /\ call[r].phase \in {"body", "register", "record"}
                           /\ call[r].via = "signup"}
Limited ==
  <<"limit">> \in excused \/ Cardinality(Counted) + Cardinality(Coming) < Limit + Cardinality(Request)

AccountsInv == Books /\ Saved /\ (\A e \in Email : Sole(e)) /\ Limited

\* At the start there is no account and no request.
LEMMA InitAccounts == Init => AccountsInv
<1> SUFFICES ASSUME Init PROVE AccountsInv
  OBVIOUS
<1>1. accounts = <<>> /\ \A r \in Request : call[r].phase = "idle"
  BY DEF Init, Idle
<1>2. Tables
  BY DEF Init, Tables, IsKeyTable, NoKey
<1>3. Books
  <2>1. stamps \in [Proc -> Seq(Nat)]
    BY DEF Init
  <2> QED  BY <1>1, <1>2, <2>1 DEF Books, Verifying
<1>4. Saved /\ \A e \in Email : Sole(e)
  BY <1>1 DEF Saved, Sole, Makes
<1>5. Limited
  <2>1. Counted = {} /\ Coming = {}
    BY <1>1 DEF Counted, Coming
  <2>2. Limit \in Nat \ {0} /\ Cardinality(Request) \in Nat
    BY AccountsAssumption, FS_CardinalityType DEF AccountsAssumption
  <2> QED  BY <2>1, <2>2, FS_EmptySet DEF Limited
<1> QED  BY <1>3, <1>4, <1>5 DEF AccountsInv

\* What is counted is finite: rows of the table, and slots.
LEMMA Finite ==
  /\ \A list \in Seq(Account) : \A T \in SUBSET DOMAIN list :
       IsFiniteSet(T) /\ Cardinality(T) \in Nat
  /\ \A T \in SUBSET Request :
       IsFiniteSet(T) /\ Cardinality(T) \in Nat /\ Cardinality(T) <= Cardinality(Request)
  /\ Cardinality(Request) \in Nat
<1>1. IsFiniteSet(Request)
  BY AccountsAssumption DEF AccountsAssumption
<1>2. ASSUME NEW list \in Seq(Account), NEW T \in SUBSET DOMAIN list
      PROVE  IsFiniteSet(T) /\ Cardinality(T) \in Nat
  <2>1. IsFiniteSet(1..Len(list)) /\ T \in SUBSET (1..Len(list))
    BY FS_Interval
  <2> QED  BY <2>1, FS_Subset, FS_CardinalityType
<1>3. ASSUME NEW T \in SUBSET Request
      PROVE  IsFiniteSet(T) /\ Cardinality(T) \in Nat /\ Cardinality(T) <= Cardinality(Request)
  BY <1>1, FS_Subset, FS_CardinalityType
<1> QED  BY <1>1, <1>2, <1>3, FS_CardinalityType

\* The records of a list of accounts.
LEMMA Entries ==
  ASSUME NEW list \in Seq(Account), NEW i \in DOMAIN list
  PROVE  list[i] \in Account /\ list[i].id \in Id /\ list[i].at \in Nat /\ list[i].email \in Email
<1>1. list[i] \in Account
  OBVIOUS
<1> QED  BY <1>1 DEF Account

\* With no more rows to count and no more sign-ups to come the limit stands.
LEMMA NoMore ==
  ASSUME accounts \in Seq(Account), accounts' \in Seq(Account), Limited,
         Counted' \subseteq Counted, Coming' \subseteq Coming, excused \subseteq excused'
  PROVE  Limited'
<1>1. /\ Cardinality(Counted') <= Cardinality(Counted)
      /\ Cardinality(Coming') <= Cardinality(Coming)
  <2>1. Counted' \in SUBSET Counted /\ Coming' \in SUBSET Coming
    OBVIOUS
  <2>2. Counted \in SUBSET DOMAIN accounts /\ Coming \in SUBSET Request
    BY DEF Counted, Coming
  <2>3. IsFiniteSet(Counted) /\ IsFiniteSet(Coming)
    BY <2>2, Finite
  <2> QED  BY <2>1, <2>3, FS_Subset
<1>2. /\ Cardinality(Counted) \in Nat /\ Cardinality(Coming) \in Nat /\ Cardinality(Request) \in Nat
      /\ Cardinality(Counted') \in Nat /\ Cardinality(Coming') \in Nat
  <2>1. /\ Counted \in SUBSET DOMAIN accounts /\ Coming \in SUBSET Request
        /\ Counted' \in SUBSET DOMAIN accounts' /\ Coming' \in SUBSET Request
    BY DEF Counted, Coming
  <2> QED  BY <2>1, Finite
<1>3. Limit \in Nat
  BY AccountsAssumption DEF AccountsAssumption
<1> QED  BY <1>1, <1>2, <1>3 DEF Limited

\* The rows of the window while none is added: time takes them out of it.
LEMMA CountedFalls ==
  ASSUME accounts \in Seq(Account), UNCHANGED accounts, clock \in Nat, clock' \in Nat,
         clock' >= clock
  PROVE  Counted' \subseteq Counted
<1>1. \A i \in DOMAIN accounts : accounts[i].at \in Nat
  BY Entries
<1>2. Window \in Nat
  BY AccountsAssumption DEF AccountsAssumption
<1> QED  BY <1>1, <1>2 DEF Counted

RowsStay == \A k \in Id : row[k] # NoKey => row'[k] # NoKey

\* Saving a key under any name: the tables keep their form and no key is lost.
LEMMA SaveKeyKeeps ==
  ASSUME Tables, NEW p \in Proc, NEW k, NEW key, NEW ok, SaveKey(p, k, key, ok),
         "plan" \in DOMAIN key, key.plan # "none"
  PROVE  /\ Tables' /\ RowsStay
         /\ ok /\ k \in Id => row'[k] # NoKey
<1>1. NoKey.plan = "none"
  BY DEF NoKey
<1>2. key # NoKey
  BY <1>1
<1>3. DOMAIN row = Id /\ DOMAIN keys = Proc /\ DOMAIN keys[p] = Id
  BY DEF Tables, IsKeyTable
<1>4. row' = row \/ row' = [row EXCEPT ![k] = key]
  BY DEF SaveKey
<1>5. IsKeyTable(row')
  BY <1>4 DEF Tables, IsKeyTable
<1>6. ASSUME NEW q \in Proc PROVE IsKeyTable(keys'[q])
  <2>1. keys'[q] = IF q = p THEN [keys[p] EXCEPT ![k] = key] ELSE keys[q]
    BY <1>3 DEF SaveKey
  <2>2. IsKeyTable(keys[p]) /\ IsKeyTable(keys[q])
    BY DEF Tables
  <2>3. IsKeyTable([keys[p] EXCEPT ![k] = key])
    BY <2>2 DEF IsKeyTable
  <2> QED  BY <2>1, <2>2, <2>3
<1>7. DOMAIN keys' = Proc
  BY <1>3 DEF SaveKey
<1>8. RowsStay
  BY <1>2, <1>3, <1>4 DEF RowsStay
<1>9. ok /\ k \in Id => row'[k] # NoKey
  BY <1>2, <1>3 DEF SaveKey
<1> QED  BY <1>5, <1>6, <1>7, <1>8, <1>9 DEF Tables

\* A free key, an access token and an upgraded key have a plan.
LEMMA KeysHavePlans ==
  ASSUME NEW org
  PROVE  /\ "plan" \in DOMAIN Key(org, "free") /\ Key(org, "free").plan # "none"
         /\ "plan" \in DOMAIN Key(org, "token") /\ Key(org, "token").plan # "none"
  BY DEF Key

\* A request that goes on without a part in any account.
Aside(r) ==
  \/ call'[r] = call[r]
  \/ /\ call'[r].phase \notin {"body", "register", "record"}
     /\ call'[r].phase \in Verifying \union {"google"} => call'[r].via = "google"

\* Steps that add no account and begin none.
LEMMA AccountsFrame ==
  ASSUME IInv, IInv', AccountsInv, Tables', RowsStay, UNCHANGED accounts, clock' >= clock,
         stamps' = stamps \/ \E p \in Proc : stamps' = [stamps EXCEPT ![p] = <<>>],
         excused \subseteq excused', \A r \in Request : Aside(r)
  PROVE  AccountsInv'
<1>1. accounts \in Seq(Account) /\ accounts' \in Seq(Account)
  BY DEF AccountsInv, Books
<1>2. Books'
  <2>1. stamps' \in [Proc -> Seq(Nat)]
    <3>1. stamps \in [Proc -> Seq(Nat)] /\ <<>> \in Seq(Nat)
      BY DEF AccountsInv, Books
    <3> QED  BY <3>1
  <2>2. ASSUME NEW r \in Request
        PROVE  /\ call'[r].phase \in {"register", "record"} => call'[r].id \in Id
               /\ call'[r].phase \in Verifying \union {"google"} => call'[r].via = "google"
    BY DEF AccountsInv, Books, Aside
  <2> QED  BY <1>1, <2>1, <2>2 DEF Books
<1>3. \A k \in Id : IsSaved(k) => IsSaved(k)'
  BY DEF IsSaved, RowsStay
<1>4. \A i \in DOMAIN accounts : accounts[i].id \in Id
  BY <1>1, Entries
<1>5. Saved'
  BY <1>3, <1>4 DEF AccountsInv, Books, Saved, Aside
<1>6. ASSUME NEW e \in Email PROVE Sole(e)'
  <2>1. \A r \in Request : Makes(r, e)' => Makes(r, e)
    BY DEF Makes, Aside
  <2>2. RowsOf(e)' = RowsOf(e)
    BY DEF RowsOf
  <2> QED  BY <2>1, <2>2 DEF AccountsInv, Sole
<1>7. Limited'
  <2>1. Coming' \subseteq Coming
    BY DEF Coming, Aside
  <2>2. Counted' \subseteq Counted
    BY <1>1, CountedFalls DEF IInv, Shapes
  <2> QED  BY <1>1, <2>1, <2>2, NoMore DEF AccountsInv
<1> QED  BY <1>2, <1>5, <1>6, <1>7 DEF AccountsInv

\* Steps that leave the tables alone besides.
LEMMA TablesFrame ==
  ASSUME Tables, UNCHANGED ledger PROVE Tables' /\ RowsStay
  BY DEF Tables, RowsStay, ledger

\* A request changes to c, which has no part in any account.
LEMMA OneAside ==
  ASSUME IInv, NEW r \in Request, NEW c, call' = [call EXCEPT ![r] = c],
         c.phase \notin {"body", "register", "record"},
         c.phase \in Verifying \union {"google"} => c.via = "google"
  PROVE  \A q \in Request : Aside(q)
<1>1. call'[r] = c /\ \A q \in Request : q # r => call'[q] = call[q]
  BY DEF IInv, Shapes
<1> QED  BY <1>1 DEF Aside

\* A request ends.
LEMMA EndAside ==
  ASSUME IInv, NEW r \in Request, End(r) PROVE \A q \in Request : Aside(q)
<1>1. Idle.phase = "idle"
  BY DEF Idle
<1> QED  BY <1>1, OneAside DEF End, Verifying

\* A request goes on to verify its state, or to ask Google.
LEMMA GotoAside ==
  ASSUME IInv, AccountsInv, NEW r \in Request, call[r].phase \in Verifying,
         NEW phase \in {"marking", "marked", "google"}, Goto(r, phase)
  PROVE  \A q \in Request : Aside(q)
<1> DEFINE c == [call[r] EXCEPT !.phase = phase]
<1>1. call[r] \in SignInCall /\ call[r].via = "google"
  BY DEF IInv, Shapes, AccountsInv, Books
<1>2. c.phase = phase /\ c.via = "google"
  BY <1>1 DEF SignInCall
<1>3. call' = [call EXCEPT ![r] = c]
  BY DEF Goto
<1> HIDE DEF c
<1> QED  BY <1>2, <1>3, OneAside

\* A sign-up is let in: the rows of the window were below the limit.
LEMMA SignupAccounts ==
  ASSUME IInv, IInv', AccountsInv, NEW r \in Request, NEW p \in Proc, NEW ok \in BOOLEAN,
         Signup(r, p, ok)
  PROVE  AccountsInv'
<1> DEFINE c == [phase |-> "body", via |-> "signup", proc |-> p]
<1>1. c.phase = "body" /\ c.via = "signup"
  OBVIOUS
<1>2. /\ call' = [call EXCEPT ![r] = c]
      /\ UNCHANGED <<row, keys, accounts, stamps, clock>> /\ excused \subseteq excused'
  BY ExcuseGrows DEF Signup, ledger
<1> HIDE DEF c
<1>3. call'[r] = c /\ \A q \in Request : q # r => call'[q] = call[q]
  BY <1>2 DEF IInv, Shapes
<1>4. Books'
  BY <1>1, <1>2, <1>3 DEF AccountsInv, Books, Tables, Verifying
<1>5. Saved'
  BY <1>1, <1>2, <1>3 DEF AccountsInv, Saved, IsSaved
<1>6. ASSUME NEW e \in Email PROVE Sole(e)'
  <2>1. \A q \in Request : Makes(q, e)' => Makes(q, e)
    BY <1>1, <1>3 DEF Makes
  <2>2. RowsOf(e)' = RowsOf(e)
    BY <1>2 DEF RowsOf
  <2> QED  BY <1>2, <2>1, <2>2 DEF AccountsInv, Sole
<1>7. Limited'
  <2>1. CASE ok
    <3> DEFINE rows == {i \in DOMAIN accounts : accounts[i].at + Window > clock}
               stamped == {i \in DOMAIN stamps[p] : stamps[p][i] + Window > clock}
    <3>1. {i \in DOMAIN accounts : ok /\ accounts[i].at + Window > clock} = rows
      BY <2>1
    <3>2. (IF Cardinality(stamped) > Cardinality(rows) THEN Cardinality(stamped)
                                                       ELSE Cardinality(rows)) < Limit
      BY <3>1 DEF Signup, Recent
    <3>3. accounts \in Seq(Account) /\ accounts' \in Seq(Account)
      BY <1>2 DEF AccountsInv, Books
    <3>4. IsFiniteSet(rows) /\ Cardinality(Counted) <= Cardinality(rows) /\ Cardinality(rows) \in Nat
      <4>1. IsFiniteSet(1..Len(accounts))
        BY FS_Interval
      <4>2. rows \in SUBSET (1..Len(accounts))
        BY <3>3
      <4>3. Counted \in SUBSET rows
        BY DEF Counted
      <4> HIDE DEF rows
      <4>4. IsFiniteSet(rows)
        BY <4>1, <4>2, FS_Subset
      <4> QED  BY <4>3, <4>4, FS_Subset, FS_CardinalityType
    <3>5. Cardinality(stamped) \in Nat
      <4>1. stamps[p] \in Seq(Nat)
        BY DEF AccountsInv, Books
      <4>2. IsFiniteSet(1..Len(stamps[p])) /\ stamped \in SUBSET (1..Len(stamps[p]))
        BY <4>1, FS_Interval
      <4> HIDE DEF stamped
      <4> QED  BY <4>2, FS_Subset, FS_CardinalityType
    <3> HIDE DEF rows, stamped
    <3>6. Limit \in Nat
      BY AccountsAssumption DEF AccountsAssumption
    <3>7. Cardinality(Counted) \in Nat /\ Cardinality(Counted) < Limit
      <4>1. Cardinality(Counted) \in Nat
        BY <3>3, Finite DEF Counted
      <4> QED  BY <3>2, <3>4, <3>5, <3>6, <4>1
    <3>8. Counted' = Counted
      BY <1>2 DEF Counted
    <3>9. /\ Cardinality(Coming') \in Nat /\ Cardinality(Request) \in Nat
          /\ Cardinality(Coming') <= Cardinality(Request)
      <4>1. Coming' \in SUBSET Request
        BY DEF Coming
      <4> QED  BY <4>1, Finite
    <3> QED  BY <3>6, <3>7, <3>8, <3>9 DEF Limited
  <2>2. CASE ~ok
    <3>1. <<"limit">> \in excused'
      BY <2>2 DEF Signup, Excuse
    <3> QED  BY <3>1 DEF Limited
  <2> QED  BY <2>1, <2>2
<1> QED  BY <1>4, <1>5, <1>6, <1>7 DEF AccountsInv

\* A new account is begun by the one request that makes it.
LEMMA StartAccounts ==
  ASSUME IInv, AccountsInv, NEW r \in Request, NEW e \in Email, NEW ok \in BOOLEAN,
         ~ok \/ RowsOf(e) = {}, StartAccount(r, e, ok), LoopIsFree(call[r].proc),
         call[r].via = "signup" => call[r].phase = "body",
         UNCHANGED <<row, keys, accounts, stamps, clock>>
  PROVE  AccountsInv'
<1> DEFINE c == [phase |-> "register", via |-> call[r].via, proc |-> call[r].proc,
                 email |-> e, id |-> issued + 1]
<1>1. /\ c.phase = "register" /\ c.via = call[r].via /\ c.email = e
      /\ c.id = issued + 1
  OBVIOUS
<1>2. call' = [call EXCEPT ![r] = c] /\ issued < MaxId /\ excused \subseteq excused'
  BY ExcuseGrows DEF StartAccount
<1>3. c.id \in Id
  <2>1. issued \in Nat /\ MaxId \in Nat
    BY AccountsAssumption DEF IInv, Shapes, AccountsAssumption
  <2> QED  BY <1>1, <1>2, <2>1 DEF Id
<1> HIDE DEF c
<1>4. call'[r] = c /\ \A q \in Request : q # r => call'[q] = call[q]
  BY <1>2 DEF IInv, Shapes
<1>5. Books'
  BY <1>1, <1>3, <1>4 DEF AccountsInv, Books, Tables, Verifying
<1>6. Saved'
  BY <1>1, <1>2, <1>4 DEF AccountsInv, Saved, IsSaved
<1>7. ASSUME NEW f \in Email PROVE Sole(f)'
  <2>1. \A q \in Request : Makes(q, f)' => Makes(q, f) \/ (q = r /\ f = e)
    BY <1>1, <1>4 DEF Makes
  <2>2. RowsOf(f)' = RowsOf(f)
    BY DEF RowsOf
  <2>3. CASE f # e
    BY <1>2, <2>1, <2>2, <2>3 DEF AccountsInv, Sole
  <2>4. CASE f = e /\ ~(ok /\ ~IsRaced(r, e))
    <3>1. <<"email", f>> \in excused'
      BY <2>4 DEF StartAccount, Excuse
    <3> QED  BY <3>1 DEF Sole
  <2>5. CASE f = e /\ ok /\ ~IsRaced(r, e)
    <3>1. RowsOf(f) = {}
      BY <2>5
    <3>2. ASSUME NEW q \in Request, Makes(q, f) PROVE FALSE
      <4>1. InStep(q) /\ call[q].proc = call[r].proc
        BY <2>5, <3>2 DEF IsRaced, Makes, InStep
      <4> QED  BY <4>1 DEF LoopIsFree
    <3>3. \A q \in Request : Makes(q, f)' => q = r
      BY <2>1, <3>2
    <3>4. \A i \in DOMAIN accounts' : accounts'[i].email # f
      BY <2>2, <3>1 DEF RowsOf
    <3> QED  BY <2>2, <3>1, <3>3, <3>4 DEF Sole
  <2> QED  BY <2>3, <2>4, <2>5
<1>8. Limited'
  <2>1. Coming' \subseteq Coming
    BY <1>1, <1>4 DEF Coming
  <2>2. Counted' = Counted
    BY DEF Counted
  <2> QED  BY <1>2, <2>1, <2>2, NoMore DEF AccountsInv, Books
<1> QED  BY <1>5, <1>6, <1>7, <1>8 DEF AccountsInv

\* The key of a new account is saved, or excused.
LEMMA RegisterAccounts ==
  ASSUME IInv, AccountsInv, NEW r \in Request, NEW ok \in BOOLEAN, Register(r, ok)
  PROVE  AccountsInv'
<1>0. PICK k : k = call[r].id
  OBVIOUS
<1> DEFINE c == [call[r] EXCEPT !.phase = "record"]
<1>1. call[r] \in AccountCall /\ call[r].phase = "register" /\ k \in Id
  BY <1>0 DEF Register, IInv, Shapes, AccountsInv, Books
<1>2. /\ c.phase = "record" /\ c.via = call[r].via /\ c.email = call[r].email
      /\ c.id = k
  BY <1>0, <1>1 DEF AccountCall
<1>3. /\ call' = [call EXCEPT ![r] = c] /\ excused \subseteq excused'
      /\ UNCHANGED <<accounts, stamps, clock>>
      /\ ok \/ <<"key", k>> \in excused'
  BY <1>0, ExcuseGrows DEF Register, Goto, Excuse
<1>4. Tables' /\ RowsStay /\ (ok => row'[k] # NoKey)
  <2>1. SaveKey(call[r].proc, k, Key(k, "free"), ok) /\ call[r].proc \in Proc /\ Tables
    BY <1>0, <1>1 DEF Register, AccountCall, AccountsInv, Books
  <2> QED  BY <1>1, <2>1, SaveKeyKeeps, KeysHavePlans
<1> HIDE DEF c
<1>5. call'[r] = c /\ \A q \in Request : q # r => call'[q] = call[q]
  BY <1>3 DEF IInv, Shapes
<1>6. Books'
  BY <1>1, <1>2, <1>3, <1>4, <1>5 DEF AccountsInv, Books, Verifying
<1>7. Saved'
  <2>1. \A j \in Id : IsSaved(j) => IsSaved(j)'
    BY <1>3, <1>4 DEF IsSaved, RowsStay
  <2>2. \A i \in DOMAIN accounts : accounts[i].id \in Id
    BY Entries DEF AccountsInv, Books
  <2>3. IsSaved(k)'
    BY <1>3, <1>4 DEF IsSaved
  <2> QED  BY <1>2, <1>3, <1>5, <2>1, <2>2, <2>3 DEF AccountsInv, Books, Saved
<1>8. ASSUME NEW e \in Email PROVE Sole(e)'
  <2>1. \A q \in Request : Makes(q, e)' => Makes(q, e)
    BY <1>1, <1>2, <1>5 DEF Makes
  <2>2. RowsOf(e)' = RowsOf(e)
    BY <1>3 DEF RowsOf
  <2> QED  BY <1>3, <2>1, <2>2 DEF AccountsInv, Sole
<1>9. Limited'
  <2>1. Coming' \subseteq Coming
    BY <1>1, <1>2, <1>5 DEF Coming
  <2>2. Counted' = Counted
    BY <1>3 DEF Counted
  <2> QED  BY <1>3, <2>1, <2>2, NoMore DEF AccountsInv, Books
<1> QED  BY <1>6, <1>7, <1>8, <1>9 DEF AccountsInv

\* The row of a new account: the only one for its address, with a key.
LEMMA RecordAccounts ==
  ASSUME IInv, IInv', AccountsInv, NEW r \in Request, NEW ok \in BOOLEAN, Record(r, ok)
  PROVE  AccountsInv'
<1> DEFINE p == call[r].proc
           new == [email |-> call[r].email, id |-> call[r].id, via |-> call[r].via, at |-> clock]
<1>1. /\ call[r] \in AccountCall /\ call[r].phase = "record" /\ call[r].id \in Id
      /\ p \in Proc /\ clock \in Nat
  BY DEF Record, IInv, Shapes, AccountsInv, Books, AccountCall
<1>2. /\ new \in Account /\ new.email = call[r].email /\ new.id = call[r].id
      /\ new.via = call[r].via
  BY <1>1 DEF Account, AccountCall
<1>3. /\ accounts' = accounts \/ accounts' = Append(accounts, new)
      /\ stamps' = stamps \/ stamps' = [stamps EXCEPT ![p] = Append(@, clock)]
      /\ call' = [call EXCEPT ![r] = Idle]
      /\ UNCHANGED <<row, keys, clock, excused>>
  BY DEF Record, Insert, Stamp, Return, End, ledger
<1> HIDE DEF new, p
<1>4. Idle.phase = "idle"
  BY DEF Idle
<1>5. call'[r] = Idle /\ \A q \in Request : q # r => call'[q] = call[q]
  BY <1>3 DEF IInv, Shapes
<1>6. accounts \in Seq(Account) /\ accounts' \in Seq(Account)
  BY <1>2, <1>3 DEF AccountsInv, Books
<1>7. \A i \in DOMAIN accounts' : \/ i \in DOMAIN accounts /\ accounts'[i] = accounts[i]
                                  \/ i = Len(accounts) + 1 /\ accounts'[i] = new
  BY <1>2, <1>3, <1>6
<1>8. DOMAIN accounts \subseteq DOMAIN accounts'
  BY <1>2, <1>3, <1>6
<1>9. Books'
  <2>1. stamps \in [Proc -> Seq(Nat)]
    BY DEF AccountsInv, Books
  <2>2. stamps' \in [Proc -> Seq(Nat)]
    <3>1. stamps[p] \in Seq(Nat)
      BY <1>1, <2>1
    <3>2. Append(stamps[p], clock) \in Seq(Nat)
      BY <1>1, <3>1
    <3> QED  BY <1>1, <1>3, <2>1, <3>2
  <2>3. Tables'
    BY <1>3 DEF AccountsInv, Books, Tables
  <2>4. ASSUME NEW q \in Request
        PROVE  /\ call'[q].phase \in {"register", "record"} => call'[q].id \in Id
               /\ call'[q].phase \in Verifying \union {"google"} => call'[q].via = "google"
    BY <1>4, <1>5 DEF AccountsInv, Books, Verifying
  <2> QED  BY <1>6, <2>2, <2>3, <2>4 DEF Books
<1>10. Saved'
  BY <1>1, <1>2, <1>3, <1>4, <1>5, <1>7 DEF AccountsInv, Saved, IsSaved
<1>11. ASSUME NEW e \in Email PROVE Sole(e)'
  <2>1. \A q \in Request : Makes(q, e)' => Makes(q, e) /\ q # r
    BY <1>4, <1>5 DEF Makes
  <2>2. CASE <<"email", e>> \in excused
    BY <1>3, <2>2 DEF Sole
  <2>3. CASE <<"email", e>> \notin excused /\ e = call[r].email
    <3>1. Makes(r, e)
      BY <1>1, <2>3 DEF Makes
    <3>2. RowsOf(e) = {} /\ \A q \in Request : Makes(q, e) => q = r
      BY <2>3, <3>1 DEF AccountsInv, Sole
    <3>3. \A i \in DOMAIN accounts' : accounts'[i].email = e => i = Len(accounts) + 1
      BY <1>7, <3>2 DEF RowsOf
    <3>4. \A q \in Request : ~Makes(q, e)'
      BY <2>1, <3>2
    <3> QED  BY <3>3, <3>4 DEF Sole
  <2>4. CASE <<"email", e>> \notin excused /\ e # call[r].email
    <3>1. \A i \in DOMAIN accounts' :
            accounts'[i].email = e => i \in DOMAIN accounts /\ accounts[i].email = e
      BY <1>2, <1>7, <2>4
    <3>2. RowsOf(e) = {} => RowsOf(e)' = {}
      BY <3>1 DEF RowsOf
    <3> QED  BY <2>1, <2>4, <3>1, <3>2 DEF AccountsInv, Sole
  <2> QED  BY <2>2, <2>3, <2>4
<1>12. Limited'
  <2>1. Coming' \subseteq Coming /\ r \notin Coming'
    BY <1>4, <1>5 DEF Coming
  <2>2. \A i \in Counted' : i \in Counted \/ (i = Len(accounts) + 1 /\ call[r].via = "signup")
    <3> SUFFICES ASSUME NEW i \in Counted'
                 PROVE  i \in Counted \/ (i = Len(accounts) + 1 /\ call[r].via = "signup")
      OBVIOUS
    <3>1. /\ i \in DOMAIN accounts' /\ accounts'[i].via = "signup"
          /\ accounts'[i].at + Window > clock
      BY <1>3 DEF Counted
    <3> QED  BY <1>2, <1>7, <3>1 DEF Counted
  <2>3. CASE call[r].via # "signup"
    <3>1. Counted' \subseteq Counted /\ Limited /\ excused \subseteq excused'
      BY <1>3, <2>2, <2>3 DEF AccountsInv
    <3> QED  BY <1>6, <2>1, <3>1, NoMore DEF AccountsInv
  <2>4. CASE call[r].via = "signup"
    <3>1. /\ Counted \in SUBSET DOMAIN accounts /\ Counted' \in SUBSET DOMAIN accounts'
          /\ Coming \in SUBSET Request /\ Coming' \in SUBSET Request
      BY DEF Counted, Coming
    <3>2. /\ IsFiniteSet(Counted) /\ Cardinality(Counted) \in Nat /\ Cardinality(Counted') \in Nat
          /\ IsFiniteSet(Coming) /\ Cardinality(Coming) \in Nat /\ Cardinality(Coming') \in Nat
          /\ Cardinality(Request) \in Nat
      BY <1>6, <3>1, Finite
    <3>3. Cardinality(Counted') <= Cardinality(Counted) + 1
      <4> DEFINE more == Counted \union {Len(accounts) + 1}
      <4>1. IsFiniteSet(more) /\ Cardinality(more) <= Cardinality(Counted) + 1
            /\ Cardinality(more) \in Nat
        <5>1. /\ IsFiniteSet(more)
              /\ Cardinality(more) = IF Len(accounts) + 1 \in Counted THEN Cardinality(Counted)
                                     ELSE Cardinality(Counted) + 1
          BY <3>2, FS_AddElement
        <5> HIDE DEF more
        <5> QED  BY <3>2, <5>1
      <4>2. Counted' \in SUBSET more
        BY <2>2
      <4> HIDE DEF more
      <4>3. Cardinality(Counted') <= Cardinality(more)
        BY <4>1, <4>2, FS_Subset
      <4> QED  BY <3>2, <4>1, <4>3
    <3>4. Cardinality(Coming') <= Cardinality(Coming) - 1
      <4> DEFINE fewer == Coming \ {r}
      <4>1. r \in Coming
        BY <1>1, <2>4 DEF Coming
      <4>2. IsFiniteSet(fewer) /\ Cardinality(fewer) = Cardinality(Coming) - 1
        BY <3>2, <4>1, FS_RemoveElement
      <4>3. Coming' \in SUBSET fewer
        BY <2>1
      <4> HIDE DEF fewer
      <4>4. Cardinality(Coming') <= Cardinality(fewer)
        BY <4>2, <4>3, FS_Subset
      <4> QED  BY <4>2, <4>4
    <3>5. Limit \in Nat
      BY AccountsAssumption DEF AccountsAssumption
    <3> QED  BY <1>3, <3>2, <3>3, <3>4, <3>5 DEF AccountsInv, Limited
  <2> QED  BY <2>3, <2>4
<1> QED  BY <1>9, <1>10, <1>11, <1>12 DEF AccountsInv

\* Steps of a request that verifies or ends.
LEMMA CallAccounts ==
  ASSUME IInv, IInv', AccountsInv, NEW r \in Request, NEW ok \in BOOLEAN,
         CheckNonce(r, ok) \/ MarkNonce(r, ok) \/ MarkToken(r, ok)
  PROVE  AccountsInv'
<1>1. /\ UNCHANGED <<ledger, accounts, stamps, clock>> /\ excused \subseteq excused'
      /\ call[r].phase \in Verifying
      /\ End(r) \/ \E phase \in {"marking", "marked", "google"} : Goto(r, phase)
  BY ExcuseGrows DEF CheckNonce, MarkNonce, MarkToken, Verifying
<1>2. \A q \in Request : Aside(q)
  BY <1>1, EndAside, GotoAside
<1>3. Tables' /\ RowsStay
  BY <1>1, TablesFrame DEF AccountsInv, Books
<1>4. clock' >= clock
  BY <1>1 DEF IInv, Shapes
<1> QED  BY <1>1, <1>2, <1>3, <1>4, AccountsFrame

\* A state comes back.
LEMMA CallbackAccounts ==
  ASSUME IInv, IInv', AccountsInv, NEW r \in Request, NEW p \in Proc, NEW s \in State,
         NEW ok \in BOOLEAN, Callback(r, p, s, ok)
  PROVE  AccountsInv'
<1> DEFINE c == [phase |-> "nonce", via |-> "google", proc |-> p, state |-> s]
<1>1. c.phase = "nonce" /\ c.via = "google"
  OBVIOUS
<1>2. /\ UNCHANGED <<ledger, accounts, stamps, clock>> /\ excused \subseteq excused'
      /\ UNCHANGED call \/ call' = [call EXCEPT ![r] = c]
  BY ExcuseGrows DEF Callback
<1> HIDE DEF c
<1>3. \A q \in Request : Aside(q)
  BY <1>1, <1>2, OneAside DEF Aside
<1>4. Tables' /\ RowsStay
  BY <1>2, TablesFrame DEF AccountsInv, Books
<1>5. clock' >= clock
  BY <1>2 DEF IInv, Shapes
<1> QED  BY <1>2, <1>3, <1>4, <1>5, AccountsFrame

\* The body is there: refused, or an account is begun.
LEMMA BodyAccounts ==
  ASSUME IInv, IInv', AccountsInv, NEW r \in Request, SignupBody(r) PROVE AccountsInv'
<1>1. UNCHANGED <<ledger, accounts, stamps, clock>> /\ call[r].phase = "body"
      /\ LoopIsFree(call[r].proc)
  BY DEF SignupBody
<1>2. CASE RefuseBody(r)
  <2>1. Tables' /\ RowsStay
    BY <1>1, TablesFrame DEF AccountsInv, Books
  <2>2. \A q \in Request : Aside(q)
    BY <1>2, EndAside DEF RefuseBody
  <2>3. clock' >= clock /\ excused' = excused
    BY <1>1, <1>2 DEF RefuseBody, IInv, Shapes
  <2> QED  BY <1>1, <2>1, <2>2, <2>3, AccountsFrame
<1>3. ASSUME NEW e \in Email, NEW ok \in BOOLEAN, ~ok \/ RowsOf(e) = {}, StartAccount(r, e, ok)
      PROVE  AccountsInv'
  BY <1>1, <1>3, StartAccounts DEF ledger
<1> QED  BY <1>2, <1>3 DEF SignupBody

\* Google's answer ends the sign-in, begins an account or adopts one.
LEMMA GoogleAccounts ==
  ASSUME IInv, IInv', AccountsInv, NEW r \in Request, GoogleAnswers(r) PROVE AccountsInv'
<1>1. UNCHANGED <<ledger, accounts, stamps, clock>> /\ call[r].phase = "google"
      /\ LoopIsFree(call[r].proc)
  BY DEF GoogleAnswers
<1>2. call[r].via # "signup"
  BY <1>1 DEF AccountsInv, Books
<1>3. ASSUME UNCHANGED excused, \A q \in Request : Aside(q) PROVE AccountsInv'
  <2>1. Tables' /\ RowsStay
    BY <1>1, TablesFrame DEF AccountsInv, Books
  <2>2. clock' >= clock
    BY <1>1 DEF IInv, Shapes
  <2> QED  BY <1>1, <1>3, <2>1, <2>2, AccountsFrame
<1>4. ASSUME NEW e \in Email, NEW ok \in BOOLEAN, ~ok \/ RowsOf(e) = {}, StartAccount(r, e, ok)
      PROVE  AccountsInv'
  BY <1>1, <1>2, <1>4, StartAccounts DEF ledger
<1>5. ASSUME End(r), UNCHANGED excused PROVE AccountsInv'
  BY <1>3, <1>5, EndAside
<1>6. ASSUME NEW id, UNCHANGED excused,
             call' = [call EXCEPT ![r] = [phase |-> "adopt", via |-> "google",
                                          proc |-> call[r].proc, id |-> id]]
      PROVE  AccountsInv'
  <2> DEFINE c == [phase |-> "adopt", via |-> "google", proc |-> call[r].proc, id |-> id]
  <2>1. c.phase = "adopt" /\ call' = [call EXCEPT ![r] = c]
    BY <1>6
  <2> HIDE DEF c
  <2>2. \A q \in Request : Aside(q)
    BY <2>1, OneAside DEF Verifying
  <2> QED  BY <1>3, <1>6, <2>2
<1> QED  BY <1>4, <1>5, <1>6 DEF GoogleAnswers, Return

\* The key of an account is registered anew.
LEMMA AdoptAccounts ==
  ASSUME IInv, IInv', AccountsInv, NEW r \in Request, NEW ok \in BOOLEAN, Adopt(r, ok)
  PROVE  AccountsInv'
<1>1. /\ UNCHANGED <<accounts, stamps, clock, excused>> /\ End(r)
      /\ SaveKey(call[r].proc, call[r].id, Key(call[r].id, "free"), ok)
  BY DEF Adopt, Return
<1>2. call[r].proc \in Proc
  BY DEF Adopt, IInv, Shapes
<1>3. Tables' /\ RowsStay
  BY <1>1, <1>2, SaveKeyKeeps, KeysHavePlans DEF AccountsInv, Books
<1>4. \A q \in Request : Aside(q)
  BY <1>1, EndAside
<1>5. clock' >= clock
  BY <1>1 DEF IInv, Shapes
<1> QED  BY <1>1, <1>3, <1>4, <1>5, AccountsFrame

\* Clients, codes, tokens and upgrades: keys at most are saved.
LEMMA OauthAccounts ==
  ASSUME IInv, IInv', AccountsInv, NEW p \in Proc,
         \/ RegisterClient(p) \/ \E k \in Id : Authorize(p, k)
         \/ \E c \in codes[p], fits \in BOOLEAN, ok \in BOOLEAN : Redeem(p, c, fits, ok)
         \/ \E ok \in BOOLEAN : ClientToken(p, ok) \/ \E k \in Id : UpgradeKey(p, k, ok)
  PROVE  AccountsInv'
<1>1. UNCHANGED <<accounts, stamps, call, clock, excused>>
  BY DEF RegisterClient, Authorize, Redeem, ClientToken, UpgradeKey
<1>2. ASSUME NEW org, NEW ok, Issue(p, org, ok) PROVE Tables' /\ RowsStay
  <2>1. SaveKey(p, issued + 1, Key(org, "token"), ok)
    BY <1>2 DEF Issue
  <2> QED  BY <2>1, SaveKeyKeeps, KeysHavePlans DEF AccountsInv, Books
<1>3. ASSUME NEW k \in Id, NEW ok, UpgradeKey(p, k, ok) PROVE Tables' /\ RowsStay
  <2> DEFINE key == [keys[p][k] EXCEPT !.plan = "paid"]
  <2>1. "plan" \in DOMAIN keys[p][k]
    BY DEF AccountsInv, Books, Tables, IsKeyTable
  <2>2. "plan" \in DOMAIN key /\ key.plan = "paid"
    BY <2>1
  <2>3. SaveKey(p, k, key, ok)
    BY <1>3 DEF UpgradeKey
  <2> HIDE DEF key
  <2> QED  BY <2>2, <2>3, SaveKeyKeeps DEF AccountsInv, Books
<1>4. ASSUME UNCHANGED ledger PROVE Tables' /\ RowsStay
  BY <1>4, TablesFrame DEF AccountsInv, Books
<1>5. Tables' /\ RowsStay
  <2>1. ASSUME RegisterClient(p) PROVE UNCHANGED ledger
    BY <2>1 DEF RegisterClient
  <2>2. ASSUME NEW k \in Id, Authorize(p, k) PROVE UNCHANGED ledger
    BY <2>2 DEF Authorize
  <2>3. ASSUME NEW c, NEW fits, NEW ok, Redeem(p, c, fits, ok)
        PROVE  Issue(p, c.org, ok) \/ UNCHANGED ledger
    BY <2>3 DEF Redeem
  <2>4. ASSUME NEW ok, ClientToken(p, ok) PROVE \E org : Issue(p, org, ok)
    BY <2>4 DEF ClientToken
  <2> QED  BY <1>2, <1>3, <1>4, <2>1, <2>2, <2>3, <2>4
<1>6. clock' >= clock /\ \A q \in Request : Aside(q)
  BY <1>1 DEF IInv, Shapes, Aside
<1> QED  BY <1>1, <1>5, <1>6, AccountsFrame

\* A process starts again with the keys on disk, or without any.
LEMMA RestartAccounts ==
  ASSUME IInv, IInv', AccountsInv, NEW p \in Proc, Restart(p) PROVE AccountsInv'
<1>1. /\ \E ok \in BOOLEAN : Load(p, ok)
      /\ stamps' = [stamps EXCEPT ![p] = <<>>]
      /\ UNCHANGED <<row, accounts, clock, excused>>
      /\ \A q \in Request : call'[q] = call[q] \/ call'[q] = Idle
  BY DEF Restart
<1>2. Tables' /\ RowsStay
  <2>1. IsKeyTable(row) /\ IsKeyTable([k \in Id |-> NoKey])
    BY DEF AccountsInv, Books, Tables, IsKeyTable, NoKey
  <2>2. PICK table : keys' = [keys EXCEPT ![p] = table] /\ IsKeyTable(table)
    BY <1>1, <2>1 DEF Load
  <2> QED  BY <1>1, <2>1, <2>2 DEF AccountsInv, Books, Tables, RowsStay
<1>3. Idle.phase = "idle"
  BY DEF Idle
<1>4. \A q \in Request : Aside(q)
  BY <1>1, <1>3 DEF Aside, Verifying
<1>5. clock' >= clock
  BY <1>1 DEF IInv, Shapes
<1> QED  BY <1>1, <1>2, <1>4, <1>5, AccountsFrame

\* Steps that touch neither accounts nor requests.
LEMMA QuietAccounts ==
  ASSUME IInv, IInv', AccountsInv,
         Tick \/ (\E p \in Proc, s \in State : Login(p, s)) \/ UNCHANGED vars
  PROVE  AccountsInv'
<1>1. UNCHANGED <<ledger, accounts, stamps, call, excused>>
  BY DEF Tick, Login, vars, ledger
<1>2. clock' >= clock
  <2>1. clock' = clock \/ clock' = clock + 1
    BY DEF Tick, Login, vars
  <2> QED  BY <2>1 DEF IInv, Shapes
<1>3. Tables' /\ RowsStay
  BY <1>1, TablesFrame DEF AccountsInv, Books
<1>4. \A q \in Request : Aside(q)
  BY <1>1 DEF Aside
<1> QED  BY <1>1, <1>2, <1>3, <1>4, AccountsFrame

\* Every step keeps the accounts in order.
LEMMA NextAccounts == IInv /\ IInv' /\ AccountsInv /\ [Next]_vars => AccountsInv'
<1> SUFFICES ASSUME IInv, IInv', AccountsInv, [Next]_vars PROVE AccountsInv'
  OBVIOUS
<1>1. ASSUME NEW r \in Request, SignupBody(r) \/ GoogleAnswers(r) PROVE AccountsInv'
  BY <1>1, BodyAccounts, GoogleAccounts
<1>2. ASSUME NEW r \in Request, NEW ok \in BOOLEAN,
             \/ Register(r, ok) \/ Record(r, ok) \/ Adopt(r, ok)
             \/ CheckNonce(r, ok) \/ MarkNonce(r, ok) \/ MarkToken(r, ok)
      PROVE  AccountsInv'
  BY <1>2, RegisterAccounts, RecordAccounts, AdoptAccounts, CallAccounts
<1>3. ASSUME NEW r \in Request, NEW p \in Proc, NEW ok \in BOOLEAN,
             Signup(r, p, ok) \/ \E s \in State : Callback(r, p, s, ok)
      PROVE  AccountsInv'
  BY <1>3, SignupAccounts, CallbackAccounts
<1>4. ASSUME NEW p \in Proc,
             \/ RegisterClient(p) \/ \E k \in Id : Authorize(p, k)
             \/ \E c \in codes[p], fits \in BOOLEAN, ok \in BOOLEAN : Redeem(p, c, fits, ok)
             \/ \E ok \in BOOLEAN : ClientToken(p, ok) \/ \E k \in Id : UpgradeKey(p, k, ok)
      PROVE  AccountsInv'
  BY <1>4, OauthAccounts
<1> QED  BY <1>1, <1>2, <1>3, <1>4, RestartAccounts, QuietAccounts DEF Next

\* Accounts, keys and the limit are in order in every state.
LEMMA AlwaysAccounts == Spec => []AccountsInv
BY InitIInv, NextIInv, InitAccounts, NextAccounts, PTL DEF Spec

\* An address has one account, and an account has its key on disk, for any
\* processes and requests, unless SQLite failed or two processes looked the
\* address up before either inserted (handle_signup, handle_google_callback).
THEOREM AccountsAreSingle == Spec => []OneAccount
<1>1. AccountsInv => OneAccount
  <2> SUFFICES ASSUME AccountsInv, NEW i \in DOMAIN accounts
               PROVE  /\ \/ <<"email", accounts[i].email>> \in excused
                         \/ \A j \in DOMAIN accounts : accounts[j].email = accounts[i].email => j = i
                      /\ row[accounts[i].id] # NoKey \/ <<"key", accounts[i].id>> \in excused
    BY DEF OneAccount
  <2>1. accounts[i].email \in Email
    BY Entries DEF AccountsInv, Books
  <2>2. Sole(accounts[i].email)
    BY <2>1 DEF AccountsInv
  <2>3. IsSaved(accounts[i].id)
    BY DEF AccountsInv, Saved
  <2> QED  BY <2>2, <2>3 DEF Sole, IsSaved
<1> QED  BY <1>1, AlwaysAccounts, PTL

\* The sign-ups of a window pass the limit by no more than those in flight when
\* it is reached, in all processes together and over their restarts, if the
\* rows could be counted (check_signup_rate_limit before the body is awaited).
THEOREM SignupsAreLimited == Spec => []SignupsBounded
<1>1. AccountsInv => SignupsBounded
  <2> SUFFICES ASSUME AccountsInv, <<"limit">> \notin excused
               PROVE  Cardinality(Counted) < Limit + Cardinality(Request)
    BY DEF SignupsBounded, Counted
  <2>1. Counted \in SUBSET DOMAIN accounts /\ Coming \in SUBSET Request
    BY DEF Counted, Coming
  <2>2. Cardinality(Counted) \in Nat /\ Cardinality(Coming) \in Nat /\ Cardinality(Request) \in Nat
    BY <2>1, Finite DEF AccountsInv, Books
  <2>3. Limit \in Nat
    BY AccountsAssumption DEF AccountsAssumption
  <2> QED  BY <2>2, <2>3 DEF AccountsInv, Limited
<1> QED  BY <1>1, AlwaysAccounts, PTL
=============================================================================
