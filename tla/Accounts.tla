------------------------------ MODULE Accounts ------------------------------
(***************************************************************************)
(* Accounts and how one gets into them (server/gateway.py): POST           *)
(* /v1/signup, the sign-in with Google, the OAuth endpoints for MCP        *)
(* clients and the upgrade of a workspace.                                 *)
(*                                                                         *)
(* Gateway processes on one machine share two SQLite files, signups and    *)
(* virtual keys in one, consumed sign-in states in the other; the rest is  *)
(* in the memory of each.  Between two awaits a process serves nobody      *)
(* else, but the other one runs: each transaction is a step.  A            *)
(* transaction may fail, which the code logs and ignores.  What expires     *)
(* does so between two ticks: that the code compares here with "<", there  *)
(* with "<=" makes no difference but in that instant.                      *)
(*                                                                         *)
(* GOOGLE_OAUTH_STATES is left out, since a state found there would pass   *)
(* by its signature too, and so are entries that have expired and wait to  *)
(* be pruned.  Not covered: the administrator's key and the mode without   *)
(* authentication, scopes, payment, more than one client address.          *)
(***************************************************************************)
EXTENDS Naturals, Sequences, FiniteSets

CONSTANTS
  Proc,       \* gateway processes
  Request,    \* slots for sign-ups and sign-ins in flight
  State,      \* sign-in states, the nonce and the token of each taken as one
  Email,
  Limit,      \* SIGNUP_IP_RATE_LIMIT_PER_HOUR
  Window,     \* SIGNUP_IP_WINDOW_SECONDS
  StateLife,  \* what a sign-in state lives: 15 minutes
  CodeLife,   \* what an authorization code lives: 10 minutes
  MaxId,      \* bound: keys ever issued
  MaxCodes,   \* bound: codes a process has outstanding
  MaxOps,     \* bound: failed transactions, restarts and requests other than
              \* sign-ups, sign-ins and repeated ones, together
  MaxClock    \* bound: ticks of the clock

ASSUME AccountsAssumption ==
  /\ {Limit, StateLife} \subseteq Nat \ {0}
  /\ {Window, CodeLife, MaxId, MaxCodes, MaxOps, MaxClock} \subseteq Nat
  /\ IsFiniteSet(Request)

VARIABLES
  expiry,   \* expires_at of each sign-in state, 0 before it is minted
  used,     \* CONSUMED_OAUTH_STATES of each process
  usedDb,   \* consumed_oauth_states
  accounts, \* the signups table, oldest first
  row,      \* virtual_keys
  keys,     \* _keys of each process
  stamps,   \* _SIGNUP_IP_TIMESTAMPS of each process
  codes,    \* OAUTH_CODES of each process
  clients,  \* OAUTH_CLIENTS of each process has a client
  call,     \* each slot's request
  issued,   \* keys issued so far; they are numbered
  clock,
  ops,      \* what MaxOps bounds, so far
  accepts,  \* how often a state was accepted before it expired, up to twice
  excused   \* what a failed transaction or a race of two processes touched

vars == <<expiry, used, usedDb, accounts, row, keys, stamps, codes, clients,
          call, issued, clock, ops, accepts, excused>>
signIn == <<expiry, used, usedDb, accepts>>
ledger == <<row, keys>>
oauth == <<codes, clients>>

Id == 1..MaxId
\* An organisation is named by the key of its account; 0 is a client's own.
Org == 0..MaxId
NoKey == [org |-> 0, plan |-> "none"]
Key(org, plan) == [org |-> org, plan |-> plan]
Idle == [phase |-> "idle"]

Init ==
  /\ expiry = [s \in State |-> 0] /\ accepts = [s \in State |-> 0]
  /\ used = [p \in Proc |-> {}] /\ usedDb = {}
  /\ accounts = <<>> /\ stamps = [p \in Proc |-> <<>>]
  /\ row = [k \in Id |-> NoKey] /\ keys = [p \in Proc |-> row]
  /\ codes = [p \in Proc |-> {}] /\ clients = [p \in Proc |-> FALSE]
  /\ call = [r \in Request |-> Idle]
  /\ issued = 0 /\ clock = 0 /\ ops = 0 /\ excused = {}

----------------------------------------------------------------------------
(* Processes *)

\* The request is between two awaits.
InStep(r) == call[r].phase \in {"nonce", "marking", "marked", "register", "record", "adopt"}
LoopIsFree(p) == \A r \in Request : InStep(r) => call[r].proc # p
Goto(r, phase) == call' = [call EXCEPT ![r].phase = phase]
End(r) == call' = [call EXCEPT ![r] = Idle]
Counts(n) == ops + n <= MaxOps /\ ops' = ops + n
\* A transaction succeeds, or it fails.
Try(ok) == Counts(IF ok THEN 0 ELSE 1)
\* Unless all goes well, x is no longer promised.
Excuse(well, x) == excused' = IF well THEN excused ELSE excused \union {x}

\* register_key of the SQLite storage, and upgrade_key.
SaveKey(p, k, key, ok) ==
  /\ keys' = [keys EXCEPT ![p][k] = key]
  /\ row' = IF ok THEN [row EXCEPT ![k] = key] ELSE row

----------------------------------------------------------------------------
(* Sign-up *)

\* Mutant: accounts made by a sign-in are not looked for.
RowsOf_SignedUp(e) ==
  {i \in DOMAIN accounts : accounts[i].email = e /\ accounts[i].via = "signup"}
\* get_signup_by_email.
RowsOf(e) == {i \in DOMAIN accounts : accounts[i].email = e}
\* Mutant: the signups table is not asked.
Recent_InMemory(p, ok) ==
  Cardinality({i \in DOMAIN stamps[p] : stamps[p][i] + Window > clock})
\* check_signup_rate_limit: the larger of two counts.
Recent(p, ok) ==
  LET inMemory == {i \in DOMAIN stamps[p] : stamps[p][i] + Window > clock}
      durable == {i \in DOMAIN accounts : ok /\ accounts[i].at + Window > clock}
  IN  IF Cardinality(inMemory) > Cardinality(durable)
      THEN Cardinality(inMemory) ELSE Cardinality(durable)

\* handle_signup up to the await of the body; beyond the limit it ends here.
Signup(r, p, ok) ==
  /\ call[r] = Idle /\ LoopIsFree(p)
  /\ Recent(p, ok) < Limit
  /\ call' = [call EXCEPT ![r] = [phase |-> "body", via |-> "signup", proc |-> p]]
  /\ Try(ok) /\ Excuse(ok, <<"limit">>)
  /\ UNCHANGED <<signIn, ledger, oauth, accounts, stamps, issued, clock>>

\* Another process is about to insert a row for e.
IsRaced(r, e) ==
  \E q \in Request : /\ call[q].phase \in {"register", "record"} /\ call[q].email = e
                     /\ call[q].proc # call[r].proc
\* A new account for e: org_id and key_id are generated.
StartAccount(r, e, ok) ==
  /\ issued < MaxId /\ issued' = issued + 1
  /\ call' = [call EXCEPT ![r] = [phase |-> "register", via |-> call[r].via,
                                  proc |-> call[r].proc, email |-> e, id |-> issued + 1]]
  /\ Try(ok) /\ Excuse(ok /\ ~IsRaced(r, e), <<"email", e>>)
\* The body is no JSON, validate_signup_email refuses, or there is an account.
RefuseBody(r) == End(r) /\ UNCHANGED <<issued, ops, excused>>
\* The body is there.
SignupBody(r) ==
  /\ call[r].phase = "body" /\ LoopIsFree(call[r].proc)
  /\ \/ RefuseBody(r)
     \/ \E e \in Email, ok \in BOOLEAN :
          /\ ~ok \/ RowsOf(e) = {}
          /\ StartAccount(r, e, ok)
  /\ UNCHANGED <<signIn, ledger, oauth, accounts, stamps, clock>>

\* register_key with the constants of the free tier.
Register(r, ok) ==
  /\ call[r].phase = "register"
  /\ SaveKey(call[r].proc, call[r].id, Key(call[r].id, "free"), ok)
  /\ Goto(r, "record") /\ Try(ok) /\ Excuse(ok, <<"key", call[r].id>>)
  /\ UNCHANGED <<signIn, oauth, accounts, stamps, issued, clock>>

\* The end of handle_google_callback: a code for the client that asked, if any.
Return(r, org) ==
  /\ End(r)
  /\ UNCHANGED clients
  /\ \/ UNCHANGED codes
     \/ LET p == call[r].proc
        IN  /\ call[r].via = "google" /\ Cardinality(codes[p]) < MaxCodes
            /\ codes' = [codes EXCEPT ![p] = @ \union {[org |-> org, exp |-> clock + CodeLife]}]

\* record_signup_rate_limit.
Stamp(p) == stamps' = [stamps EXCEPT ![p] = Append(@, clock)]
\* record_signup.
Insert(new, ok) == accounts' = IF ok THEN Append(accounts, new) ELSE accounts
Record(r, ok) ==
  LET p == call[r].proc
      new == [email |-> call[r].email, id |-> call[r].id, via |-> call[r].via, at |-> clock]
  IN  /\ call[r].phase = "record"
      /\ IF new.via = "signup" THEN Stamp(p) ELSE UNCHANGED stamps
      /\ Insert(new, ok)
      /\ Return(r, new.id) /\ Try(ok)
      /\ UNCHANGED <<signIn, ledger, issued, clock, excused>>

----------------------------------------------------------------------------
(* Sign-in with Google *)

\* generate_google_oauth_state.
Mint(s) == expiry[s] = 0 /\ expiry' = [expiry EXCEPT ![s] = clock + StateLife]
\* The signature is right and the state has not expired.
IsGenuine(s) == clock < expiry[s]
\* handle_google_login.
Login(p, s) ==
  /\ LoopIsFree(p) /\ Mint(s)
  /\ UNCHANGED <<used, usedDb, accepts, ledger, oauth, accounts, stamps, call, issued, clock,
                 ops, excused>>

Live(S) == {m \in S : expiry[m.state] > clock}
\* _is_oauth_token_consumed: in memory, or in SQLite if that can be read.
IsConsumed(p, m, ok) == m \in Live(used[p]) \/ (ok /\ m \in Live(usedDb))
\* What is found in SQLite is kept in memory.
Keep(p, m, ok) ==
  used' = IF ok /\ m \in Live(usedDb) THEN [used EXCEPT ![p] = @ \union {m}] ELSE used
\* Mutant: a consumed state is remembered in memory only.
Mark_InMemory(p, m, ok) ==
  used' = [used EXCEPT ![p] = @ \union {m}] /\ UNCHANGED usedDb
\* _mark_oauth_token_consumed.
Mark(p, m, ok) ==
  /\ used' = [used EXCEPT ![p] = @ \union {m}]
  /\ usedDb' = IF ok THEN Live(usedDb \union {m}) ELSE usedDb

\* handle_google_callback gets back a state, and verify_google_oauth_state
\* looks up its token; repeated calls with one state are legal.
Callback(r, p, s, ok) ==
  LET m == [kind |-> "token", state |-> s]
  IN  /\ call[r] = Idle /\ LoopIsFree(p)
      /\ expiry[s] # 0
      /\ Keep(p, m, ok)
      /\ IF IsConsumed(p, m, ok) \/ ~IsGenuine(s) THEN UNCHANGED call
         ELSE call' = [call EXCEPT ![r] =
                         [phase |-> "nonce", via |-> "google", proc |-> p, state |-> s]]
      /\ Try(ok) /\ Excuse(ok, <<"state", s>>)
      /\ UNCHANGED <<expiry, usedDb, accepts, ledger, oauth, accounts, stamps, issued, clock>>

CheckNonce(r, ok) ==
  LET p == call[r].proc
      m == [kind |-> "nonce", state |-> call[r].state]
  IN  /\ call[r].phase = "nonce"
      /\ Keep(p, m, ok)
      /\ IF IsConsumed(p, m, ok) THEN End(r) ELSE Goto(r, "marking")
      /\ Try(ok) /\ Excuse(ok, <<"state", m.state>>)
      /\ UNCHANGED <<expiry, usedDb, accepts, ledger, oauth, accounts, stamps, issued, clock>>

\* Another process has found the state unused as well.
IsContested(r) ==
  \E q \in Request : /\ call[q].phase = "marking" /\ call[q].state = call[r].state
                     /\ call[q].proc # call[r].proc
MarkNonce(r, ok) ==
  /\ call[r].phase = "marking"
  /\ Mark(call[r].proc, [kind |-> "nonce", state |-> call[r].state], ok)
  /\ Goto(r, "marked")
  /\ Try(ok) /\ Excuse(ok /\ ~IsContested(r), <<"state", call[r].state>>)
  /\ UNCHANGED <<expiry, accepts, ledger, oauth, accounts, stamps, issued, clock>>

\* The state is accepted; without a code from Google the handler ends here.
MarkToken(r, ok) ==
  LET s == call[r].state
  IN  /\ call[r].phase = "marked"
      /\ Mark(call[r].proc, [kind |-> "token", state |-> s], ok)
      /\ accepts' = IF clock < expiry[s] /\ accepts[s] < 2
                    THEN [accepts EXCEPT ![s] = @ + 1] ELSE accepts
      /\ End(r) \/ Goto(r, "google")
      /\ Try(ok) /\ Excuse(ok, <<"state", s>>)
      /\ UNCHANGED <<expiry, ledger, oauth, accounts, stamps, issued, clock>>

\* The last row of an e-mail.
Newest(e) == accounts[CHOOSE i \in RowsOf(e) : \A j \in RowsOf(e) : j <= i]
\* Google refuses, or does not vouch for the address; or it names e, which has
\* no account, or one whose key this process has or has not in memory.
GoogleAnswers(r) ==
  /\ call[r].phase = "google" /\ LoopIsFree(call[r].proc)
  /\ \/ End(r) /\ UNCHANGED <<oauth, issued, ops, excused>>
     \/ \E e \in Email, ok \in BOOLEAN :
          /\ ~ok \/ RowsOf(e) = {}
          /\ StartAccount(r, e, ok) /\ UNCHANGED oauth
     \/ \E e \in Email :
          /\ RowsOf(e) # {} /\ UNCHANGED <<issued, ops, excused>>
          /\ LET id == Newest(e).id
             IN  IF keys[call[r].proc][id] # NoKey THEN Return(r, id)
                 ELSE /\ call' = [call EXCEPT ![r] = [phase |-> "adopt", via |-> "google",
                                                      proc |-> call[r].proc, id |-> id]]
                      /\ UNCHANGED oauth
  /\ UNCHANGED <<signIn, ledger, accounts, stamps, clock>>

\* The key of an account this process does not know is registered anew, with
\* the constants of the free tier.
Adopt(r, ok) ==
  /\ call[r].phase = "adopt"
  /\ SaveKey(call[r].proc, call[r].id, Key(call[r].id, "free"), ok)
  /\ Return(r, call[r].id) /\ Try(ok)
  /\ UNCHANGED <<signIn, accounts, stamps, issued, clock, excused>>

----------------------------------------------------------------------------
(* OAuth for MCP clients, upgrades *)

\* handle_oauth_register.
RegisterClient(p) ==
  /\ LoopIsFree(p) /\ Counts(1) /\ clients' = [clients EXCEPT ![p] = TRUE]
  /\ UNCHANGED <<signIn, ledger, codes, accounts, stamps, call, issued, clock, excused>>

Known(p) == {k \in Id : keys[p][k] # NoKey}
\* handle_oauth_authorize with a virtual key.
Authorize(p, k) ==
  /\ LoopIsFree(p) /\ Counts(1) /\ k \in Known(p) /\ Cardinality(codes[p]) < MaxCodes
  /\ codes' = [codes EXCEPT ![p] =
                 @ \union {[org |-> keys[p][k].org, exp |-> clock + CodeLife]}]
  /\ UNCHANGED <<signIn, ledger, clients, accounts, stamps, call, issued, clock, excused>>

\* An access token, which is a virtual key with register_key's default plan
\* and no expiry.
Issue(p, org, ok) ==
  /\ issued < MaxId /\ issued' = issued + 1
  /\ SaveKey(p, issued + 1, Key(org, "token"), ok)
\* The code has not expired; client, address and verifier are those it is for.
IsGood(c, fits) == fits /\ clock < c.exp
\* handle_oauth_token for a code, which is gone whatever the checks say.
Redeem(p, c, fits, ok) ==
  /\ LoopIsFree(p) /\ Counts(1) /\ c \in codes[p]
  /\ codes' = [codes EXCEPT ![p] = @ \ {c}]
  /\ IF IsGood(c, fits) THEN Issue(p, c.org, ok) ELSE UNCHANGED <<ledger, issued>>
  /\ UNCHANGED <<signIn, clients, accounts, stamps, call, clock, excused>>

\* handle_oauth_token for a client's secret, or a virtual key as secret.
ClientToken(p, ok) ==
  /\ LoopIsFree(p) /\ Counts(1)
  /\ \E org \in {keys[p][k].org : k \in Known(p)} \union {o \in {0} : clients[p]} : Issue(p, org, ok)
  /\ UNCHANGED <<signIn, oauth, accounts, stamps, call, clock, excused>>

\* handle_workspace_upgrade.
UpgradeKey(p, k, ok) ==
  /\ LoopIsFree(p) /\ Counts(1) /\ k \in Known(p)
  /\ SaveKey(p, k, [keys[p][k] EXCEPT !.plan = "paid"], ok)
  /\ UNCHANGED <<signIn, oauth, accounts, stamps, call, issued, clock, excused>>

----------------------------------------------------------------------------
\* load_virtual_keys: what cannot be read is taken for an empty table.
Load(p, ok) == keys' = [keys EXCEPT ![p] = IF ok THEN row ELSE [k \in Id |-> NoKey]]
\* A process dies and starts again.
Restart(p) ==
  /\ Counts(1)
  /\ call' = [r \in Request |-> IF call[r] # Idle /\ call[r].proc = p THEN Idle ELSE call[r]]
  /\ used' = [used EXCEPT ![p] = {}] /\ stamps' = [stamps EXCEPT ![p] = <<>>]
  /\ \E ok \in BOOLEAN : Load(p, ok)
  /\ codes' = [codes EXCEPT ![p] = {}] /\ clients' = [clients EXCEPT ![p] = FALSE]
  /\ UNCHANGED <<expiry, usedDb, accepts, row, accounts, issued, clock, excused>>

Tick ==
  /\ clock < MaxClock /\ clock' = clock + 1
  /\ UNCHANGED <<signIn, ledger, oauth, accounts, stamps, call, issued, ops, excused>>

Next ==
  \/ \E r \in Request : SignupBody(r) \/ GoogleAnswers(r)
  \/ \E r \in Request, ok \in BOOLEAN :
       \/ Register(r, ok) \/ Record(r, ok) \/ Adopt(r, ok)
       \/ CheckNonce(r, ok) \/ MarkNonce(r, ok) \/ MarkToken(r, ok)
  \/ \E r \in Request, p \in Proc, ok \in BOOLEAN :
       Signup(r, p, ok) \/ \E s \in State : Callback(r, p, s, ok)
  \/ \E p \in Proc :
       \/ RegisterClient(p) \/ Restart(p)
       \/ \E s \in State : Login(p, s)
       \/ \E k \in Id : Authorize(p, k)
       \/ \E c \in codes[p], fits \in BOOLEAN, ok \in BOOLEAN : Redeem(p, c, fits, ok)
       \/ \E ok \in BOOLEAN : ClientToken(p, ok) \/ \E k \in Id : UpgradeKey(p, k, ok)
  \/ Tick

Spec == Init /\ [][Next]_vars

----------------------------------------------------------------------------
(* Properties *)

\* "Enforces strict single-use replay protection across all paths (in-memory,
\* multi-worker, and post-restart ...)": before it expires a state is accepted
\* once, whichever processes it comes back to and however often they restart.
\* Excused are the states for which SQLite failed, and those two processes
\* look up before either marks them.
StateUsedOnce ==
  \A s \in State : accepts[s] <= 1 \/ <<"state", s>> \in excused

\* However sign-ups and sign-ins overlap, fail and restart, an e-mail address
\* has one account and an account has its key on disk.  Excused are addresses
\* that two processes look up before either inserts, or could not look up, and
\* keys that could not be saved.
OneAccount ==
  \A i \in DOMAIN accounts :
    /\ \/ <<"email", accounts[i].email>> \in excused
       \/ \A j \in DOMAIN accounts : accounts[j].email = accounts[i].email => j = i
    /\ row[accounts[i].id] # NoKey \/ <<"key", accounts[i].id>> \in excused

\* check_signup_rate_limit runs before the body has arrived: the rows of a
\* window exceed the limit, but by no more than the sign-ups then in flight,
\* over restarts and in all processes together, if the rows could be counted.
SignupsBounded ==
  \/ <<"limit">> \in excused
  \/ Cardinality({i \in DOMAIN accounts : /\ accounts[i].via = "signup"
                                          /\ accounts[i].at + Window > clock})
       < Limit + Cardinality(Request)
=============================================================================
