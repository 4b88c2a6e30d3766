-------------------------------- MODULE Cabal --------------------------------
(***************************************************************************)
(* The CABAL: server/src (routes/cabal.ts, lib/verify.ts, lib/executor.ts, *)
(* config.ts) and the pages that drive it, cabal's Admin.tsx and the       *)
(* export of OfflineSigner.tsx, over the contracts (Submission).           *)
(*                                                                         *)
(* An operator executes a step with the connected wallet, the deployer's,  *)
(* or proposes it; a proposal that the quorum signs (ThresholdSigning) is  *)
(* posted to the server, which rebuilds the message, verifies it and sends *)
(* the transaction from its own wallet.  Requests overlap wherever the     *)
(* server awaits; an answer may be lost, the page reloaded, the server     *)
(* restarted.                                                              *)
(*                                                                         *)
(* What an operator types as an amount is given in base units: 1/SCALE     *)
(* token each.  Its digits are whole tokens, "1.5" has no digits-only      *)
(* form, and parseAmount multiplies by SCALE.                              *)
(***************************************************************************)
EXTENDS Submission, FiniteSets, TLC

CONSTANTS
  Pages,        \* open admin pages
  Wallets,      \* ECDSA keys ECPairSigner.makeRandom can give, as addresses
  None,
  DirectSteps,  \* steps executed with the connected wallet
  SignedSteps,  \* steps proposed or signed offline
  Typed,        \* step -> what may be typed as its amount, in base units
  Targets,      \* contracts named in a step whose target is a parameter
  SCALE,        \* base units per token: 1e8
  MaxJobs, MaxRestarts, MaxStarts  \* bounds of the model

ASSUME CabalAssumption ==
  /\ Wallets \subseteq Accounts \ {Deployer}
  /\ None \notin Wallets
  /\ SCALE \in Nat \ {0}
  /\ Targets \subseteq {"OD", "ORC", "Reserve"}

VARIABLES
  key,         \* config.ecdsaPrivateKey
  env,         \* the last ECDSA_PRIVATE_KEY line of .env
  generating,  \* pages whose /generate-wallet has passed its check
  made,        \* keys generated so far (history)
  jobs,        \* /submit requests on their way or being executed
  shown,       \* page -> wallet address on it
  proposal,    \* page -> thresholdStep with thresholdMessage
  imported,    \* page -> importedSig
  file,        \* the last signature file an offline signer exported
  signed,      \* proposals whose message the quorum signed (history)
  restarts,
  starts       \* steps executed, proposed or exported, to bound them

walletVars == <<key, env, generating, made>>
pageVars == <<shown, proposal, imported, file, signed>>
cabalVars == <<submissionVars, walletVars, jobs, pageVars, restarts, starts>>

Starts == starts < MaxStarts /\ starts' = starts + 1

-----------------------------------------------------------------------------
(* Steps. *)

Step(method, contract, phases) ==
  [method |-> method, contract |-> contract, phases |-> phases]

\* Of a step whose target is a parameter.
Dynamic == "dynamic"

STEPS == [s \in (0..13) \ {8, 12} |->
  CASE s = 0 -> Step("setReserve", "OD", {SEEDING})
    [] s = 1 -> Step("setReserve", "ORC", {SEEDING})
    [] s = 2 -> Step("increaseAllowance", "WBTC", {SEEDING})
    [] s = 3 -> Step("mintORC", "Reserve", {SEEDING})
    [] s = 4 -> Step("advancePhase", "Reserve", {SEEDING})
    [] s = 5 -> Step("premintOD", "Reserve", {PREMINT})
    [] s = 6 -> Step("approveRouter", "OD", {PREMINT})
    [] s = 7 -> Step("approveRouter", "WBTC", {PREMINT})
    [] s = 9 -> Step("initPool", "Reserve", {PREMINT})
    [] s = 10 -> Step("updateTwapSnapshot", "Reserve", {PREMINT})
    [] s = 11 -> Step("advancePhase", "Reserve", {PREMINT})
    [] s = 13 -> Step("transferOwnership", Dynamic, {SEEDING, PREMINT, LIVE})]

ASSUME StepsAssumption == DirectSteps \cup SignedSteps \subseteq DOMAIN STEPS

AmountSteps == {2, 3, 5, 6, 7}

\* What the fields of a step may hold: a target, and an amount or address.
Inputs(s) ==
  IF s \in AmountSteps \cup {4} THEN {STEPS[s].contract} \X Typed[s]
  ELSE IF s \in {0, 1} THEN {STEPS[s].contract} \X {Reserve}
  ELSE IF s = 9 THEN {STEPS[s].contract} \X Pools
  ELSE IF s = 13 THEN Targets \X ({shown[p] : p \in Pages} \ {None})
  ELSE {STEPS[s].contract} \X {0}

NotDigits == -1
Text(typed) == IF typed % SCALE = 0 THEN typed \div SCALE ELSE NotDigits
WholeTokens(typed) == (typed \div SCALE) * SCALE

\* executeStep of Admin.tsx; step 11 passes 0n.
DirectArg(s, typed) == IF s = 4 THEN WholeTokens(typed) ELSE typed

\* handleThresholdPropose, handleBuildMessage, handleRelayCreate.
ProposedArg(s, typed) ==
  IF s = 4 THEN WholeTokens(typed)
  ELSE IF s \in AmountSteps THEN Text(typed) ELSE typed

\* handleSignatureReady of Admin.tsx.
SubmittedArg(s, typed) ==
  IF s \in AmountSteps \cup {4} THEN Text(typed) ELSE typed

\* buildStepMessage: the parameters are not part of what is hashed.
Message(s, on) == [step |-> s, on |-> on]

Request(s, on, arg, message) ==
  [step |-> s, on |-> on, arg |-> arg, message |-> message]

\* getStepContract.
StepContract(req) ==
  IF STEPS[req.step].contract = Dynamic THEN req.on ELSE STEPS[req.step].contract

StepTx(s, on, arg) == Tx(STEPS[s].method, on, arg)

-----------------------------------------------------------------------------
CabalInit ==
  /\ SubmissionInit
  /\ key = None /\ env = None
  /\ generating = {} /\ made = {}
  /\ jobs = {}
  /\ shown = [p \in Pages |-> None]
  /\ proposal = [p \in Pages |-> None]
  /\ imported = [p \in Pages |-> None]
  /\ file = None
  /\ signed = {}
  /\ restarts = 0 /\ starts = 0

-----------------------------------------------------------------------------
(* The server's wallet. *)

\* The check of /generate-wallet, before its imports are awaited; a page
\* offers it while it knows of no wallet.
Generate(p) ==
  /\ shown[p] = None /\ p \notin generating
  /\ key = None
  /\ generating' = generating \cup {p}
  /\ UNCHANGED <<submissionVars, key, env, made, jobs, pageVars, restarts, starts>>

(* Mutant of Keep: the file is left alone. *)
KeepInMemory(k) == key' = k /\ UNCHANGED env

\* appendFileSync and the assignment that follows it.
Keep(k) == env' = k /\ key' = k

\* The rest of the handler; the answer may be lost.
GenerateDone(p, k) ==
  /\ p \in generating
  /\ k \notin made
  /\ Keep(k)
  /\ made' = made \cup {k}
  /\ generating' = generating \ {p}
  /\ shown' \in {shown, [shown EXCEPT ![p] = k]}
  /\ UNCHANGED <<submissionVars, jobs, proposal, imported, file, signed, restarts, starts>>

\* loadConfig reads .env again; every request fails.
Restart ==
  /\ restarts < MaxRestarts
  /\ restarts' = restarts + 1
  /\ key' = env
  /\ generating' = {}
  /\ jobs' = {}
  /\ UNCHANGED <<submissionVars, env, made, pageVars, starts>>

-----------------------------------------------------------------------------
(* Pages. *)

Submitting(p) == \E job \in jobs : job.page = p

\* A page is loaded again and asks for /wallet-status; a request it had
\* posted goes on without it.
Load(p) ==
  /\ shown' = [shown EXCEPT ![p] = key]
  /\ proposal' = [proposal EXCEPT ![p] = None]
  /\ imported' = [imported EXCEPT ![p] = None]
  /\ generating' = generating \ {p}
  /\ jobs' = {IF job.page = p THEN [job EXCEPT !.page = None] ELSE job : job \in jobs}
  /\ UNCHANGED <<submissionVars, key, env, made, file, signed, restarts, starts>>

\* "Execute Step": with the connected wallet.
Execute(s, on, typed) ==
  /\ phase \in STEPS[s].phases
  /\ Simulates(Deployer, StepTx(s, on, DirectArg(s, typed)))
  /\ Broadcast(Deployer, StepTx(s, on, DirectArg(s, typed)))
  /\ Starts
  /\ UNCHANGED <<vars, marketVars, walletVars, jobs, pageVars, restarts>>

\* "Propose Step".
Propose(p, s, on, typed) ==
  /\ phase \in STEPS[s].phases
  /\ proposal[p] = None /\ ~Submitting(p)
  /\ proposal' = [proposal EXCEPT ![p] = Request(s, on, ProposedArg(s, typed), Message(s, on))]
  /\ Starts
  /\ UNCHANGED <<submissionVars, walletVars, jobs, shown, imported, file, signed, restarts>>

CancelProposal(p) ==
  /\ proposal[p] # None
  /\ proposal' = [proposal EXCEPT ![p] = None]
  /\ UNCHANGED <<submissionVars, walletVars, jobs, shown, imported, file, signed, restarts, starts>>

Post(p, req, isImport) ==
  /\ Cardinality(jobs) < MaxJobs
  /\ jobs' = jobs \cup {[page |-> p, req |-> req, isImport |-> isImport, from |-> None]}

\* The quorum has signed the proposal's message; the parameters that are
\* posted with it are what the fields hold by now.
SignatureReady(p, on, typed) ==
  /\ proposal[p] # None
  /\ LET built == proposal[p]
     IN /\ signed' = signed \cup {built}
        /\ Post(p, Request(built.step, on, SubmittedArg(built.step, typed), built.message), FALSE)
  /\ proposal' = [proposal EXCEPT ![p] = None]
  /\ UNCHANGED <<submissionVars, walletVars, shown, imported, file, restarts, starts>>

\* An offline signer exports what its quorum signed, in any phase.
Export(s, on, typed) ==
  /\ file' = Request(s, on, ProposedArg(s, typed), Message(s, on))
  /\ file' # file
  /\ signed' = signed \cup {file'}
  /\ Starts
  /\ UNCHANGED <<submissionVars, walletVars, jobs, shown, proposal, imported, restarts>>

Import(p) ==
  /\ file # None /\ imported[p] # file
  /\ proposal[p] = None
  /\ imported' = [imported EXCEPT ![p] = file]
  /\ UNCHANGED <<submissionVars, walletVars, jobs, shown, proposal, file, signed, restarts, starts>>

CancelImported(p) ==
  /\ imported[p] # None
  /\ proposal[p] = None
  /\ imported' = [imported EXCEPT ![p] = None]
  /\ UNCHANGED <<submissionVars, walletVars, jobs, shown, proposal, file, signed, restarts, starts>>

\* "Submit to CABAL Server", again after an error as often as one likes.
SubmitImported(p) ==
  /\ imported[p] # None /\ ~Submitting(p)
  /\ proposal[p] = None
  /\ Post(p, imported[p], TRUE)
  /\ UNCHANGED <<submissionVars, walletVars, pageVars, restarts, starts>>

-----------------------------------------------------------------------------
(* /submit. *)

(* Mutant of Genuine: the posted hash is verified instead of the rebuilt. *)
GenuineAsPosted(req) == \E m \in signed : m.message = req.message

\* The rebuilt hash is the posted one and the quorum signed it.
Genuine(req) ==
  /\ req.message = Message(req.step, StepContract(req))
  /\ \E m \in signed : m.message = req.message

\* requireBigInt, and the checks for zero of runStep.
WellFormed(req) ==
  /\ req.arg # NotDigits
  /\ req.step \in AmountSteps => req.arg # 0

Accepted(req) == key # None /\ Genuine(req) /\ WellFormed(req)

\* From the request's arrival to the first await of executeStep.
Receive(job) ==
  /\ job \in jobs /\ job.from = None
  /\ Accepted(job.req)
  /\ jobs' = (jobs \ {job}) \cup {[job EXCEPT !.from = key]}
  /\ UNCHANGED <<submissionVars, walletVars, pageVars, restarts, starts>>

Refuse(job) ==
  /\ job \in jobs /\ job.from = None
  /\ ~Accepted(job.req)
  /\ jobs' = jobs \ {job}
  /\ UNCHANGED <<submissionVars, walletVars, pageVars, restarts, starts>>

JobTx(job) == StepTx(job.req.step, StepContract(job.req), job.req.arg)

\* The page gets the answer, or the connection is lost.
Answer(job) ==
  \/ UNCHANGED imported
  \/ /\ job.isImport /\ job.page # None
     /\ imported' = [imported EXCEPT ![job.page] = None]

\* simulate, sendTransaction and the answer.
Perform(job) ==
  /\ job \in jobs /\ job.from # None
  /\ Simulates(job.from, JobTx(job))
  /\ Broadcast(job.from, JobTx(job))
  /\ jobs' = jobs \ {job}
  /\ Answer(job)
  /\ UNCHANGED <<vars, marketVars, walletVars, shown, proposal, file, signed, restarts, starts>>

\* The simulation reverts, or the node does not answer.
Fail(job) ==
  /\ job \in jobs /\ job.from # None
  /\ jobs' = jobs \ {job}
  /\ UNCHANGED <<submissionVars, walletVars, pageVars, restarts, starts>>

-----------------------------------------------------------------------------
Chain(from) ==
  /\ Include(from)
  /\ UNCHANGED <<walletVars, jobs, pageVars, restarts, starts>>

Server ==
  \/ Restart
  \/ \E job \in jobs : Receive(job) \/ Refuse(job) \/ Perform(job) \/ Fail(job)
  \/ \E p \in Pages, k \in Wallets : GenerateDone(p, k)

Page(p) ==
  \/ Load(p) \/ Generate(p) \/ CancelProposal(p)
  \/ Import(p) \/ CancelImported(p) \/ SubmitImported(p)
  \/ \E s \in SignedSteps : \E i \in Inputs(s) : Propose(p, s, i[1], i[2])
  \/ /\ proposal[p] # None
     /\ \E i \in Inputs(proposal[p].step) : SignatureReady(p, i[1], i[2])

Operators ==
  \/ \E s \in DirectSteps : \E i \in Inputs(s) : Execute(s, i[1], i[2])
  \/ \E s \in SignedSteps : \E i \in Inputs(s) : Export(s, i[1], i[2])

CabalNext ==
  \/ Server
  \/ \E p \in Pages : Page(p)
  \/ Operators
  \/ \E from \in Accounts : Chain(from)

CabalSpec == CabalInit /\ [][CabalNext]_cabalVars

-----------------------------------------------------------------------------
(* Ownership that was handed to the wallet shown on a page is not lost: an *)
(* owner is the deployer or the wallet that the server signs with, after   *)
(* restarts and lost answers too, as long as two requests to generate it   *)
(* did not overlap (the check and the write are separated by an await).    *)
OwnersCanSign ==
  \/ Cardinality(made) > 1
  \/ {owner, odOwner, orcOwner} \subseteq {Deployer, key}

(* A transaction of a server's wallet is a step, on a contract, that a     *)
(* quorum has signed for: not one whose target field was edited while the  *)
(* signature was being made.                                               *)
ExecutedWasSigned ==
  \A w \in Wallets : \A i \in 1..Len(mempool[w]) :
    \E m \in signed :
      /\ STEPS[m.step].method = mempool[w][i].method
      /\ m.on = mempool[w][i].on

(* Admin.tsx:500 "Build step params (same as handleThresholdPropose)":     *)
(* the server sends a step with the parameters of a signed proposal.       *)
ExecutedAsProposed ==
  \A w \in Wallets : \A i \in 1..Len(mempool[w]) :
    \E m \in signed : StepTx(m.step, m.on, m.arg) = mempool[w][i]
=============================================================================
