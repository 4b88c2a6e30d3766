----------------------------- MODULE Cabal_proofs -----------------------------
(***************************************************************************)
(* Theorems about Cabal, for any pages, wallets, steps and inputs: what    *)
(* the server's wallet sends, a quorum has signed for; ownership is not    *)
(* lost.                                                                   *)
(*                                                                         *)
(* Between a signature and the transaction lie the page (a proposal, an    *)
(* imported file), a request, and a job that has passed the checks.  The   *)
(* invariant follows the message along that way: what was signed says its  *)
(* own step and contract, and a job that is being executed is genuine, as  *)
(* nothing takes a signature back.                                         *)
(***************************************************************************)
EXTENDS Cabal, FiniteSetTheorems, TLAPS

\* Each sender's transactions are a sequence, of whatever transactions.
Queued == \E S : mempool \in [Accounts -> Seq(S)]

SaysItself(m) == m.message = Message(m.step, m.on)

ProposalsSay == \A p \in Pages : proposal[p] # None => SaysItself(proposal[p])

SignedSay == \A m \in signed : SaysItself(m)

JobsGenuine ==
  \A job \in jobs :
    /\ DOMAIN job = {"page", "req", "isImport", "from"}
    /\ job.from # None => Genuine(job.req)

Pageful == DOMAIN proposal = Pages

SubmitInv ==
  Queued /\ Pageful /\ ProposalsSay /\ SignedSay /\ JobsGenuine /\ ExecutedWasSigned

-----------------------------------------------------------------------------
LEMMA InitSubmitInv == CabalInit => SubmitInv
<1> SUFFICES ASSUME CabalInit PROVE SubmitInv
  OBVIOUS
<1>1. mempool = [a \in Accounts |-> <<>>]
  BY DEF CabalInit, SubmissionInit
<1>2. Queued
  <2>1. mempool \in [Accounts -> Seq({})]
    BY <1>1
  <2> QED
    BY <2>1 DEF Queued
<1>3. ExecutedWasSigned
  BY <1>1, CabalAssumption DEF ExecutedWasSigned
<1>4. Pageful /\ ProposalsSay /\ SignedSay /\ JobsGenuine
  BY DEF CabalInit, Pageful, ProposalsSay, SignedSay, JobsGenuine
<1> QED
  BY <1>2, <1>3, <1>4 DEF SubmitInv

\* Signatures only accumulate, so that what was genuine stays so.
LEMMA GenuineStays ==
  ASSUME NEW req, Genuine(req), signed \subseteq signed'
  PROVE  Genuine(req)'
  BY DEF Genuine, Message, StepContract

\* Steps of the operators' pages and of the server that send nothing.
LEMMA NothingSent ==
  ASSUME SubmitInv, UNCHANGED mempool, signed \subseteq signed',
         Pageful', ProposalsSay', SignedSay', JobsGenuine'
  PROVE  SubmitInv'
<1>1. Queued'
  BY DEF SubmitInv, Queued
<1>2. ExecutedWasSigned'
  BY DEF SubmitInv, ExecutedWasSigned
<1> QED
  BY <1>1, <1>2 DEF SubmitInv

\* A transaction is broadcast: from a wallet, only one that was signed for.
LEMMA Sending ==
  ASSUME SubmitInv, NEW from, NEW tx, Broadcast(from, tx), signed \subseteq signed',
         from \in Wallets => \E m \in signed' :
           STEPS[m.step].method = tx.method /\ m.on = tx.on
  PROVE  Queued' /\ ExecutedWasSigned'
<1>1. PICK S : mempool \in [Accounts -> Seq(S)]
  BY DEF SubmitInv, Queued
<1>2. mempool' = [mempool EXCEPT ![from] = Append(@, tx)]
  BY DEF Broadcast
<1>3. Queued'
  <2>1. mempool \in [Accounts -> Seq(S \cup {tx})]
    BY <1>1
  <2>2. ASSUME NEW a \in Accounts PROVE mempool'[a] \in Seq(S \cup {tx})
    <3>1. mempool[a] \in Seq(S \cup {tx}) /\ tx \in S \cup {tx}
      BY <2>1
    <3>2. Append(mempool[a], tx) \in Seq(S \cup {tx})
      BY <3>1
    <3>3. mempool'[a] = mempool[a] \/ mempool'[a] = Append(mempool[a], tx)
      BY <2>1, <1>2
    <3> QED
      BY <3>1, <3>2, <3>3
  <2>3. mempool' \in [Accounts -> Seq(S \cup {tx})]
    BY <2>1, <2>2, <1>2
  <2> QED
    BY <2>3 DEF Queued
<1>4. ASSUME NEW w \in Wallets, NEW i \in 1 .. Len(mempool'[w])
      PROVE  \E m \in signed' :
               STEPS[m.step].method = mempool'[w][i].method /\ m.on = mempool'[w][i].on
  <2>1. mempool[w] \in Seq(S) /\ w \in Accounts
    BY <1>1, CabalAssumption
  <2>2. CASE i \in 1 .. Len(mempool[w]) /\ mempool'[w][i] = mempool[w][i]
    BY <2>2 DEF SubmitInv, ExecutedWasSigned
  <2>3. CASE w = from /\ mempool'[w][i] = tx
    BY <2>3
  <2> QED
    BY <2>1, <2>2, <2>3, <1>1, <1>2
<1> QED
  BY <1>3, <1>4 DEF ExecutedWasSigned

\* A transaction is included: what a wallet still waits for is what it did.
LEMMA Including ==
  ASSUME SubmitInv, NEW from, Include(from), UNCHANGED signed
  PROVE  Queued' /\ ExecutedWasSigned'
<1>1. PICK S : mempool \in [Accounts -> Seq(S)]
  BY DEF SubmitInv, Queued
<1>2. /\ mempool[from] # <<>>
      /\ mempool' = [mempool EXCEPT ![from] = Tail(@)]
  BY DEF Include
<1>3. mempool' \in [Accounts -> Seq(S)]
  <2>1. ASSUME NEW a \in Accounts PROVE mempool'[a] \in Seq(S)
    <3>1. mempool[a] \in Seq(S)
      BY <1>1
    <3>2. mempool[a] # <<>> => Tail(mempool[a]) \in Seq(S)
      BY <3>1
    <3>3. \/ mempool'[a] = mempool[a]
          \/ mempool[a] # <<>> /\ mempool'[a] = Tail(mempool[a])
      BY <1>1, <1>2
    <3> QED
      BY <3>1, <3>2, <3>3
  <2> QED
    BY <2>1, <1>1, <1>2
<1>4. ASSUME NEW w \in Wallets, NEW i \in 1 .. Len(mempool'[w])
      PROVE  \E j \in 1 .. Len(mempool[w]) : mempool'[w][i] = mempool[w][j]
  <2>1. mempool[w] \in Seq(S) /\ w \in Accounts
    BY <1>1, CabalAssumption
  <2>2. CASE w = from
    <3>1. mempool'[w] = Tail(mempool[w]) /\ mempool[w] # <<>>
      BY <2>1, <2>2, <1>1, <1>2
    <3>2. i + 1 \in 1 .. Len(mempool[w]) /\ mempool'[w][i] = mempool[w][i + 1]
      BY <2>1, <3>1
    <3> QED
      BY <3>2
  <2>3. CASE w # from
    BY <2>3, <1>1, <1>2
  <2> QED
    BY <2>2, <2>3
<1>5. ExecutedWasSigned'
  BY <1>4 DEF SubmitInv, ExecutedWasSigned
<1> QED
  BY <1>3, <1>5 DEF Queued

-----------------------------------------------------------------------------
\* A job that enters, or goes on, without having passed the checks.
LEMMA PageStep ==
  ASSUME SubmitInv, NEW p \in Pages, Page(p)
  PROVE  SubmitInv'
<1> USE DEF submissionVars, walletVars, pageVars
<1>1. CASE Load(p)
  <2>1. /\ UNCHANGED <<mempool, signed>>
        /\ proposal' = [proposal EXCEPT ![p] = None]
        /\ jobs' = {IF job.page = p THEN [job EXCEPT !.page = None] ELSE job : job \in jobs}
    BY <1>1 DEF Load
  <2>2. Pageful' /\ ProposalsSay' /\ SignedSay'
    BY <2>1 DEF SubmitInv, Pageful, ProposalsSay, SignedSay, SaysItself, Message
  <2>3. JobsGenuine'
    <3> SUFFICES ASSUME NEW job \in jobs,
                        NEW new, new = IF job.page = p THEN [job EXCEPT !.page = None] ELSE job
                 PROVE  /\ DOMAIN new = {"page", "req", "isImport", "from"}
                        /\ new.from # None => Genuine(new.req)'
      BY <2>1 DEF JobsGenuine
    <3>1. DOMAIN job = {"page", "req", "isImport", "from"}
      BY DEF SubmitInv, JobsGenuine
    <3>2. DOMAIN new = DOMAIN job /\ new.from = job.from /\ new.req = job.req
      BY <3>1
    <3>3. job.from # None => Genuine(job.req)
      BY DEF SubmitInv, JobsGenuine
    <3> QED
      BY <3>1, <3>2, <3>3, <2>1, GenuineStays
  <2> QED
    BY <2>1, <2>2, <2>3, NothingSent
<1>2. CASE Generate(p) \/ Import(p) \/ CancelImported(p)
  <2>1. UNCHANGED <<mempool, signed, jobs, proposal>>
    BY <1>2 DEF Generate, Import, CancelImported
  <2> QED
    BY <2>1, NothingSent
       DEF SubmitInv, Pageful, ProposalsSay, SignedSay, SaysItself, Message, JobsGenuine,
           Genuine, StepContract
<1>3. CASE CancelProposal(p)
  <2>1. UNCHANGED <<mempool, signed, jobs>> /\ proposal' = [proposal EXCEPT ![p] = None]
    BY <1>3 DEF CancelProposal
  <2> QED
    BY <2>1, NothingSent
       DEF SubmitInv, Pageful, ProposalsSay, SignedSay, SaysItself, Message, JobsGenuine,
           Genuine, StepContract
<1>4. ASSUME NEW s, NEW on, NEW typed, Propose(p, s, on, typed)
      PROVE  SubmitInv'
  <2>1. /\ UNCHANGED <<mempool, signed, jobs>>
        /\ proposal' = [proposal EXCEPT ![p] =
                          Request(s, on, ProposedArg(s, typed), Message(s, on))]
    BY <1>4 DEF Propose
  <2>2. Pageful' /\ ProposalsSay'
    BY <2>1 DEF SubmitInv, Pageful, ProposalsSay, SaysItself, Request, Message
  <2>3. SignedSay' /\ JobsGenuine'
    BY <2>1 DEF SubmitInv, SignedSay, SaysItself, Message, JobsGenuine, Genuine, StepContract
  <2> QED
    BY <2>1, <2>2, <2>3, NothingSent
<1>5. ASSUME NEW req, NEW isImport, Post(p, req, isImport), signed \subseteq signed'
      PROVE  JobsGenuine'
  <2> DEFINE new == [page |-> p, req |-> req, isImport |-> isImport, from |-> None]
  <2>1. jobs' = jobs \cup {new}
    BY <1>5 DEF Post
  <2>2. DOMAIN new = {"page", "req", "isImport", "from"} /\ new.from = None
    OBVIOUS
  <2>3. \A job \in jobs : job.from # None => Genuine(job.req)'
    BY <1>5, GenuineStays DEF SubmitInv, JobsGenuine
  <2> HIDE DEF new
  <2> QED
    BY <2>1, <2>2, <2>3 DEF SubmitInv, JobsGenuine
<1>6. CASE SubmitImported(p)
  <2>1. UNCHANGED <<mempool, signed, proposal>>
    BY <1>6 DEF SubmitImported
  <2>2. JobsGenuine'
    BY <1>5, <1>6, <2>1 DEF SubmitImported
  <2> QED
    BY <2>1, <2>2, NothingSent
       DEF SubmitInv, Pageful, ProposalsSay, SignedSay, SaysItself, Message
<1>7. ASSUME NEW on, NEW typed, proposal[p] # None, SignatureReady(p, on, typed)
      PROVE  SubmitInv'
  <2>1. /\ UNCHANGED mempool
        /\ signed' = signed \cup {proposal[p]}
        /\ proposal' = [proposal EXCEPT ![p] = None]
    BY <1>7 DEF SignatureReady
  <2>2. JobsGenuine'
    BY <1>5, <1>7, <2>1 DEF SignatureReady
  <2>3. SaysItself(proposal[p])
    BY <1>7 DEF SubmitInv, ProposalsSay
  <2>4. Pageful' /\ ProposalsSay' /\ SignedSay'
    BY <2>1, <2>3 DEF SubmitInv, Pageful, ProposalsSay, SignedSay, SaysItself, Message
  <2> QED
    BY <2>1, <2>2, <2>4, NothingSent
<1> QED
  BY <1>1, <1>2, <1>3, <1>4, <1>6, <1>7 DEF Page

\* The server: a job starts behind the checks, and sends what they have seen.
LEMMA ServerStep ==
  ASSUME SubmitInv, Server
  PROVE  SubmitInv'
<1> USE DEF submissionVars, walletVars, pageVars
<1> DEFINE Quiet == Pageful' /\ ProposalsSay' /\ SignedSay'
<1>1. ASSUME UNCHANGED <<proposal, signed>> PROVE Quiet
  BY <1>1 DEF SubmitInv, Pageful, ProposalsSay, SignedSay, SaysItself, Message
<1>2. ASSUME jobs' \subseteq jobs, UNCHANGED signed PROVE JobsGenuine'
  BY <1>2, GenuineStays DEF SubmitInv, JobsGenuine
<1> HIDE DEF Quiet
<1>3. CASE Restart
  <2>1. UNCHANGED <<mempool, proposal, signed>> /\ jobs' \subseteq jobs
    BY <1>3 DEF Restart
  <2> QED
    BY <2>1, <1>1, <1>2, NothingSent DEF Quiet
<1>4. ASSUME NEW p \in Pages, NEW k \in Wallets, GenerateDone(p, k)
      PROVE  SubmitInv'
  <2>1. UNCHANGED <<mempool, jobs, proposal, signed>>
    BY <1>4 DEF GenerateDone
  <2> QED
    BY <2>1, <1>1, <1>2, NothingSent DEF Quiet
<1>5. ASSUME NEW job \in jobs, Refuse(job) \/ Fail(job)
      PROVE  SubmitInv'
  <2>1. UNCHANGED <<mempool, proposal, signed>> /\ jobs' \subseteq jobs
    BY <1>5 DEF Refuse, Fail
  <2> QED
    BY <2>1, <1>1, <1>2, NothingSent DEF Quiet
<1>6. ASSUME NEW job \in jobs, Receive(job)
      PROVE  SubmitInv'
  <2> DEFINE new == [job EXCEPT !.from = key]
  <2>1. /\ UNCHANGED <<mempool, proposal, signed>>
        /\ jobs' = (jobs \ {job}) \cup {new}
        /\ Genuine(job.req)
    BY <1>6 DEF Receive, Accepted
  <2>2. DOMAIN new = {"page", "req", "isImport", "from"} /\ new.req = job.req
    BY DEF SubmitInv, JobsGenuine
  <2> HIDE DEF new
  <2>3. JobsGenuine'
    BY <2>1, <2>2, GenuineStays DEF SubmitInv, JobsGenuine
  <2> QED
    BY <2>1, <2>3, <1>1, NothingSent DEF Quiet
<1>7. ASSUME NEW job \in jobs, Perform(job)
      PROVE  SubmitInv'
  <2>1. /\ UNCHANGED <<proposal, signed>>
        /\ jobs' \subseteq jobs
        /\ Broadcast(job.from, JobTx(job))
    BY <1>7 DEF Perform
  <2>2. Genuine(job.req)
    BY <1>7 DEF Perform, SubmitInv, JobsGenuine
  <2>3. PICK m \in signed : m.message = job.req.message
    BY <2>2 DEF Genuine
  <2>4. m.message = Message(m.step, m.on)
    BY DEF SubmitInv, SignedSay, SaysItself
  <2>5. m.step = job.req.step /\ m.on = StepContract(job.req)
    BY <2>2, <2>3, <2>4 DEF Genuine, Message
  <2>6. /\ JobTx(job).method = STEPS[m.step].method
        /\ JobTx(job).on = m.on
    BY <2>5 DEF JobTx, StepTx, Tx
  <2>7. Queued' /\ ExecutedWasSigned'
    BY <2>1, <2>6, Sending
  <2> QED
    BY <2>1, <2>7, <1>1, <1>2 DEF SubmitInv, Quiet
<1> QED
  BY <1>3, <1>4, <1>5, <1>6, <1>7 DEF Server

\* Execution with the connected wallet, offline exports and the chain.
LEMMA OperatorStep ==
  ASSUME SubmitInv, Operators \/ (\E from \in Accounts : Chain(from))
  PROVE  SubmitInv'
<1> USE DEF submissionVars, walletVars, pageVars
<1>1. ASSUME UNCHANGED <<jobs, proposal, signed>>
      PROVE  Pageful' /\ ProposalsSay' /\ SignedSay' /\ JobsGenuine'
  BY <1>1 DEF SubmitInv, Pageful, ProposalsSay, SignedSay, SaysItself, Message,
              JobsGenuine, Genuine, StepContract
<1>2. ASSUME NEW s, NEW on, NEW typed, Execute(s, on, typed)
      PROVE  SubmitInv'
  <2>1. UNCHANGED <<jobs, proposal, signed>>
    BY <1>2 DEF Execute
  <2>2. Broadcast(Deployer, StepTx(s, on, DirectArg(s, typed)))
    BY <1>2 DEF Execute
  <2>3. Queued' /\ ExecutedWasSigned'
    BY <2>1, <2>2, Sending, CabalAssumption
  <2> QED
    BY <2>1, <2>3, <1>1 DEF SubmitInv
<1>3. ASSUME NEW s, NEW on, NEW typed, Export(s, on, typed)
      PROVE  SubmitInv'
  <2>1. /\ UNCHANGED <<mempool, jobs, proposal>>
        /\ signed' = signed \cup {Request(s, on, ProposedArg(s, typed), Message(s, on))}
    BY <1>3 DEF Export
  <2>2. Pageful' /\ ProposalsSay' /\ SignedSay'
    BY <2>1 DEF SubmitInv, Pageful, ProposalsSay, SignedSay, SaysItself, Request, Message
  <2>3. JobsGenuine'
    BY <2>1, GenuineStays DEF SubmitInv, JobsGenuine
  <2> QED
    BY <2>1, <2>2, <2>3, NothingSent
<1>4. ASSUME NEW from \in Accounts, Chain(from)
      PROVE  SubmitInv'
  <2>1. UNCHANGED <<jobs, proposal, signed>> /\ Include(from)
    BY <1>4 DEF Chain
  <2>2. Queued' /\ ExecutedWasSigned'
    BY <2>1, Including
  <2> QED
    BY <2>1, <2>2, <1>1 DEF SubmitInv
<1> QED
  BY <1>2, <1>3, <1>4 DEF Operators

\* Nothing happens.
LEMMA SubmitStutter ==
  ASSUME SubmitInv, UNCHANGED cabalVars
  PROVE  SubmitInv'
<1>1. UNCHANGED <<mempool, jobs, proposal, signed>>
  BY DEF cabalVars, submissionVars, pageVars
<1> QED
  BY <1>1, NothingSent
     DEF SubmitInv, Pageful, ProposalsSay, SignedSay, SaysItself, Message, JobsGenuine,
         Genuine, StepContract

(* /submit and executeStep: whatever requests overlap, are lost or are     *)
(* posted again, whichever fields are edited meanwhile, a wallet of the    *)
(* server has sent only steps that a quorum signed for, on the contract    *)
(* that was signed for.                                                    *)
THEOREM SubmittedWasSigned == CabalSpec => []ExecutedWasSigned
<1>1. CabalInit => SubmitInv
  BY InitSubmitInv
<1>2. SubmitInv /\ [CabalNext]_cabalVars => SubmitInv'
  BY PageStep, ServerStep, OperatorStep, SubmitStutter DEF CabalNext
<1>3. SubmitInv => ExecutedWasSigned
  BY DEF SubmitInv
<1> QED
  BY <1>1, <1>2, <1>3, PTL DEF CabalSpec

-----------------------------------------------------------------------------
(* What one transaction does, whatever it calls. *)

Owners == {owner, odOwner, orcOwner}

HandedOver(tx) == IF tx.method = "transferOwnership" THEN {tx.arg} ELSE {}

LEMMA StepMethods ==
  ASSUME NEW s \in DOMAIN STEPS
  PROVE  STEPS[s].method = "transferOwnership" => s = 13
  BY DEF STEPS, Step

LEMMA OwnershipMoves ==
  ASSUME NEW from, NEW tx, Call(from, tx)
  PROVE  Owners' \subseteq Owners \cup HandedOver(tx)
<1> USE DEF Owners, HandedOver, twapVars, odVars, orcVars, moneyVars, vars, oracleVars
<1>1. CASE tx.method = "setReserve" /\ LinkToken(from, tx.on)
  BY <1>1 DEF LinkToken, OD!SetReserve, ORC!SetReserve
<1>2. CASE tx.method = "transferOwnership" /\ HandOver(from, tx.on, tx.arg)
  BY <1>2 DEF HandOver, HandOverToken, TransferOwnership, OD!TransferOwnership, ORC!TransferOwnership
<1>3. CASE Seed(from, tx.arg)
  BY <1>3 DEF Seed, MintORC, ORC!Mint, ORC!adminVars
<1>4. CASE AddLiquidity(from)
  BY <1>4 DEF AddLiquidity, OD!Transfer, OD!adminVars
<1>5. CASE OwnerAdvancePhase(from, tx.arg) \/ PremintOD(from, tx.arg) \/ RegisterPool(from, tx.arg) \/ RefreshSnapshot
  BY <1>5 DEF OwnerAdvancePhase, PremintOD, RegisterPool, OwnerInitPool, RefreshSnapshot, OD!Mint, OD!adminVars
<1>6. CASE ApproveReserve(from, tx.arg) \/ ApproveRouter(from, tx.on) \/ CreatePool
  BY <1>6 DEF ApproveReserve, ApproveRouter, CreatePool
<1> QED
  BY <1>1, <1>2, <1>3, <1>4, <1>5, <1>6 DEF Call

-----------------------------------------------------------------------------
(* Ownership. *)

\* The server's wallet is the last one made, in memory as in the file.
KeyKept ==
  /\ env = key
  /\ IsFiniteSet(made)
  /\ IF made = {} THEN key = None ELSE key \in made

ShownMade == shown \in [Pages -> made \cup {None}]

\* A request is for a step, and hands ownership to a wallet that was made.
AddressMade(req) ==
  /\ req.step \in DOMAIN STEPS
  /\ req.step = 13 => req.arg \in made

ProposalsStep == \A p \in Pages : proposal[p] # None => proposal[p].step \in DOMAIN STEPS

RequestsMade ==
  /\ file # None => AddressMade(file)
  /\ DOMAIN imported = Pages
  /\ \A p \in Pages : imported[p] # None => AddressMade(imported[p])
  /\ \A job \in jobs : AddressMade(job.req)

QueueMade ==
  \A a \in Accounts : \A i \in 1..Len(mempool[a]) :
    HandedOver(mempool[a][i]) \subseteq made

OwnersMade == Owners \subseteq {Deployer} \cup made

WalletInv ==
  KeyKept /\ ShownMade /\ ProposalsStep /\ RequestsMade /\ QueueMade /\ OwnersMade

-----------------------------------------------------------------------------
\* A step that keeps the wallets, the pages' requests and the queues.
LEMMA Untouched ==
  ASSUME WalletInv, UNCHANGED <<mempool, owner, odOwner, orcOwner, made>>,
         KeyKept', ShownMade', ProposalsStep', RequestsMade'
  PROVE  WalletInv'
  BY DEF WalletInv, QueueMade, HandedOver, OwnersMade, Owners

LEMMA JobsMade ==
  ASSUME WalletInv, UNCHANGED <<file, imported, made>>,
         \A job \in jobs' : (\E old \in jobs : job.req = old.req) \/ AddressMade(job.req)
  PROVE  RequestsMade'
  BY DEF WalletInv, RequestsMade, AddressMade

\* A transaction is broadcast that hands nothing to a stranger.
LEMMA QueueGrows ==
  ASSUME SubmitInv, WalletInv, NEW from, NEW tx, Broadcast(from, tx),
         HandedOver(tx) \subseteq made, UNCHANGED made
  PROVE  QueueMade'
<1>1. PICK S : mempool \in [Accounts -> Seq(S)]
  BY DEF SubmitInv, Queued
<1>2. mempool' = [mempool EXCEPT ![from] = Append(@, tx)]
  BY DEF Broadcast
<1>3. ASSUME NEW a \in Accounts, NEW i \in 1..Len(mempool'[a])
      PROVE  HandedOver(mempool'[a][i]) \subseteq made
  <2>1. mempool[a] \in Seq(S)
    BY <1>1
  <2>2. CASE i \in 1..Len(mempool[a]) /\ mempool'[a][i] = mempool[a][i]
    BY <2>2 DEF WalletInv, QueueMade
  <2>3. CASE mempool'[a][i] = tx
    BY <2>3
  <2> QED
    BY <2>1, <2>2, <2>3, <1>1, <1>2
<1> QED
  BY <1>3 DEF QueueMade, HandedOver

\* A transaction is included: an owner is who was one, or a wallet made.
LEMMA QueueShrinks ==
  ASSUME SubmitInv, WalletInv, NEW from \in Accounts, Include(from), UNCHANGED made
  PROVE  QueueMade' /\ OwnersMade'
<1>1. PICK S : mempool \in [Accounts -> Seq(S)]
  BY DEF SubmitInv, Queued
<1>2. /\ mempool[from] # <<>>
      /\ mempool' = [mempool EXCEPT ![from] = Tail(@)]
      /\ Executed(from) \/ Reverted(from)
  BY DEF Include
<1>3. ASSUME NEW a \in Accounts, NEW i \in 1..Len(mempool'[a])
      PROVE  \E j \in 1..Len(mempool[a]) : mempool'[a][i] = mempool[a][j]
  <2>1. mempool[a] \in Seq(S)
    BY <1>1
  <2>2. CASE a = from
    <3>1. mempool'[a] = Tail(mempool[a]) /\ mempool[a] # <<>>
      BY <2>2, <1>1, <1>2
    <3>2. i + 1 \in 1..Len(mempool[a]) /\ mempool'[a][i] = mempool[a][i + 1]
      BY <2>1, <3>1
    <3> QED
      BY <3>2
  <2>3. CASE a # from
    BY <2>3, <1>1, <1>2
  <2> QED
    BY <2>2, <2>3
<1>4. QueueMade'
  <2>1. ASSUME NEW a \in Accounts, NEW i \in 1..Len(mempool'[a])
        PROVE  HandedOver(mempool'[a][i]) \subseteq made'
    <3>1. PICK j \in 1..Len(mempool[a]) : mempool'[a][i] = mempool[a][j]
      BY <1>3
    <3>2. HandedOver(mempool[a][j]) \subseteq made
      BY DEF WalletInv, QueueMade
    <3> QED
      BY <3>1, <3>2
  <2> QED
    BY <2>1 DEF QueueMade, HandedOver
<1>5. HandedOver(Head(mempool[from])) \subseteq made
  <2>1. mempool[from] \in Seq(S) /\ mempool[from] # <<>>
    BY <1>1, <1>2
  <2>2. 1 \in 1..Len(mempool[from]) /\ Head(mempool[from]) = mempool[from][1]
    BY <2>1
  <2> QED
    BY <2>2 DEF WalletInv, QueueMade
<1>6. CASE Executed(from)
  <2>1. Owners' \subseteq Owners \cup HandedOver(Head(mempool[from]))
    BY <1>6, OwnershipMoves DEF Executed
  <2> QED
    BY <2>1, <1>4, <1>5 DEF WalletInv, OwnersMade
<1>7. CASE Reverted(from)
  <2>1. UNCHANGED <<owner, odOwner, orcOwner>>
    BY <1>7 DEF Reverted, vars, moneyVars, odVars, orcVars
  <2> QED
    BY <2>1, <1>4 DEF WalletInv, OwnersMade, Owners
<1> QED
  BY <1>2, <1>6, <1>7

\* What an operator types as a new owner is shown on a page.
LEMMA TypedAddress ==
  ASSUME WalletInv, NEW s \in DOMAIN STEPS, NEW i \in Inputs(s)
  PROVE  s = 13 => /\ i[2] \in made
                   /\ DirectArg(s, i[2]) = i[2]
                   /\ ProposedArg(s, i[2]) = i[2]
                   /\ SubmittedArg(s, i[2]) = i[2]
  BY DEF WalletInv, ShownMade, Inputs, AmountSteps, DirectArg, ProposedArg, SubmittedArg

LEMMA InitWalletInv == CabalInit => WalletInv
<1> SUFFICES ASSUME CabalInit PROVE WalletInv
  OBVIOUS
<1>1. /\ mempool = [a \in Accounts |-> <<>>]
      /\ Owners = {Deployer}
  BY DEF CabalInit, SubmissionInit, Init, OD!Init, ORC!Init, Owners
<1>2. KeyKept
  BY FS_EmptySet DEF CabalInit, KeyKept
<1>3. ShownMade /\ ProposalsStep /\ RequestsMade
  BY DEF CabalInit, ShownMade, ProposalsStep, RequestsMade
<1>4. QueueMade
  BY <1>1 DEF QueueMade
<1> QED
  BY <1>1, <1>2, <1>3, <1>4 DEF WalletInv, OwnersMade

LEMMA WalletServerStep ==
  ASSUME SubmitInv, WalletInv, Server
  PROVE  WalletInv'
<1> USE DEF submissionVars, walletVars, pageVars, vars, moneyVars, odVars, orcVars
<1>1. CASE Restart
  <2>1. /\ UNCHANGED <<mempool, owner, odOwner, orcOwner, made, env, shown, proposal, imported, file>>
        /\ key' = env /\ jobs' = {}
    BY <1>1 DEF Restart
  <2>2. KeyKept' /\ ShownMade' /\ ProposalsStep'
    BY <2>1 DEF WalletInv, KeyKept, ShownMade, ProposalsStep
  <2>3. RequestsMade'
    BY <2>1, JobsMade
  <2> QED
    BY <2>1, <2>2, <2>3, Untouched
<1>2. ASSUME NEW p \in Pages, NEW k \in Wallets, GenerateDone(p, k)
      PROVE  WalletInv'
  <2>1. /\ UNCHANGED <<mempool, owner, odOwner, orcOwner, jobs, proposal, imported, file>>
        /\ env' = k /\ key' = k /\ made' = made \cup {k}
        /\ shown' \in {shown, [shown EXCEPT ![p] = k]}
    BY <1>2 DEF GenerateDone, Keep
  <2>2. KeyKept'
    BY <2>1, FS_AddElement DEF WalletInv, KeyKept
  <2>3. ShownMade' /\ ProposalsStep' /\ RequestsMade'
    BY <2>1 DEF WalletInv, ShownMade, ProposalsStep, RequestsMade, AddressMade
  <2>4. QueueMade' /\ OwnersMade'
    BY <2>1 DEF WalletInv, QueueMade, HandedOver, OwnersMade, Owners
  <2> QED
    BY <2>2, <2>3, <2>4 DEF WalletInv
<1>3. ASSUME NEW job \in jobs, Refuse(job) \/ Fail(job) \/ Receive(job)
      PROVE  WalletInv'
  <2>1. /\ UNCHANGED <<mempool, owner, odOwner, orcOwner, walletVars, shown, proposal, imported, file>>
        /\ jobs' \subseteq (jobs \ {job}) \cup {[job EXCEPT !.from = key]}
    BY <1>3 DEF Refuse, Fail, Receive
  <2>2. KeyKept' /\ ShownMade' /\ ProposalsStep'
    BY <2>1 DEF WalletInv, KeyKept, ShownMade, ProposalsStep
  <2>3. [job EXCEPT !.from = key].req = job.req
    BY DEF SubmitInv, JobsGenuine
  <2>4. RequestsMade'
    BY <2>1, <2>3, JobsMade
  <2> QED
    BY <2>1, <2>2, <2>4, Untouched
<1>4. ASSUME NEW job \in jobs, Perform(job)
      PROVE  WalletInv'
  <2>1. /\ UNCHANGED <<owner, odOwner, orcOwner, walletVars, shown, proposal, file>>
        /\ Broadcast(job.from, JobTx(job))
        /\ jobs' \subseteq jobs
        /\ imported' = imported \/ imported' = [imported EXCEPT ![job.page] = None]
    BY <1>4 DEF Perform, Answer
  <2>2. KeyKept' /\ ShownMade' /\ ProposalsStep'
    BY <2>1 DEF WalletInv, KeyKept, ShownMade, ProposalsStep
  <2>3. RequestsMade'
    BY <2>1 DEF WalletInv, RequestsMade, AddressMade
  <2>4. HandedOver(JobTx(job)) \subseteq made
    BY StepMethods DEF WalletInv, RequestsMade, AddressMade, HandedOver, JobTx, StepTx, Tx
  <2>5. QueueMade'
    BY <2>1, <2>4, QueueGrows
  <2>6. OwnersMade'
    BY <2>1 DEF WalletInv, OwnersMade, Owners
  <2> QED
    BY <2>2, <2>3, <2>5, <2>6 DEF WalletInv
<1> QED
  BY <1>1, <1>2, <1>3, <1>4 DEF Server

LEMMA WalletPageStep ==
  ASSUME SubmitInv, WalletInv, NEW p \in Pages, Page(p)
  PROVE  WalletInv'
<1> USE DEF submissionVars, walletVars, pageVars, vars, moneyVars, odVars, orcVars
<1>1. CASE Load(p)
  <2>1. /\ UNCHANGED <<mempool, owner, odOwner, orcOwner, key, env, made, file>>
        /\ shown' = [shown EXCEPT ![p] = key]
        /\ proposal' = [proposal EXCEPT ![p] = None]
        /\ imported' = [imported EXCEPT ![p] = None]
        /\ jobs' = {IF job.page = p THEN [job EXCEPT !.page = None] ELSE job : job \in jobs}
    BY <1>1 DEF Load
  <2>2. KeyKept' /\ ShownMade' /\ ProposalsStep'
    BY <2>1 DEF WalletInv, KeyKept, ShownMade, ProposalsStep, SubmitInv, Pageful
  <2>3. \A job \in jobs : [job EXCEPT !.page = None].req = job.req
    BY DEF SubmitInv, JobsGenuine
  <2>4. RequestsMade'
    <3>1. \A new \in jobs' : \E job \in jobs : new.req = job.req
      BY <2>1, <2>3
    <3> QED
      BY <2>1, <3>1 DEF WalletInv, RequestsMade, AddressMade
  <2> QED
    BY <2>1, <2>2, <2>4, Untouched
<1>2. CASE Generate(p) \/ Import(p) \/ CancelImported(p)
  <2>1. /\ UNCHANGED <<mempool, owner, odOwner, orcOwner, key, env, made, jobs, shown, proposal, file>>
        /\ \/ imported' = imported
           \/ file # None /\ imported' = [imported EXCEPT ![p] = file]
           \/ imported' = [imported EXCEPT ![p] = None]
    BY <1>2 DEF Generate, Import, CancelImported
  <2>2. KeyKept' /\ ShownMade' /\ ProposalsStep' /\ RequestsMade'
    BY <2>1 DEF WalletInv, KeyKept, ShownMade, ProposalsStep, RequestsMade, AddressMade
  <2> QED
    BY <2>1, <2>2, Untouched
<1>3. CASE CancelProposal(p)
  <2>1. /\ UNCHANGED <<mempool, owner, odOwner, orcOwner, key, env, made, jobs, shown, imported, file>>
        /\ proposal' = [proposal EXCEPT ![p] = None]
    BY <1>3 DEF CancelProposal
  <2>2. KeyKept' /\ ShownMade' /\ ProposalsStep' /\ RequestsMade'
    BY <2>1 DEF WalletInv, KeyKept, ShownMade, ProposalsStep, RequestsMade, AddressMade,
                SubmitInv, Pageful
  <2> QED
    BY <2>1, <2>2, Untouched
<1>4. ASSUME NEW s \in SignedSteps, NEW i \in Inputs(s), Propose(p, s, i[1], i[2])
      PROVE  WalletInv'
  <2>1. /\ UNCHANGED <<mempool, owner, odOwner, orcOwner, key, env, made, jobs, shown, imported, file>>
        /\ proposal' = [proposal EXCEPT ![p] =
                          Request(s, i[1], ProposedArg(s, i[2]), Message(s, i[1]))]
    BY <1>4 DEF Propose
  <2>2. KeyKept' /\ ShownMade' /\ RequestsMade'
    BY <2>1 DEF WalletInv, KeyKept, ShownMade, RequestsMade, AddressMade
  <2>3. ProposalsStep'
    BY <2>1, StepsAssumption DEF WalletInv, ProposalsStep, Request, SubmitInv, Pageful
  <2> QED
    BY <2>1, <2>2, <2>3, Untouched
<1>5. CASE SubmitImported(p)
  <2>1. /\ UNCHANGED <<mempool, owner, odOwner, orcOwner, key, env, made, shown, proposal, imported, file>>
        /\ imported[p] # None
        /\ jobs' = jobs \cup {[page |-> p, req |-> imported[p], isImport |-> TRUE, from |-> None]}
    BY <1>5 DEF SubmitImported, Post
  <2>2. KeyKept' /\ ShownMade' /\ ProposalsStep'
    BY <2>1 DEF WalletInv, KeyKept, ShownMade, ProposalsStep
  <2>3. AddressMade(imported[p])
    BY <2>1 DEF WalletInv, RequestsMade
  <2>4. RequestsMade'
    BY <2>1, <2>3, JobsMade
  <2> QED
    BY <2>1, <2>2, <2>4, Untouched
<1>6. ASSUME proposal[p] # None,
             NEW i \in Inputs(proposal[p].step), SignatureReady(p, i[1], i[2])
      PROVE  WalletInv'
  <2> DEFINE req == Request(proposal[p].step, i[1],
                       SubmittedArg(proposal[p].step, i[2]), proposal[p].message)
  <2>1. /\ UNCHANGED <<mempool, owner, odOwner, orcOwner, key, env, made, shown, imported, file>>
        /\ proposal' = [proposal EXCEPT ![p] = None]
        /\ jobs' = jobs \cup {[page |-> p, req |-> req, isImport |-> FALSE, from |-> None]}
    BY <1>6 DEF SignatureReady, Post
  <2>2. KeyKept' /\ ShownMade' /\ ProposalsStep'
    BY <2>1 DEF WalletInv, KeyKept, ShownMade, ProposalsStep, SubmitInv, Pageful
  <2>3. AddressMade(req)
    <3>1. proposal[p].step \in DOMAIN STEPS
      BY <1>6 DEF WalletInv, ProposalsStep
    <3> QED
      BY <1>6, <3>1, TypedAddress DEF AddressMade, Request
  <2> HIDE DEF req
  <2>4. RequestsMade'
    BY <2>1, <2>3, JobsMade
  <2> QED
    BY <2>1, <2>2, <2>4, Untouched
<1> QED
  BY <1>1, <1>2, <1>3, <1>4, <1>5, <1>6 DEF Page

LEMMA WalletOperatorStep ==
  ASSUME SubmitInv, WalletInv, Operators \/ (\E from \in Accounts : Chain(from))
  PROVE  WalletInv'
<1> USE DEF submissionVars, walletVars, pageVars, vars, moneyVars, odVars, orcVars
<1>1. ASSUME NEW s \in DirectSteps, NEW i \in Inputs(s), Execute(s, i[1], i[2])
      PROVE  WalletInv'
  <2>1. /\ UNCHANGED <<owner, odOwner, orcOwner, key, env, made, jobs, shown, proposal, imported, file>>
        /\ Broadcast(Deployer, StepTx(s, i[1], DirectArg(s, i[2])))
    BY <1>1 DEF Execute
  <2>2. KeyKept' /\ ShownMade' /\ ProposalsStep' /\ RequestsMade' /\ OwnersMade'
    BY <2>1 DEF WalletInv, KeyKept, ShownMade, ProposalsStep, RequestsMade, AddressMade,
                OwnersMade, Owners
  <2>3. s \in DOMAIN STEPS
    BY StepsAssumption
  <2>4. HandedOver(StepTx(s, i[1], DirectArg(s, i[2]))) \subseteq made
    BY <2>3, StepMethods, TypedAddress DEF HandedOver, StepTx, Tx
  <2>5. QueueMade'
    BY <2>1, <2>4, QueueGrows
  <2> QED
    BY <2>2, <2>5 DEF WalletInv
<1>2. ASSUME NEW s \in SignedSteps, NEW i \in Inputs(s), Export(s, i[1], i[2])
      PROVE  WalletInv'
  <2>1. /\ UNCHANGED <<mempool, owner, odOwner, orcOwner, key, env, made, jobs, shown, proposal, imported>>
        /\ file' = Request(s, i[1], ProposedArg(s, i[2]), Message(s, i[1]))
    BY <1>2 DEF Export
  <2>2. KeyKept' /\ ShownMade' /\ ProposalsStep'
    BY <2>1 DEF WalletInv, KeyKept, ShownMade, ProposalsStep
  <2>3. AddressMade(file')
    BY <2>1, StepsAssumption, TypedAddress DEF AddressMade, Request
  <2>4. RequestsMade'
    BY <2>1, <2>3 DEF WalletInv, RequestsMade, AddressMade
  <2> QED
    BY <2>1, <2>2, <2>4, Untouched
<1>3. ASSUME NEW from \in Accounts, Chain(from)
      PROVE  WalletInv'
  <2>1. /\ UNCHANGED <<key, env, made, jobs, shown, proposal, imported, file>>
        /\ Include(from)
    BY <1>3 DEF Chain
  <2>2. KeyKept' /\ ShownMade' /\ ProposalsStep' /\ RequestsMade'
    BY <2>1 DEF WalletInv, KeyKept, ShownMade, ProposalsStep, RequestsMade, AddressMade
  <2>3. QueueMade' /\ OwnersMade'
    BY <2>1, QueueShrinks
  <2> QED
    BY <2>2, <2>3 DEF WalletInv
<1> QED
  BY <1>1, <1>2, <1>3 DEF Operators

LEMMA WalletStutter ==
  ASSUME WalletInv, UNCHANGED cabalVars
  PROVE  WalletInv'
<1>1. UNCHANGED <<mempool, owner, odOwner, orcOwner, key, env, made, jobs, shown, proposal, imported, file>>
  BY DEF cabalVars, submissionVars, walletVars, pageVars, vars, moneyVars, odVars, orcVars
<1>2. KeyKept' /\ ShownMade' /\ ProposalsStep' /\ RequestsMade'
  BY <1>1 DEF WalletInv, KeyKept, ShownMade, ProposalsStep, RequestsMade, AddressMade
<1> QED
  BY <1>1, <1>2, Untouched

\* One wallet at most was made: then an owner is the deployer, or that one.
LEMMA OneWalletSigns == WalletInv => OwnersCanSign
<1> SUFFICES ASSUME WalletInv, ~(Cardinality(made) > 1), NEW o \in Owners, o # Deployer
             PROVE  o = key
  BY DEF OwnersCanSign, Owners
<1>1. /\ o \in made /\ key \in made
      /\ IsFiniteSet(made)
  BY DEF WalletInv, OwnersMade, KeyKept
<1>2. Cardinality(made) \in Nat
  BY <1>1, FS_CardinalityType
<1>3. made # {} => Cardinality(made) # 0
  BY <1>1, FS_EmptySet
<1>4. Cardinality(made) = 1
  BY <1>1, <1>2, <1>3
<1> QED
  BY <1>1, <1>4, FS_Singleton

(* /generate-wallet and "Transfer Ownership": ownership goes only to       *)
(* wallets that the server has made, and it keeps signing with the one it  *)
(* made, after lost answers and restarts too, unless two requests to make  *)
(* one overlapped.                                                         *)
THEOREM OwnershipIsNotLost == CabalSpec => []OwnersCanSign
<1>1. CabalInit => SubmitInv /\ WalletInv
  BY InitSubmitInv, InitWalletInv
<1>2. SubmitInv /\ WalletInv /\ [CabalNext]_cabalVars => (SubmitInv /\ WalletInv)'
  <2> SUFFICES ASSUME SubmitInv, WalletInv, [CabalNext]_cabalVars
               PROVE  SubmitInv' /\ WalletInv'
    OBVIOUS
  <2>1. CASE CabalNext
    BY <2>1, PageStep, ServerStep, OperatorStep, WalletPageStep, WalletServerStep,
       WalletOperatorStep DEF CabalNext
  <2>2. CASE UNCHANGED cabalVars
    BY <2>2, SubmitStutter, WalletStutter
  <2> QED
    BY <2>1, <2>2
<1>3. WalletInv => OwnersCanSign
  BY OneWalletSigns
<1> QED
  BY <1>1, <1>2, <1>3, PTL DEF CabalSpec
==============================================================================
