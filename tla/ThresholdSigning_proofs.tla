----------------------- MODULE ThresholdSigning_proofs -----------------------
(***************************************************************************)
(* Theorems about ThresholdSigning, for any number of shares and attempts, *)
(* any threshold and any losses.                                           *)
(*                                                                         *)
(* OneResponsePerMasks is not inductive: that a page answers once needs    *)
(* that what it answered is tied to where it stands.  A response carries   *)
(* an attempt that its page has begun; a response of the page's present    *)
(* attempt means that the page is past its second round, whence only a new *)
(* attempt leads back.                                                     *)
(*                                                                         *)
(* RoundsInStep and OneOutcome are about attempts, which neither blobs nor *)
(* barriers show.  The proof dates every message (Relayed): what is on its *)
(* way to a page is of the attempt that the page is in, or of the one that *)
(* follows and not acceptable yet.                                         *)
(***************************************************************************)
EXTENDS ThresholdSigning, FiniteSetTheorems, TLAPS

SignerTypes == phase \in [Pages -> 0 .. 4] /\ attempt \in [Pages -> Nat]

FilesTyped == \A b \in files : b.by \in Pages /\ b.attempt \in Nat

Begun == \A b \in files : b.attempt <= attempt[b.by]

AnsweredLate ==
  \A b \in files :
    (b.round = 3 /\ b.attempt = attempt[b.by]) => phase[b.by] \in {0, 3, 4}

ResponseInv == SignerTypes /\ FilesTyped /\ Begun /\ AnsweredLate /\ OneResponsePerMasks

responseVars == <<phase, attempt, files>>

-----------------------------------------------------------------------------
LEMMA InitResponseInv == Init => ResponseInv
  BY SigningAssumption
     DEF Init, ResponseInv, SignerTypes, FilesTyped, Begun, AnsweredLate, OneResponsePerMasks

\* Steps that only move blobs about.
LEMMA ResponseUnchanged ==
  ASSUME ResponseInv, UNCHANGED responseVars
  PROVE  ResponseInv'
  BY DEF responseVars, ResponseInv, SignerTypes, FilesTyped, Begun, AnsweredLate,
         OneResponsePerMasks

\* Leaving a round for idleness or for failure makes no blob.
LEMMA PhaseOnly ==
  ASSUME ResponseInv, NEW p \in Pages, NEW r \in {0, 4},
         phase' = [phase EXCEPT ![p] = r], UNCHANGED <<attempt, files>>
  PROVE  ResponseInv'
<1>1. SignerTypes'
  BY DEF ResponseInv, SignerTypes
<1>2. AnsweredLate'
  BY DEF ResponseInv, AnsweredLate, FilesTyped, SignerTypes
<1> QED
  BY <1>1, <1>2 DEF ResponseInv, FilesTyped, Begun, OneResponsePerMasks

\* A new attempt: every response so far is of an older one of its page.
LEMMA NewAttempt ==
  ASSUME ResponseInv, NEW p \in Pages, NEW ids, BeginSession(p, ids)
  PROVE  ResponseInv'
<1> DEFINE b0 == Blob(p, 1, Nothing)
<1>1. /\ attempt' = [attempt EXCEPT ![p] = @ + 1]
      /\ phase' = [phase EXCEPT ![p] = 1]
      /\ files' = files \cup {b0}
  BY DEF BeginSession
<1>2. b0.by = p /\ b0.round = 1 /\ b0.attempt = attempt[p] + 1
  BY <1>1 DEF Blob, ResponseInv, SignerTypes
<1> HIDE DEF b0
<1>3. SignerTypes'
  BY <1>1 DEF ResponseInv, SignerTypes
<1>4. FilesTyped'
  BY <1>1, <1>2 DEF ResponseInv, SignerTypes, FilesTyped
<1>5. Begun'
  <2> SUFFICES ASSUME NEW b \in files' PROVE b.attempt <= attempt'[b.by]
    BY DEF Begun
  <2>1. CASE b = b0
    BY <2>1, <1>1, <1>2 DEF ResponseInv, SignerTypes
  <2>2. CASE b \in files
    BY <2>2, <1>1 DEF ResponseInv, SignerTypes, FilesTyped, Begun
  <2> QED
    BY <2>1, <2>2, <1>1
<1>6. AnsweredLate'
  <2> SUFFICES ASSUME NEW b \in files', b.round = 3, b.attempt = attempt'[b.by]
               PROVE  phase'[b.by] \in {0, 3, 4}
    BY DEF AnsweredLate
  <2>1. b \in files
    BY <1>1, <1>2
  <2>2. b.by # p
    BY <2>1, <1>1 DEF ResponseInv, SignerTypes, FilesTyped, Begun
  <2> QED
    BY <2>1, <2>2, <1>1 DEF ResponseInv, SignerTypes, FilesTyped, AnsweredLate
<1>7. OneResponsePerMasks'
  BY <1>1, <1>2 DEF ResponseInv, OneResponsePerMasks
<1> QED
  BY <1>3, <1>4, <1>5, <1>6, <1>7 DEF ResponseInv

\* A round is left: in round 2 the page has not answered in this attempt.
LEMMA NextRound ==
  ASSUME ResponseInv, NEW p \in Pages, NEW r \in 1 .. 2, Advance(p, r)
  PROVE  ResponseInv'
<1> DEFINE b0(on) == Blob(p, r + 1, on)
<1>1. PICK on : files' = files \cup {b0(on)}
  BY DEF Advance
<1>2. /\ phase[p] = r
      /\ phase' = [phase EXCEPT ![p] = r + 1]
      /\ attempt' = attempt
  BY DEF Advance
<1>3. b0(on).by = p /\ b0(on).round = r + 1 /\ b0(on).attempt = attempt[p]
  BY <1>2 DEF Blob
<1> HIDE DEF b0
<1>4. SignerTypes' /\ FilesTyped'
  BY <1>1, <1>2, <1>3 DEF ResponseInv, SignerTypes, FilesTyped
<1>5. Begun'
  BY <1>1, <1>2, <1>3 DEF ResponseInv, SignerTypes, Begun
<1>6. \A b \in files : b.round = 3 /\ b.by = p => b.attempt # attempt[p]
  BY <1>2 DEF ResponseInv, AnsweredLate
<1>7. AnsweredLate'
  <2> SUFFICES ASSUME NEW b \in files', b.round = 3, b.attempt = attempt'[b.by]
               PROVE  phase'[b.by] \in {0, 3, 4}
    BY DEF AnsweredLate
  <2>1. CASE b = b0(on)
    BY <2>1, <1>2, <1>3 DEF ResponseInv, SignerTypes
  <2>2. CASE b \in files
    BY <2>2, <1>2, <1>6 DEF ResponseInv, SignerTypes, FilesTyped, AnsweredLate
  <2> QED
    BY <2>1, <2>2, <1>1
<1>8. OneResponsePerMasks'
  BY <1>1, <1>2, <1>3, <1>6 DEF ResponseInv, OneResponsePerMasks
<1> QED
  BY <1>4, <1>5, <1>7, <1>8 DEF ResponseInv

\* Starting by itself is a new attempt or idleness.
LEMMA AutoInitKeeps ==
  ASSUME ResponseInv, NEW p \in Pages, AutoInit(p)
  PROVE  ResponseInv'
<1>1. CASE Relay /\ Cardinality(known[p]) >= T
  BY <1>1, NewAttempt DEF AutoInit
<1>2. CASE ~(Relay /\ Cardinality(known[p]) >= T)
  BY <1>2, PhaseOnly DEF AutoInit, StaysIdle
<1> QED
  BY <1>1, <1>2

LEMMA ResponseStep ==
  ASSUME ResponseInv, [Next]_vars
  PROVE  ResponseInv'
<1> USE DEF session, sync, fixed
<1>1. CASE Propose
  BY <1>1, ResponseUnchanged DEF Propose, responseVars
<1>2. ASSUME NEW p \in Pages, ImportProposal(p)
      PROVE  ResponseInv'
  BY <1>2, ResponseUnchanged DEF ImportProposal, responseVars
<1>3. ASSUME NEW p \in Pages, Unlock(p) \/ Retry(p)
      PROVE  ResponseInv'
  BY <1>3, AutoInitKeeps DEF Unlock, Retry
<1>4. ASSUME NEW p \in Pages, StartSigning(p)
      PROVE  ResponseInv'
  BY <1>4, NewAttempt DEF StartSigning
<1>5. ASSUME NEW p \in Pages, NEW r \in 1 .. 2, Advance(p, r)
      PROVE  ResponseInv'
  BY <1>5, NextRound
<1>6. ASSUME NEW p \in Pages, Combine(p)
      PROVE  ResponseInv'
  <2>1. UNCHANGED <<attempt, files>>
    BY <1>6 DEF Combine
  <2>2. UNCHANGED phase \/ phase' = [phase EXCEPT ![p] = 4]
    BY <1>6 DEF Combine
  <2> QED
    BY <2>1, <2>2, PhaseOnly, ResponseUnchanged DEF responseVars
<1>7. ASSUME NEW p \in Pages, ClearShare(p)
      PROVE  ResponseInv'
  BY <1>7, PhaseOnly DEF ClearShare, StaysIdle
<1>8. ASSUME NEW p \in Pages, SendBlob(p) \/ SendBarrier(p) \/ Import(p)
      PROVE  ResponseInv'
  BY <1>8, ResponseUnchanged DEF SendBlob, SendBarrier, Import, responseVars
<1>9. ASSUME NEW p \in Pages, Cancel(p) \/ Reconnected(p)
      PROVE  ResponseInv'
  BY <1>9, ResponseUnchanged DEF Cancel, Reconnected, responseVars
<1>10. ASSUME NEW m \in net, Receive(m) \/ Lose(m)
       PROVE  ResponseInv'
  BY <1>10, ResponseUnchanged DEF Receive, Lose, responseVars
<1>11. CASE UNCHANGED vars
  BY <1>11, ResponseUnchanged DEF vars, responseVars
<1> QED
  BY <1>1, <1>2, <1>3, <1>4, <1>5, <1>6, <1>7, <1>8, <1>9, <1>10, <1>11
     DEF Next, Progress, Page

(* ThresholdSign.tsx: whatever is retried, cleared, lost or imported, a    *)
(* page makes at most one response on the masks of an attempt - for any    *)
(* threshold, any number of shares and of attempts.                        *)
THEOREM MasksAnsweredOnce == Spec => []OneResponsePerMasks
<1>1. Init => ResponseInv
  BY InitResponseInv
<1>2. ResponseInv /\ [Next]_vars => ResponseInv'
  BY ResponseStep
<1>3. ResponseInv => OneResponsePerMasks
  BY DEF ResponseInv
<1> QED
  BY <1>1, <1>2, <1>3, PTL DEF Spec
-----------------------------------------------------------------------------
(* What holds over either transport: a blob that a page has is one that    *)
(* was made, and it has one of a share and round; nobody is asked to sign  *)
(* twice, and a page is idle only as long as it has attempts left.         *)
PageTypes ==
  /\ transport \in {"relay", "offline"}
  /\ share \in [Pages -> Ids] /\ \A p, q \in Pages : share[p] = share[q] => p = q
  /\ known \in [Pages -> SUBSET Pages]
  /\ stage \in [Pages -> {"choose", "proposed", "signing", "done", "left"}]
  /\ phase \in [Pages -> 0 .. 4]
  /\ active \in [Pages -> SUBSET Ids]
  /\ attempt \in [Pages -> 0 .. MaxAttempts]
  /\ DOMAIN collected = Pages
  /\ blobSent \in [Pages -> BOOLEAN]
  /\ DOMAIN barriers = Pages
  /\ barrierSent \in [Pages -> SUBSET (1 .. 3)]

GoodFile(b) ==
  /\ b = [round |-> b.round, from |-> share[b.by], by |-> b.by, attempt |-> b.attempt, on |-> b.on]
  /\ b.round \in 1 .. 3 /\ b.by \in Pages
  /\ b.attempt \in 1 .. attempt[b.by]
  /\ b.round # 3 => b.on = Nothing

FilesInv == \A b \in files : GoodFile(b)

CollectedInv ==
  \A p \in Pages :
    /\ collected[p] \subseteq files
    /\ \A b, c \in collected[p] : (b.round = c.round /\ b.from = c.from) => b = c
    /\ \A b \in collected[p] : b.by = p => b.round <= phase[p]

Proposal == [round |-> 0]

Barrier(r, q) == [round |-> r, barrier |-> share[q]]

StageInv ==
  /\ \A p \in Pages :
       /\ IF phase[p] = 0 THEN attempt[p] < MaxAttempts ELSE attempt[p] >= 1
       /\ stage[p] \in {"choose", "proposed"} => phase[p] = 0
  /\ stage[Creator] = "choose" => \A p \in Pages : stage[p] = "choose"
  /\ Offline => net = {}

PostInv ==
  \A m \in net :
    /\ m = [to |-> m.to, body |-> m.body] /\ m.to \in Pages
    /\ \/ m.body = Proposal /\ stage[m.to] = "choose" /\ stage[Creator] # "choose"
       \/ \E r \in 1 .. 3 : \E q \in Pages : m.body = Barrier(r, q)
       \/ m.body \in files

SignInv ==
  PageTypes /\ FilesInv /\ CollectedInv /\ StageInv /\ PostInv

(* What the relay adds, as long as nobody clears a share.  A page is past  *)
(* a round with a barrier from everybody, and nobody sends one without a   *)
(* blob from everybody; so when an attempt ends for one, all have sent     *)
(* their last barriers, and nothing of it is still on its way to a page    *)
(* that begins the next.                                                   *)
Unbroken == Relay /\ cleared = {}

Full(p, r) == \A q \in Pages : \E b \in collected[p] : b.round = r /\ b.by = q

Past(p, r) == phase[p] > r \/ (r = 3 /\ stage[p] = "done")

BarrierOut(q, a, r) == attempt[q] > a \/ (attempt[q] = a /\ r \in barrierSent[q])

BlobOut(b) ==
  \/ attempt[b.by] > b.attempt
  \/ phase[b.by] > b.round
  \/ phase[b.by] = b.round /\ blobSent[b.by]

StartedInv ==
  \A p \in Pages :
    /\ phase[p] = 0 <=> attempt[p] = 0
    /\ attempt[p] >= 1 => known[p] = Pages /\ active[p] = Pages
    /\ attempt[p] = 0 => barriers[p] = {} /\ barrierSent[p] = {}
    /\ stage[p] = "done" => phase[p] = 3

SentInv ==
  \A p \in Pages : \A r \in barrierSent[p] :
    /\ r <= phase[p] /\ Full(p, r)
    /\ phase[p] = r => blobSent[p]

PastInv ==
  \A p \in Pages : \A r \in 1 .. 3 :
    Past(p, r) => \A q \in Pages : <<r, share[q]>> \in barriers[p]

GotInv ==
  \A p \in Pages :
    /\ \A x \in barriers[p] :
         \E q \in Pages : \E r \in 1 .. 3 : x = <<r, share[q]>> /\ BarrierOut(q, attempt[p], r)
    /\ \A b \in collected[p] :
         b.attempt = attempt[p] /\ (b.by # p => BlobOut(b))

TogetherInv ==
  \A p, q \in Pages :
    /\ attempt[q] <= attempt[p] + 1
    /\ attempt[q] > attempt[p] => attempt[p] = 0 \/ \A r \in 1 .. 3 : r \in barrierSent[p]

Fresh(m) ==
  /\ \A r \in 1 .. 3 : \A q \in Pages : m.body = Barrier(r, q) =>
       /\ attempt[m.to] >= 1 /\ BarrierOut(q, attempt[m.to], r)
       /\ <<r, share[q]>> \notin barriers[m.to]
  /\ m.body \in files =>
       /\ m.body.by # m.to /\ m.body.attempt >= attempt[m.to]
       /\ m.body \notin collected[m.to] /\ BlobOut(m.body)

FreshInv == \A m \in net : Fresh(m)

OutcomeInv ==
  \A p \in Pages :
    /\ stage[p] = "done" => Combines(p)
    /\ phase[p] = 4 => ~Combines(p)

Relayed ==
  StartedInv /\ SentInv /\ PastInv /\ GotInv /\ TogetherInv /\ FreshInv /\ OutcomeInv

RelayedInv == Unbroken => Relayed

-----------------------------------------------------------------------------
LEMMA SignersFinite ==
  /\ IsFiniteSet(Pages) /\ Cardinality(Pages) = T /\ T \in Nat
  /\ Pages \subseteq Ids /\ Creator \in Pages
<1>1. 0 \in Int /\ T - 1 \in Int /\ T \in Nat /\ T >= 2
  BY SigningAssumption
<1>2. IsFiniteSet(0 .. T - 1) /\ Cardinality(0 .. T - 1) = T
  BY <1>1, FS_Interval
<1> QED
  BY <1>1, <1>2, SigningAssumption DEF Pages, Ids, Creator

\* As many things as a finite set has members, each for another member, are
\* for all of them.
LEMMA Covering ==
  ASSUME NEW C, IsFiniteSet(C), NEW S, NEW f \in [S -> C],
         Cardinality(S) >= Cardinality(C),
         \A x, y \in S : f[x] = f[y] => x = y
  PROVE  \A q \in C : \E x \in S : f[x] = q
<1>1. f \in Injection(S, C)
  BY DEF Injection, IsInjective
<1>2. IsFiniteSet(S) /\ Cardinality(S) <= Cardinality(C)
  BY <1>1, FS_Injection
<1>3. Cardinality(S) = Cardinality(C)
  BY <1>2, FS_CardinalityType
<1>4. f \in Surjection(S, C)
  BY <1>1, <1>3, FS_Injection
<1> QED
  BY <1>4 DEF Surjection

\* One for each member, and each member once, are as many.
LEMMA OneForEach ==
  ASSUME NEW C, IsFiniteSet(C), NEW S, NEW f \in [S -> C],
         \A q \in C : \E x \in S : f[x] = q,
         \A x, y \in S : f[x] = f[y] => x = y
  PROVE  Cardinality(S) = Cardinality(C)
<1>1. f \in Injection(S, C) /\ f \in Surjection(S, C)
  BY DEF Injection, IsInjective, Surjection
<1>2. IsFiniteSet(S) /\ Cardinality(S) <= Cardinality(C)
  BY <1>1, FS_Injection
<1>3. Cardinality(C) <= Cardinality(S)
  BY <1>1, <1>2, FS_Surjection
<1> QED
  BY <1>2, <1>3, FS_CardinalityType

\* The relay carries three kinds of bodies.
LEMMA BodiesDiffer ==
  ASSUME FilesInv
  PROVE  /\ Proposal \notin files
         /\ \A r \in 1 .. 3 : \A q : Barrier(r, q) # Proposal /\ Barrier(r, q) \notin files
         /\ \A r, q : "barrier" \in DOMAIN Barrier(r, q)
         /\ \A b \in files : "barrier" \notin DOMAIN b
<1>1. \A b \in files : DOMAIN b = {"round", "from", "by", "attempt", "on"} /\ b.round \in 1 .. 3
  BY DEF FilesInv, GoodFile
<1>2. \A r, q : DOMAIN Barrier(r, q) = {"round", "barrier"} /\ Barrier(r, q).round = r
  BY DEF Barrier
<1>3. Proposal.round = 0
  BY DEF Proposal
<1> QED
  BY <1>1, <1>2, <1>3

LEMMA BarrierNames ==
  ASSUME PageTypes, NEW r, NEW s, NEW p \in Pages, NEW q \in Pages, Barrier(r, p) = Barrier(s, q)
  PROVE  r = s /\ p = q
<1>1. Barrier(r, p).round = r /\ Barrier(s, q).round = s
  BY DEF Barrier
<1>2. Barrier(r, p).barrier = share[p] /\ Barrier(s, q).barrier = share[q]
  BY DEF Barrier
<1> QED
  BY <1>1, <1>2 DEF PageTypes

\* Pages and attempts tell the blobs of a round apart.
LEMMA OneFile ==
  ASSUME FilesInv, OneResponsePerMasks, NEW b \in files, NEW c \in files,
         b.round = c.round, b.by = c.by, b.attempt = c.attempt
  PROVE  b = c
<1>1. GoodFile(b) /\ GoodFile(c)
  BY DEF FilesInv
<1>2. CASE b.round = 3
  BY <1>2 DEF OneResponsePerMasks
<1>3. CASE b.round # 3
  BY <1>1, <1>3 DEF GoodFile
<1> QED
  BY <1>2, <1>3

\* A page has collected one blob of a round from each, and no more, when it
\* has counted T.
LEMMA CountedFull ==
  ASSUME PageTypes, FilesInv, CollectedInv, NEW p \in Pages, NEW r
  PROVE  (Count(p, r) >= T => Full(p, r)) /\ (Full(p, r) => Count(p, r) = T)
<1> DEFINE S == Collected(p, r)
           f == [b \in S |-> b.by]
<1>1. \A b \in S : b \in files /\ b.by \in Pages /\ b.from = share[b.by] /\ b.round = r
  <2> SUFFICES ASSUME NEW b \in S PROVE b \in files /\ b.by \in Pages /\ b.from = share[b.by] /\ b.round = r
    OBVIOUS
  <2>1. b \in files /\ b.round = r
    BY DEF CollectedInv, Collected
  <2>2. GoodFile(b)
    BY <2>1 DEF FilesInv
  <2> QED
    BY <2>1, <2>2 DEF GoodFile
<1>2. f \in [S -> Pages]
  BY <1>1
<1>3. \A b, c \in S : f[b] = f[c] => b = c
  BY <1>1 DEF CollectedInv, Collected
<1>4. Full(p, r) <=> \A q \in Pages : \E b \in S : f[b] = q
  BY DEF Full, Collected
<1>5. Count(p, r) = Cardinality(S)
  BY DEF Count
<1> HIDE DEF S, f
<1>6. ASSUME Count(p, r) >= T PROVE Full(p, r)
  <2>1. Cardinality(S) >= Cardinality(Pages)
    BY <1>5, <1>6, SignersFinite
  <2>2. \A q \in Pages : \E b \in S : f[b] = q
    BY <1>2, <1>3, <2>1, SignersFinite, Covering
  <2> QED
    BY <1>4, <2>2
<1>7. ASSUME Full(p, r) PROVE Count(p, r) = T
  <2>1. \A q \in Pages : \E b \in S : f[b] = q
    BY <1>4, <1>7
  <2>2. Cardinality(S) = Cardinality(Pages)
    BY <1>2, <1>3, <2>1, SignersFinite, OneForEach
  <2> QED
    BY <1>5, <2>2, SignersFinite
<1> QED
  BY <1>6, <1>7

-----------------------------------------------------------------------------
\* A message that is added is a blob or a barrier; the proposals that are
\* still there find their page as it was.
LEMMA PostKept ==
  ASSUME PostInv, UNCHANGED share, files \subseteq files',
         \A m \in net' : m \in net \/
           /\ m = [to |-> m.to, body |-> m.body] /\ m.to \in Pages
           /\ (\E r \in 1 .. 3 : \E q \in Pages : m.body = Barrier(r, q)) \/ m.body \in files',
         \A m \in net' : m \in net /\ m.body = Proposal /\ stage[m.to] = "choose" => stage'[m.to] = "choose",
         stage[Creator] # "choose" => stage'[Creator] # "choose"
  PROVE  PostInv'
<1>1. \A r, q : Barrier(r, q)' = Barrier(r, q)
  BY DEF Barrier
<1>2. Proposal' = Proposal
  BY DEF Proposal
<1> SUFFICES ASSUME NEW m \in net'
             PROVE  /\ m = [to |-> m.to, body |-> m.body] /\ m.to \in Pages
                    /\ \/ m.body = Proposal /\ stage'[m.to] = "choose" /\ stage'[Creator] # "choose"
                       \/ \E r \in 1 .. 3 : \E q \in Pages : m.body = Barrier(r, q)
                       \/ m.body \in files'
  BY <1>1, <1>2 DEF PostInv
<1>3. CASE m \in net
  BY <1>3 DEF PostInv
<1> QED
  BY <1>3

\* Files that are made stay what they were.
LEMMA FilesKept ==
  ASSUME FilesInv, PageTypes, UNCHANGED share, files' = files,
         \A q \in Pages : attempt'[q] >= attempt[q] /\ attempt'[q] \in Nat
  PROVE  FilesInv'
<1> SUFFICES ASSUME NEW b \in files PROVE GoodFile(b)'
  BY DEF FilesInv
<1>1. GoodFile(b)
  BY DEF FilesInv
<1>2. attempt[b.by] \in Nat
  BY <1>1 DEF GoodFile, PageTypes
<1>3. b.attempt \in 1 .. attempt'[b.by]
  BY <1>1, <1>2 DEF GoodFile
<1>4. Nothing' = Nothing
  BY DEF Nothing
<1> QED
  BY <1>1, <1>3, <1>4 DEF GoodFile

LEMMA FilesAdded ==
  ASSUME FilesInv, PageTypes, NEW p \in Pages, NEW r \in 1 .. 3, NEW on, r # 3 => on = Nothing,
         NEW b0, b0 = Blob(p, r, on),
         UNCHANGED share, files' = files \cup {b0},
         \A q \in Pages : attempt'[q] >= attempt[q] /\ attempt'[q] \in Nat,
         attempt'[p] >= 1
  PROVE  /\ FilesInv'
         /\ b0.by = p /\ b0.from = share[p] /\ b0.round = r /\ b0.attempt = attempt'[p]
<1>1. b0 = [round |-> r, from |-> share[p], by |-> p, attempt |-> attempt'[p], on |-> on]
  BY DEF Blob
<1>2. /\ b0.by = p /\ b0.from = share[p] /\ b0.round = r
      /\ b0.attempt = attempt'[p] /\ b0.on = on
  BY <1>1
<1>3. b0 = [round |-> b0.round, from |-> share[b0.by], by |-> b0.by, attempt |-> b0.attempt, on |-> b0.on]
  BY <1>1, <1>2
<1>4. Nothing' = Nothing
  BY DEF Nothing
<1>5. b0.attempt \in 1 .. attempt'[b0.by] /\ (b0.round # 3 => b0.on = Nothing)
  BY <1>2
<1>6. GoodFile(b0)'
  BY <1>2, <1>3, <1>4, <1>5 DEF GoodFile
<1>7. ASSUME NEW b \in files PROVE GoodFile(b)'
  <2>1. GoodFile(b)
    BY DEF FilesInv
  <2>2. attempt[b.by] \in Nat
    BY <2>1 DEF GoodFile, PageTypes
  <2>3. b.attempt \in 1 .. attempt'[b.by]
    BY <2>1, <2>2 DEF GoodFile
  <2> QED
    BY <2>1, <2>3, <1>4 DEF GoodFile
<1>8. FilesInv'
  BY <1>6, <1>7 DEF FilesInv
<1> QED
  BY <1>2, <1>8

\* The bookkeeping of stages, when a page moves on.
LEMMA StageKept ==
  ASSUME StageInv, PageTypes, UNCHANGED transport, Offline => net' = {},
         NEW p \in Pages, NEW s \in {"proposed", "signing", "done", "left"},
         stage' = [stage EXCEPT ![p] = s],
         p = Creator \/ stage[Creator] # "choose",
         \A q \in Pages \ {p} : phase'[q] = phase[q] /\ attempt'[q] = attempt[q],
         IF phase'[p] = 0 THEN attempt'[p] < MaxAttempts ELSE attempt'[p] >= 1,
         s = "proposed" => phase'[p] = 0
  PROVE  StageInv'
<1>1. \A q \in Pages \ {p} : stage'[q] = stage[q]
  BY DEF PageTypes
<1>2. stage'[p] = s
  BY DEF PageTypes
<1>3. stage'[Creator] # "choose"
  BY <1>1, <1>2, SignersFinite
<1>4. \A q \in Pages :
        /\ IF phase'[q] = 0 THEN attempt'[q] < MaxAttempts ELSE attempt'[q] >= 1
        /\ stage'[q] \in {"choose", "proposed"} => phase'[q] = 0
  BY <1>1, <1>2 DEF StageInv
<1> QED
  BY <1>3, <1>4 DEF StageInv, Offline

-----------------------------------------------------------------------------
LEMMA InitSignInv == Init => SignInv
<1> SUFFICES ASSUME Init PROVE SignInv
  OBVIOUS
<1> USE DEF Init
<1>1. PageTypes
  <2>1. \A p \in Pages : p .. T - 1 \subseteq Pages
    BY SigningAssumption DEF Pages
  <2> QED
    BY <2>1, SigningAssumption DEF PageTypes
<1>2. FilesInv /\ CollectedInv
  BY DEF FilesInv, CollectedInv
<1>3. StageInv /\ PostInv
  BY SigningAssumption DEF StageInv, PostInv, Creator
<1> QED
  BY <1>1, <1>2, <1>3 DEF SignInv

\* A page begins an attempt.
LEMMA BeginSigns ==
  ASSUME SignInv, NEW p \in Pages, NEW ids \in SUBSET Ids, BeginSession(p, ids),
         phase[p] = 0 \/ attempt[p] < MaxAttempts,
         UNCHANGED <<transport, share>>
  PROVE  /\ FilesInv' /\ CollectedInv'
         /\ phase' \in [Pages -> 0 .. 4] /\ attempt' \in [Pages -> 0 .. MaxAttempts]
         /\ active' \in [Pages -> SUBSET Ids] /\ DOMAIN collected' = Pages
         /\ blobSent' \in [Pages -> BOOLEAN]
         /\ phase'[p] = 1 /\ attempt'[p] >= 1 /\ files \subseteq files'
         /\ \A q \in Pages \ {p} : phase'[q] = phase[q] /\ attempt'[q] = attempt[q]
<1>1. attempt[p] \in 0 .. MaxAttempts /\ attempt[p] < MaxAttempts
  BY DEF SignInv, PageTypes, StageInv
<1>2. PICK b0 : b0 = Blob(p, 1, Nothing)
  OBVIOUS
<1>3. /\ attempt' = [attempt EXCEPT ![p] = @ + 1]
      /\ active' = [active EXCEPT ![p] = ids]
      /\ phase' = [phase EXCEPT ![p] = 1]
      /\ collected' = [collected EXCEPT ![p] = {b0}]
      /\ files' = files \cup {b0}
      /\ blobSent' = [blobSent EXCEPT ![p] = FALSE]
  BY <1>2 DEF BeginSession
<1>4. \A q \in Pages : attempt'[q] >= attempt[q] /\ attempt'[q] \in Nat
  BY <1>1, <1>3, SigningAssumption DEF SignInv, PageTypes
<1>5. attempt'[p] >= 1 /\ attempt'[p] <= MaxAttempts
  BY <1>1, <1>3, SigningAssumption DEF SignInv, PageTypes
<1>6. FilesInv' /\ b0.by = p /\ b0.from = share[p] /\ b0.round = 1
  BY <1>2, <1>3, <1>4, <1>5, FilesAdded DEF SignInv
<1>7. CollectedInv'
  <2> SUFFICES ASSUME NEW q \in Pages
               PROVE  /\ collected'[q] \subseteq files'
                      /\ \A b, c \in collected'[q] : (b.round = c.round /\ b.from = c.from) => b = c
                      /\ \A b \in collected'[q] : b.by = q => b.round <= phase'[q]
    BY DEF CollectedInv
  <2>1. CASE q = p
    BY <2>1, <1>3, <1>6 DEF SignInv, PageTypes
  <2>2. CASE q # p
    BY <2>2, <1>3 DEF SignInv, PageTypes, CollectedInv
  <2> QED
    BY <2>1, <2>2
<1>8. /\ phase' \in [Pages -> 0 .. 4]
      /\ active' \in [Pages -> SUBSET Ids] /\ DOMAIN collected' = Pages
      /\ blobSent' \in [Pages -> BOOLEAN]
  BY <1>3 DEF SignInv, PageTypes
<1>9. attempt' \in [Pages -> 0 .. MaxAttempts]
  BY <1>1, <1>3, <1>5, SigningAssumption DEF SignInv, PageTypes
<1> QED
  BY <1>3, <1>6, <1>7, <1>8, <1>9 DEF SignInv, PageTypes

\* What a page has collected is kept, or forgotten.
LEMMA CollectedKept ==
  ASSUME CollectedInv, FilesInv, files \subseteq files',
         \A q \in Pages : collected'[q] = {} \/ (collected'[q] = collected[q] /\ phase'[q] >= phase[q]),
         PageTypes, phase' \in [Pages -> 0 .. 4]
  PROVE  CollectedInv'
<1> SUFFICES ASSUME NEW q \in Pages
             PROVE  /\ collected'[q] \subseteq files'
                    /\ \A b, c \in collected'[q] : (b.round = c.round /\ b.from = c.from) => b = c
                    /\ \A b \in collected'[q] : b.by = q => b.round <= phase'[q]
  BY DEF CollectedInv
<1>1. CASE collected'[q] = {}
  BY <1>1
<1>2. CASE collected'[q] = collected[q] /\ phase'[q] >= phase[q]
  <2>1. \A b \in collected[q] : b.by = q => b.round <= phase[q]
    BY DEF CollectedInv
  <2>2. phase[q] \in Int /\ phase'[q] \in Int
    BY DEF PageTypes
  <2>3. collected'[q] \subseteq files' /\ \A b, c \in collected'[q] : (b.round = c.round /\ b.from = c.from) => b = c
    BY <1>2 DEF CollectedInv
  <2>4. ASSUME NEW b \in collected'[q], b.by = q PROVE b.round <= phase'[q]
    <3>1. b.round <= phase[q]
      BY <1>2, <2>1, <2>4
    <3>2. b.round \in Int
      BY <1>2, <2>4 DEF CollectedInv, FilesInv, GoodFile
    <3> QED
      BY <1>2, <2>2, <3>1, <3>2
  <2> QED
    BY <2>3, <2>4
<1> QED
  BY <1>1, <1>2

\* A page takes in a blob of another.
LEMMA CollectedTakes ==
  ASSUME CollectedInv, FilesInv, PageTypes, NEW p \in Pages, NEW b0 \in files, Acceptable(p, b0),
         Collect(p, b0), UNCHANGED <<files, phase>>
  PROVE  CollectedInv'
<1>1. b0.from = share[b0.by] /\ b0.from # share[p] /\ b0.from \notin From(p, b0.round)
  BY DEF FilesInv, GoodFile, Acceptable
<1>2. b0.by # p
  BY <1>1
<1>3. \A c \in collected[p] : c.round = b0.round => c.from # b0.from
  BY <1>1 DEF From, Collected
<1>4. collected'[p] = collected[p] \cup {b0} /\ \A q \in Pages \ {p} : collected'[q] = collected[q]
  BY DEF Collect, PageTypes
<1> QED
  BY <1>2, <1>3, <1>4 DEF CollectedInv

LEMMA AutoInitSigns ==
  ASSUME SignInv, NEW p \in Pages, AutoInit(p), attempt[p] < MaxAttempts,
         UNCHANGED <<transport, share>>
  PROVE  /\ FilesInv' /\ CollectedInv'
         /\ phase' \in [Pages -> 0 .. 4] /\ attempt' \in [Pages -> 0 .. MaxAttempts]
         /\ active' \in [Pages -> SUBSET Ids] /\ DOMAIN collected' = Pages
         /\ blobSent' \in [Pages -> BOOLEAN]
         /\ files \subseteq files'
         /\ IF phase'[p] = 0 THEN attempt'[p] < MaxAttempts ELSE attempt'[p] >= 1
         /\ \A q \in Pages \ {p} : phase'[q] = phase[q] /\ attempt'[q] = attempt[q]
<1> DEFINE ids == {i \in known[p] : Cardinality(known[p] \cap 0 .. i) <= T}
<1>1. CASE BeginSession(p, ids)
  <2>1. ids \in SUBSET Ids
    BY SignersFinite DEF SignInv, PageTypes
  <2>2. PICK js \in SUBSET Ids : js = ids
    BY <2>1
  <2>3. BeginSession(p, js)
    BY <1>1, <2>2
  <2> HIDE DEF ids
  <2> QED
    BY <2>3, BeginSigns
<1>2. CASE StaysIdle(p)
  <2>1. /\ phase' = [phase EXCEPT ![p] = 0]
        /\ collected' = [collected EXCEPT ![p] = {}]
        /\ UNCHANGED <<active, attempt, files, blobSent>>
    BY <1>2 DEF StaysIdle
  <2>2. \A q \in Pages : attempt'[q] >= attempt[q] /\ attempt'[q] \in Nat
    BY <2>1, SigningAssumption DEF SignInv, PageTypes
  <2>3. FilesInv'
    BY <2>1, <2>2, FilesKept DEF SignInv
  <2>4. /\ phase' \in [Pages -> 0 .. 4]
        /\ \A q \in Pages : collected'[q] = {} \/ (collected'[q] = collected[q] /\ phase'[q] >= phase[q])
    BY <2>1 DEF SignInv, PageTypes
  <2>5. CollectedInv'
    BY <2>1, <2>4, CollectedKept DEF SignInv
  <2> QED
    BY <2>1, <2>3, <2>4, <2>5 DEF SignInv, PageTypes
<1> QED
  BY <1>1, <1>2 DEF AutoInit


LEMMA SignPropose ==
  ASSUME SignInv, Propose
  PROVE  SignInv'
<1>1. /\ stage[Creator] = "choose"
      /\ stage' = [stage EXCEPT ![Creator] = "proposed"]
      /\ net' = IF Relay THEN net \cup Mail(Creator, Proposal) ELSE net
      /\ UNCHANGED <<transport, share, known, phase, active, attempt, collected, blobSent, barriers, barrierSent, files>>
  BY DEF Propose, Proposal, fixed, session, sync
<1>2. \A q \in Pages : stage[q] = "choose" /\ phase[q] = 0 /\ attempt[q] < MaxAttempts
  BY <1>1 DEF SignInv, StageInv
<1>3. PageTypes'
  BY <1>1 DEF SignInv, PageTypes
<1>4. FilesInv'
  BY <1>1 DEF SignInv, FilesInv, GoodFile, Nothing
<1>5. CollectedInv'
  BY <1>1 DEF SignInv, CollectedInv
<1>6. stage'[Creator] = "proposed" /\ \A q \in Pages \ {Creator} : stage'[q] = "choose"
  BY <1>1, <1>2, SignersFinite DEF SignInv, PageTypes
<1>7. Offline => net' = {}
  BY <1>1 DEF SignInv, StageInv, Relay, Offline
<1>8. StageInv'
  BY <1>1, <1>2, <1>6, <1>7 DEF StageInv, Offline
<1>9. PostInv'
  <2>1. \A r, q : Barrier(r, q)' = Barrier(r, q)
    BY <1>1 DEF Barrier
  <2>2. Proposal' = Proposal
    BY DEF Proposal
  <2> SUFFICES ASSUME NEW m \in net'
               PROVE  /\ m = [to |-> m.to, body |-> m.body] /\ m.to \in Pages
                      /\ \/ m.body = Proposal /\ stage'[m.to] = "choose" /\ stage'[Creator] # "choose"
                         \/ \E r \in 1 .. 3 : \E q \in Pages : m.body = Barrier(r, q)
                         \/ m.body \in files
    BY <1>1, <2>1, <2>2 DEF PostInv
  <2>3. CASE m \in Mail(Creator, Proposal)
    BY <2>3, <1>6 DEF Mail
  <2>4. CASE m \in net
    BY <2>4, <1>6 DEF SignInv, PostInv
  <2> QED
    BY <1>1, <2>3, <2>4
<1> QED
  BY <1>3, <1>4, <1>5, <1>8, <1>9 DEF SignInv

\* Offline nothing is under way.
LEMMA SignImportProposal ==
  ASSUME SignInv, NEW p \in Pages, ImportProposal(p)
  PROVE  SignInv'
<1>1. /\ Offline /\ stage[p] = "choose" /\ stage[Creator] # "choose"
      /\ stage' = [stage EXCEPT ![p] = "proposed"]
      /\ UNCHANGED <<transport, share, known, phase, active, attempt, collected, blobSent, barriers,
                     barrierSent, files, net>>
  BY DEF ImportProposal, fixed, session, sync
<1>2. net = {} /\ phase[p] = 0 /\ attempt[p] < MaxAttempts
  BY <1>1 DEF SignInv, StageInv
<1>3. PageTypes'
  BY <1>1 DEF SignInv, PageTypes
<1>4. FilesInv'
  BY <1>1 DEF SignInv, FilesInv, GoodFile, Nothing
<1>5. CollectedInv'
  BY <1>1 DEF SignInv, CollectedInv
<1>6. StageInv'
  BY <1>1, <1>2, StageKept DEF SignInv
<1>7. PostInv'
  BY <1>1, <1>2 DEF PostInv
<1> QED
  BY <1>3, <1>4, <1>5, <1>6, <1>7 DEF SignInv

\* No proposal is on its way to a page that is signing, or is about to.
LEMMA NoProposalTo ==
  ASSUME SignInv, NEW p \in Pages, stage[p] # "choose", NEW m \in net, m.body = Proposal
  PROVE  m.to # p
<1>1. Proposal \notin files /\ \A r \in 1 .. 3 : \A q : Barrier(r, q) # Proposal
  BY BodiesDiffer DEF SignInv
<1> QED
  BY <1>1 DEF SignInv, PostInv

LEMMA NoMailChanges ==
  ASSUME SignInv, NEW p \in Pages, stage[p] # "choose",
         \A q \in Pages \ {p} : stage'[q] = stage[q], stage'[p] # "choose",
         UNCHANGED share, net' \subseteq net, files \subseteq files'
  PROVE  PostInv'
<1>1. \A m \in net' : m \in net /\ m.body = Proposal /\ stage[m.to] = "choose" => stage'[m.to] = "choose"
  BY NoProposalTo DEF SignInv, PostInv
<1>2. stage[Creator] # "choose" => stage'[Creator] # "choose"
  BY SignersFinite
<1> QED
  BY <1>1, <1>2, PostKept DEF SignInv

LEMMA SignAutoInit ==
  ASSUME SignInv, NEW p \in Pages, stage[p] \in {"proposed", "signing"}, AutoInit(p),
         attempt[p] < MaxAttempts,
         stage' = [stage EXCEPT ![p] = "signing"],
         barriers' = [barriers EXCEPT ![p] = {}] \/ UNCHANGED barriers,
         barrierSent' = [barrierSent EXCEPT ![p] = {}] \/ UNCHANGED barrierSent,
         UNCHANGED <<transport, share, known, net>>
  PROVE  SignInv'
<1>1. /\ FilesInv' /\ CollectedInv'
      /\ phase' \in [Pages -> 0 .. 4] /\ attempt' \in [Pages -> 0 .. MaxAttempts]
      /\ active' \in [Pages -> SUBSET Ids] /\ DOMAIN collected' = Pages
      /\ blobSent' \in [Pages -> BOOLEAN]
      /\ files \subseteq files'
      /\ IF phase'[p] = 0 THEN attempt'[p] < MaxAttempts ELSE attempt'[p] >= 1
      /\ \A q \in Pages \ {p} : phase'[q] = phase[q] /\ attempt'[q] = attempt[q]
  BY AutoInitSigns
<1>2. PageTypes'
  BY <1>1 DEF SignInv, PageTypes
<1>3. \A q \in Pages \ {p} : stage'[q] = stage[q]
  BY DEF SignInv, PageTypes
<1>4. stage[Creator] # "choose" \/ p = Creator
  BY DEF SignInv, StageInv
<1>5. Offline => net' = {}
  BY DEF SignInv, StageInv
<1>6. StageInv'
  BY <1>1, <1>4, <1>5, StageKept DEF SignInv
<1>7. PostInv'
  BY <1>1, <1>3, NoMailChanges
<1> QED
  BY <1>1, <1>2, <1>6, <1>7 DEF SignInv

LEMMA SignUnlock ==
  ASSUME SignInv, NEW p \in Pages, Unlock(p)
  PROVE  SignInv'
<1>1. attempt[p] < MaxAttempts
  BY DEF Unlock, SignInv, StageInv
<1> QED
  BY <1>1, SignAutoInit DEF Unlock, fixed

LEMMA SignRetry ==
  ASSUME SignInv, NEW p \in Pages, Retry(p)
  PROVE  SignInv'
<1>1. stage' = [stage EXCEPT ![p] = "signing"]
  BY DEF Retry, SignInv, PageTypes
<1> QED
  BY <1>1, SignAutoInit DEF Retry, fixed

LEMMA SignStartSigning ==
  ASSUME SignInv, NEW p \in Pages, StartSigning(p)
  PROVE  SignInv'
<1>1. PICK ids \in SUBSET Ids : BeginSession(p, ids)
  BY DEF StartSigning
<1>2. /\ stage[p] = "signing" /\ phase[p] = 0
      /\ UNCHANGED <<transport, share, known, stage, barriers, barrierSent, net>>
  BY DEF StartSigning, fixed
<1>3. /\ FilesInv' /\ CollectedInv'
      /\ phase' \in [Pages -> 0 .. 4] /\ attempt' \in [Pages -> 0 .. MaxAttempts]
      /\ active' \in [Pages -> SUBSET Ids] /\ DOMAIN collected' = Pages
      /\ blobSent' \in [Pages -> BOOLEAN]
      /\ phase'[p] = 1 /\ attempt'[p] >= 1 /\ files \subseteq files'
      /\ \A q \in Pages \ {p} : phase'[q] = phase[q] /\ attempt'[q] = attempt[q]
  BY <1>1, <1>2, BeginSigns
<1>4. PageTypes'
  BY <1>2, <1>3 DEF SignInv, PageTypes
<1>5. stage' = [stage EXCEPT ![p] = "signing"]
  BY <1>2 DEF SignInv, PageTypes
<1>6. stage[Creator] # "choose"
  BY <1>2 DEF SignInv, StageInv
<1>7. Offline => net' = {}
  BY <1>2 DEF SignInv, StageInv
<1>8. StageInv'
  <2>1. IF phase'[p] = 0 THEN attempt'[p] < MaxAttempts ELSE attempt'[p] >= 1
    BY <1>3
  <2> QED
    BY <1>2, <1>3, <1>5, <1>6, <1>7, <2>1, StageKept DEF SignInv
<1>9. PostInv'
  BY <1>2, <1>3, NoMailChanges
<1> QED
  BY <1>3, <1>4, <1>8, <1>9 DEF SignInv

\* A page leaves round 1 or 2 with a blob of its own.
LEMMA SignAdvance ==
  ASSUME SignInv, NEW p \in Pages, NEW r \in 1 .. 2, Advance(p, r)
  PROVE  SignInv'
<1> DEFINE on0 == IF r = 1 THEN Nothing
                  ELSE [ids |-> active[p], masks |-> Masks(Of(p, 2, active[p]))]
<1>1. PICK on, b0 : on = on0 /\ b0 = Blob(p, r + 1, on)
  OBVIOUS
<1>2. /\ stage[p] = "signing" /\ phase[p] = r
      /\ phase' = [phase EXCEPT ![p] = r + 1]
      /\ UNCHANGED <<active, attempt>>
      /\ collected' = [collected EXCEPT ![p] = @ \cup {b0}]
      /\ files' = files \cup {b0}
      /\ blobSent' = [blobSent EXCEPT ![p] = FALSE]
      /\ UNCHANGED <<transport, share, known, stage, barriers, barrierSent, net>>
  BY <1>1 DEF Advance, fixed
<1>3. r + 1 \in 1 .. 3 /\ (r + 1 # 3 => on = Nothing)
  BY <1>1
<1> HIDE DEF on0
<1>4. \A q \in Pages : attempt'[q] >= attempt[q] /\ attempt'[q] \in Nat
  BY <1>2, SigningAssumption DEF SignInv, PageTypes
<1>5. attempt'[p] >= 1
  BY <1>2 DEF SignInv, PageTypes, StageInv
<1>6. FilesInv' /\ b0.by = p /\ b0.from = share[p] /\ b0.round = r + 1
  BY <1>1, <1>2, <1>3, <1>4, <1>5, FilesAdded DEF SignInv
<1>7. \A c \in collected[p] : c.from = share[p] => c.round <= r
  <2> SUFFICES ASSUME NEW c \in collected[p], c.from = share[p] PROVE c.round <= r
    OBVIOUS
  <2>1. GoodFile(c)
    BY DEF SignInv, CollectedInv, FilesInv
  <2>2. c.by = p
    BY <2>1 DEF GoodFile, SignInv, PageTypes
  <2> QED
    BY <2>2, <1>2 DEF SignInv, CollectedInv
<1>8. CollectedInv'
  <2> SUFFICES ASSUME NEW q \in Pages
               PROVE  /\ collected'[q] \subseteq files'
                      /\ \A b, c \in collected'[q] : (b.round = c.round /\ b.from = c.from) => b = c
                      /\ \A b \in collected'[q] : b.by = q => b.round <= phase'[q]
    BY DEF CollectedInv
  <2>1. CASE q # p
    BY <2>1, <1>2 DEF SignInv, PageTypes, CollectedInv
  <2>2. CASE q = p
    <3>1. collected'[p] = collected[p] \cup {b0} /\ phase'[p] = r + 1
      BY <1>2 DEF SignInv, PageTypes
    <3>2. \A b, c \in collected[p] \cup {b0} : (b.round = c.round /\ b.from = c.from) => b = c
      <4>1. \A c \in collected[p] : ~(c.round = b0.round /\ c.from = b0.from)
        BY <1>6, <1>7
      <4> QED
        BY <4>1 DEF SignInv, CollectedInv
    <3>3. \A b \in collected[p] : b.by = p => b.round <= r + 1
      <4> SUFFICES ASSUME NEW b \in collected[p], b.by = p PROVE b.round <= r + 1
        OBVIOUS
      <4>1. GoodFile(b) /\ b.round <= r
        BY <1>2 DEF SignInv, CollectedInv, FilesInv
      <4> QED
        BY <4>1 DEF GoodFile
    <3> QED
      BY <2>2, <3>1, <3>2, <3>3, <1>2, <1>6 DEF SignInv, CollectedInv
  <2> QED
    BY <2>1, <2>2
<1>9. PageTypes'
  BY <1>2 DEF SignInv, PageTypes
<1>10. StageInv'
  <2>1. stage' = [stage EXCEPT ![p] = "signing"]
    BY <1>2 DEF SignInv, PageTypes
  <2>2. stage[Creator] # "choose"
    BY <1>2 DEF SignInv, StageInv
  <2>3. Offline => net' = {}
    BY <1>2 DEF SignInv, StageInv
  <2>4. /\ IF phase'[p] = 0 THEN attempt'[p] < MaxAttempts ELSE attempt'[p] >= 1
        /\ \A q \in Pages \ {p} : phase'[q] = phase[q] /\ attempt'[q] = attempt[q]
    BY <1>2, <1>5 DEF SignInv, PageTypes
  <2> QED
    BY <1>2, <2>1, <2>2, <2>3, <2>4, StageKept DEF SignInv
<1>11. PostInv'
  BY <1>2, NoMailChanges
<1> QED
  BY <1>6, <1>8, <1>9, <1>10, <1>11 DEF SignInv

\* Steps that touch no blob, no attempt and nobody's share.
LEMMA NothingMade ==
  ASSUME SignInv, UNCHANGED <<share, attempt, collected, files>>,
         \A q \in Pages : phase'[q] >= phase[q], phase' \in [Pages -> 0 .. 4]
  PROVE  FilesInv' /\ CollectedInv'
<1>1. \A q \in Pages : attempt'[q] >= attempt[q] /\ attempt'[q] \in Nat
  BY SigningAssumption DEF SignInv, PageTypes
<1>2. FilesInv'
  BY <1>1, FilesKept DEF SignInv
<1>3. CollectedInv'
  BY CollectedKept DEF SignInv
<1> QED
  BY <1>2, <1>3

LEMMA SignCombine ==
  ASSUME SignInv, NEW p \in Pages, Combine(p)
  PROVE  SignInv'
<1>1. /\ stage[p] = "signing" /\ phase[p] = 3
      /\ \/ stage' = [stage EXCEPT ![p] = "done"] /\ UNCHANGED phase
         \/ phase' = [phase EXCEPT ![p] = 4] /\ UNCHANGED stage
      /\ UNCHANGED <<transport, share, known, active, attempt, collected, blobSent, barriers,
                     barrierSent, files, net>>
  BY DEF Combine, fixed, sync
<1>2. PageTypes'
  BY <1>1 DEF SignInv, PageTypes
<1>3. \A q \in Pages : phase'[q] >= phase[q]
  BY <1>1 DEF SignInv, PageTypes
<1>4. FilesInv' /\ CollectedInv'
  BY <1>1, <1>2, <1>3, NothingMade DEF PageTypes
<1>5. stage[Creator] # "choose" /\ attempt[p] >= 1 /\ (Offline => net' = {})
  BY <1>1 DEF SignInv, StageInv
<1>6. PICK s \in {"done", "signing"} : stage' = [stage EXCEPT ![p] = s]
  <2>1. CASE stage' = [stage EXCEPT ![p] = "done"]
    BY <2>1
  <2>2. CASE UNCHANGED stage
    <3>1. stage' = [stage EXCEPT ![p] = "signing"]
      BY <1>1, <2>2 DEF SignInv, PageTypes
    <3> QED
      BY <3>1
  <2> QED
    BY <1>1, <2>1, <2>2
<1>7. /\ IF phase'[p] = 0 THEN attempt'[p] < MaxAttempts ELSE attempt'[p] >= 1
      /\ \A q \in Pages \ {p} : phase'[q] = phase[q] /\ attempt'[q] = attempt[q]
  BY <1>1, <1>5 DEF SignInv, PageTypes
<1>8. StageInv'
  BY <1>1, <1>5, <1>6, <1>7, StageKept DEF SignInv
<1>9. stage'[p] # "choose" /\ \A q \in Pages \ {p} : stage'[q] = stage[q]
  BY <1>6 DEF SignInv, PageTypes
<1>10. PostInv'
  BY <1>1, <1>9, NoMailChanges
<1> QED
  BY <1>2, <1>4, <1>8, <1>10 DEF SignInv

LEMMA SignClearShare ==
  ASSUME SignInv, NEW p \in Pages, ClearShare(p)
  PROVE  SignInv'
<1>1. /\ stage[p] = "signing" /\ attempt[p] < MaxAttempts
      /\ stage' = [stage EXCEPT ![p] = "proposed"]
      /\ phase' = [phase EXCEPT ![p] = 0]
      /\ collected' = [collected EXCEPT ![p] = {}]
      /\ barriers' = [barriers EXCEPT ![p] = {}]
      /\ barrierSent' = [barrierSent EXCEPT ![p] = {}]
      /\ UNCHANGED <<transport, share, known, active, attempt, files, blobSent, net>>
  BY DEF ClearShare, StaysIdle, fixed
<1>2. PageTypes'
  BY <1>1 DEF SignInv, PageTypes
<1>3. \A q \in Pages : attempt'[q] >= attempt[q] /\ attempt'[q] \in Nat
  BY <1>1, SigningAssumption DEF SignInv, PageTypes
<1>4. FilesInv'
  BY <1>1, <1>3, FilesKept DEF SignInv
<1>5. \A q \in Pages : collected'[q] = {} \/ (collected'[q] = collected[q] /\ phase'[q] >= phase[q])
  BY <1>1 DEF SignInv, PageTypes
<1>6. CollectedInv'
  BY <1>1, <1>2, <1>5, CollectedKept DEF SignInv, PageTypes
<1>7. stage[Creator] # "choose" /\ (Offline => net' = {})
  BY <1>1 DEF SignInv, StageInv
<1>8. /\ phase'[p] = 0
      /\ IF phase'[p] = 0 THEN attempt'[p] < MaxAttempts ELSE attempt'[p] >= 1
      /\ \A q \in Pages \ {p} : phase'[q] = phase[q] /\ attempt'[q] = attempt[q]
  BY <1>1 DEF SignInv, PageTypes
<1>9. StageInv'
  BY <1>1, <1>7, <1>8, StageKept DEF SignInv
<1>10. \A q \in Pages \ {p} : stage'[q] = stage[q]
  BY <1>1 DEF SignInv, PageTypes
<1>11. PostInv'
  BY <1>1, <1>10, NoMailChanges
<1> QED
  BY <1>2, <1>4, <1>6, <1>9, <1>11 DEF SignInv

LEMMA SignCancel ==
  ASSUME SignInv, NEW p \in Pages, Cancel(p)
  PROVE  SignInv'
<1>1. /\ stage[p] = "signing"
      /\ stage' = [stage EXCEPT ![p] = "left"]
      /\ known' = [q \in Pages |-> known[q] \cup {p}]
      /\ UNCHANGED <<transport, share, phase, active, attempt, collected, blobSent, barriers, barrierSent,
                     files, net>>
  BY DEF Cancel, fixed, session, sync
<1>2. PageTypes'
  BY <1>1 DEF SignInv, PageTypes
<1>3. FilesInv' /\ CollectedInv'
  BY <1>1, <1>2, NothingMade DEF SignInv, PageTypes
<1>4. stage[Creator] # "choose" /\ (Offline => net' = {})
  BY <1>1 DEF SignInv, StageInv
<1>5. IF phase'[p] = 0 THEN attempt'[p] < MaxAttempts ELSE attempt'[p] >= 1
  BY <1>1 DEF SignInv, StageInv
<1>6. StageInv'
  BY <1>1, <1>4, <1>5, StageKept DEF SignInv
<1>7. \A q \in Pages \ {p} : stage'[q] = stage[q]
  BY <1>1 DEF SignInv, PageTypes
<1>8. PostInv'
  BY <1>1, <1>7, NoMailChanges
<1> QED
  BY <1>2, <1>3, <1>6, <1>8 DEF SignInv

\* Steps that leave the pages alone, and put only blobs and barriers into
\* the mail, over the relay.
LEMMA SignMail ==
  ASSUME SignInv,
         UNCHANGED <<transport, share, stage, phase, active, attempt, files>>,
         known' \in [Pages -> SUBSET Pages], blobSent' \in [Pages -> BOOLEAN],
         DOMAIN barriers' = Pages, barrierSent' \in [Pages -> SUBSET (1 .. 3)],
         DOMAIN collected' = Pages, CollectedInv',
         Offline => net' = {},
         \A m \in net' : m \in net \/
           /\ m = [to |-> m.to, body |-> m.body] /\ m.to \in Pages
           /\ (\E r \in 1 .. 3 : \E q \in Pages : m.body = Barrier(r, q)) \/ m.body \in files
  PROVE  SignInv'
<1>1. PageTypes'
  BY DEF SignInv, PageTypes
<1>2. FilesInv'
  BY DEF SignInv, FilesInv, GoodFile, Nothing
<1>3. StageInv'
  BY DEF SignInv, StageInv, Offline
<1>4. PostInv'
  BY PostKept DEF SignInv
<1> QED
  BY <1>1, <1>2, <1>3, <1>4 DEF SignInv

LEMMA SignSendBlob ==
  ASSUME SignInv, NEW p \in Pages, SendBlob(p)
  PROVE  SignInv'
<1>1. /\ Relay
      /\ net' = net \cup UNION {Mail(p, b) : b \in {c \in Collected(p, phase[p]) : c.by = p}}
      /\ blobSent' = [blobSent EXCEPT ![p] = TRUE]
      /\ UNCHANGED <<transport, share, known, stage, phase, active, attempt, collected, barriers,
                     barrierSent, files>>
  BY DEF SendBlob, fixed, session
<1>2. ASSUME NEW m \in net', m \notin net
      PROVE  /\ m = [to |-> m.to, body |-> m.body] /\ m.to \in Pages
             /\ m.body \in files
  <2>1. PICK b \in Collected(p, phase[p]) : m \in Mail(p, b)
    BY <1>1, <1>2
  <2>2. b \in files
    BY DEF Collected, SignInv, CollectedInv
  <2> QED
    BY <2>1, <2>2 DEF Mail
<1>3. CollectedInv'
  BY <1>1 DEF SignInv, CollectedInv
<1>4. ~Offline
  BY <1>1 DEF Relay, Offline
<1> QED
  BY <1>1, <1>2, <1>3, <1>4, SignMail DEF SignInv, PageTypes

LEMMA SignSendBarrier ==
  ASSUME SignInv, NEW p \in Pages, SendBarrier(p)
  PROVE  SignInv'
<1>1. PICK r \in 1 .. 3 : r = phase[p]
  BY DEF SendBarrier
<1>2. /\ Relay
      /\ barrierSent' = [barrierSent EXCEPT ![p] = @ \cup {r}]
      /\ barriers' = [barriers EXCEPT ![p] = @ \cup {<<r, share[p]>>}]
      /\ net' = net \cup Mail(p, Barrier(r, p))
      /\ UNCHANGED <<transport, share, known, stage, phase, active, attempt, collected, blobSent, files>>
  BY <1>1 DEF SendBarrier, Barrier, fixed, session
<1>3. \A m \in net' : m \in net \/
        /\ m = [to |-> m.to, body |-> m.body] /\ m.to \in Pages
        /\ (\E s \in 1 .. 3 : \E q \in Pages : m.body = Barrier(s, q)) \/ m.body \in files
  BY <1>2 DEF Mail
<1>4. CollectedInv'
  BY <1>2 DEF SignInv, CollectedInv
<1>5. ~Offline
  BY <1>2 DEF Relay, Offline
<1>6. /\ DOMAIN barriers' = Pages /\ barrierSent' \in [Pages -> SUBSET (1 .. 3)]
      /\ known' \in [Pages -> SUBSET Pages] /\ blobSent' \in [Pages -> BOOLEAN]
      /\ DOMAIN collected' = Pages
  BY <1>2 DEF SignInv, PageTypes
<1> QED
  BY <1>2, <1>3, <1>4, <1>5, <1>6, SignMail

LEMMA SignImport ==
  ASSUME SignInv, NEW p \in Pages, Import(p)
  PROVE  SignInv'
<1>1. PICK b \in files : Acceptable(p, b) /\ Collect(p, b)
  BY DEF Import
<1>2. UNCHANGED <<transport, share, known, stage, phase, active, attempt, blobSent, barriers, barrierSent,
                  files, net>>
  BY DEF Import, fixed, sync
<1>3. CollectedInv'
  BY <1>1, <1>2, CollectedTakes DEF SignInv
<1>4. DOMAIN collected' = Pages
  BY <1>1 DEF Collect, SignInv, PageTypes
<1>5. Offline => net' = {}
  BY <1>2 DEF SignInv, StageInv
<1> QED
  BY <1>2, <1>3, <1>4, <1>5, SignMail DEF SignInv, PageTypes

\* What a page does with a message.
LEMMA ReceiveCases ==
  ASSUME SignInv, NEW m \in net, Receive(m)
  PROVE  /\ net' = net \ {m}
         /\ UNCHANGED <<transport, share, unlucky, known, phase, active, attempt, blobSent, barrierSent,
                        files, lost, cleared>>
         /\ \/ /\ m.body = Proposal
               /\ stage' = [stage EXCEPT ![m.to] = "proposed"]
               /\ UNCHANGED <<collected, barriers>>
            \/ UNCHANGED <<stage, collected, barriers>>
            \/ \E r \in 1 .. 3 : \E q \in Pages :
                 /\ m.body = Barrier(r, q) /\ stage[m.to] = "signing"
                 /\ barriers' = [barriers EXCEPT ![m.to] = @ \cup {<<r, share[q]>>}]
                 /\ UNCHANGED <<stage, collected>>
            \/ /\ m.body \in files /\ stage[m.to] = "signing" /\ phase[m.to] # 0
               /\ Acceptable(m.to, m.body) /\ Collect(m.to, m.body)
               /\ UNCHANGED <<stage, barriers>>
<1> DEFINE proposal == [to |-> m.to, body |-> [round |-> 0]]
<1>1. m = [to |-> m.to, body |-> m.body] /\ (m = proposal <=> m.body = Proposal)
  BY DEF SignInv, PostInv, Proposal
<1>2. /\ net' = net \ {m}
      /\ UNCHANGED <<transport, share, unlucky, known, phase, active, attempt, blobSent, barrierSent,
                     files, lost, cleared>>
  BY DEF Receive, fixed
<1>3. CASE m = proposal
  BY <1>1, <1>2, <1>3 DEF Receive
<1>4. CASE m # proposal /\ stage[m.to] # "signing"
  BY <1>2, <1>4 DEF Receive, Miss
<1>5. CASE m # proposal /\ stage[m.to] = "signing" /\ "barrier" \in DOMAIN m.body
  <2>1. PICK r \in 1 .. 3, q \in Pages : m.body = Barrier(r, q)
    BY <1>1, <1>5, BodiesDiffer DEF SignInv, PostInv
  <2>2. m.body.round = r /\ m.body.barrier = share[q]
    BY <2>1 DEF Barrier
  <2>3. /\ barriers' = [barriers EXCEPT ![m.to] = @ \cup {<<m.body.round, m.body.barrier>>}]
        /\ UNCHANGED <<stage, collected>>
    BY <1>5 DEF Receive
  <2> QED
    BY <1>2, <1>5, <2>1, <2>2, <2>3
<1>6. CASE m # proposal /\ stage[m.to] = "signing" /\ "barrier" \notin DOMAIN m.body
  <2>1. m.body \in files
    BY <1>1, <1>6, BodiesDiffer DEF SignInv, PostInv
  <2>2. IF phase[m.to] # 0 /\ Acceptable(m.to, m.body)
        THEN Collect(m.to, m.body) /\ UNCHANGED <<stage, barriers, missed>>
        ELSE Miss(m.to)
    BY <1>6 DEF Receive
  <2> QED
    BY <1>2, <1>6, <2>1, <2>2 DEF Miss
<1> QED
  BY <1>3, <1>4, <1>5, <1>6

LEMMA SignReceive ==
  ASSUME SignInv, NEW m \in net, Receive(m)
  PROVE  SignInv'
<1>1. /\ net' = net \ {m}
      /\ UNCHANGED <<transport, share, known, phase, active, attempt, blobSent, barrierSent, files>>
  BY ReceiveCases
<1>2. PICK p \in Pages : p = m.to
  BY DEF SignInv, PostInv
<1>3. Offline => net' = {}
  BY <1>1 DEF SignInv, StageInv
<1>4. CASE /\ m.body = Proposal
           /\ stage' = [stage EXCEPT ![p] = "proposed"]
           /\ UNCHANGED <<collected, barriers>>
  <2>1. stage[p] = "choose" /\ stage[Creator] # "choose"
    BY <1>2, <1>4, BodiesDiffer DEF SignInv, PostInv
  <2>2. phase[p] = 0 /\ attempt[p] < MaxAttempts
    BY <2>1 DEF SignInv, StageInv
  <2>3. PageTypes'
    BY <1>1, <1>4 DEF SignInv, PageTypes
  <2>4. FilesInv' /\ CollectedInv'
    BY <1>1, <1>4, <2>3, NothingMade DEF SignInv, PageTypes
  <2>5. StageInv'
    <3>1. \A q \in Pages : stage'[q] \in {"choose", "proposed"} => phase'[q] = 0
      BY <1>1, <1>4, <2>2 DEF SignInv, StageInv, PageTypes
    <3>2. stage'[Creator] # "choose"
      BY <2>1, <1>4, SignersFinite DEF SignInv, PageTypes
    <3> QED
      BY <1>1, <1>3, <3>1, <3>2 DEF SignInv, StageInv, Offline
  <2>6. PostInv'
    <3>1. \A k \in net' : k.body = Proposal => k.to # p
      BY <1>1, <1>2, <1>4 DEF SignInv, PostInv
    <3>2. \A k \in net' : k \in net /\ k.body = Proposal /\ stage[k.to] = "choose" => stage'[k.to] = "choose"
      BY <3>1, <1>4 DEF SignInv, PostInv, PageTypes
    <3>3. stage'[Creator] # "choose"
      BY <1>4, <2>1, SignersFinite DEF SignInv, PageTypes
    <3> QED
      BY <1>1, <3>2, <3>3, PostKept DEF SignInv
  <2> QED
    BY <2>3, <2>4, <2>5, <2>6 DEF SignInv
<1>5. CASE UNCHANGED <<stage, collected, barriers>>
  BY <1>1, <1>3, <1>5, SignMail DEF SignInv, PageTypes, CollectedInv
<1>6. ASSUME NEW r \in 1 .. 3, NEW q \in Pages,
             barriers' = [barriers EXCEPT ![p] = @ \cup {<<r, share[q]>>}],
             UNCHANGED <<stage, collected>>
      PROVE  SignInv'
  BY <1>1, <1>3, <1>6, SignMail DEF SignInv, PageTypes, CollectedInv
<1>7. CASE /\ m.body \in files /\ Acceptable(p, m.body) /\ Collect(p, m.body)
           /\ UNCHANGED <<stage, barriers>>
  <2>1. CollectedInv'
    BY <1>1, <1>7, CollectedTakes DEF SignInv
  <2>2. DOMAIN collected' = Pages
    BY <1>7 DEF Collect, SignInv, PageTypes
  <2> QED
    BY <1>1, <1>3, <1>7, <2>1, <2>2, SignMail DEF SignInv, PageTypes
<1> QED
  BY <1>2, <1>4, <1>5, <1>6, <1>7, ReceiveCases

LEMMA SignQuiet ==
  ASSUME SignInv, UNCHANGED vars \/ (\E p \in Pages : Reconnected(p)) \/ (\E m \in net : Lose(m))
  PROVE  SignInv'
<1>1. /\ UNCHANGED <<transport, share, stage, phase, active, attempt, collected, blobSent, barriers,
                     barrierSent, files>>
      /\ net' \subseteq net
      /\ UNCHANGED known \/ \E p \in Pages : known' = [q \in Pages |-> known[q] \cup {p}]
  BY DEF Reconnected, Lose, vars, fixed, session, sync
<1>2. known' \in [Pages -> SUBSET Pages]
  BY <1>1 DEF SignInv, PageTypes
<1>3. Offline => net' = {}
  BY <1>1 DEF SignInv, StageInv
<1>4. CollectedInv'
  BY <1>1 DEF SignInv, CollectedInv
<1> QED
  BY <1>1, <1>2, <1>3, <1>4, SignMail DEF SignInv, PageTypes

LEMMA SignStep ==
  ASSUME SignInv, [Next]_vars
  PROVE  SignInv'
  BY SignPropose, SignImportProposal, SignUnlock, SignStartSigning, SignAdvance, SignCombine, SignRetry,
     SignSendBlob, SignSendBarrier, SignImport, SignReceive, SignClearShare, SignCancel, SignQuiet
     DEF Next, Progress, Page

LEMMA SignInvAlways == Spec => []SignInv
  BY InitSignInv, SignStep, PTL DEF Spec

\* Of a share and round a page has one blob.
LEMMA FromOnce ==
  ASSUME SignInv, NEW p \in Pages, NEW r
  PROVE  Cardinality(From(p, r)) = Count(p, r)
<1> DEFINE S == Collected(p, r)
           f == [b \in S |-> b.from]
           C == From(p, r)
<1>1. f \in [S -> C] /\ \A q \in C : \E b \in S : f[b] = q
  BY DEF From
<1>2. \A b, c \in S : f[b] = f[c] => b = c
  BY DEF SignInv, CollectedInv, Collected
<1>3. IsFiniteSet(C)
  <2>1. \A b \in S : b.from \in {share[q] : q \in Pages}
    BY DEF Collected, SignInv, CollectedInv, FilesInv, GoodFile
  <2>2. C \subseteq Ids
    BY <2>1 DEF From, SignInv, PageTypes
  <2>3. IsFiniteSet(Ids)
    BY SigningAssumption, FS_Interval DEF Ids
  <2> QED
    BY <2>2, <2>3, FS_Subset
<1>4. Count(p, r) = Cardinality(S)
  BY DEF Count
<1> HIDE DEF S, f, C
<1>5. Cardinality(S) = Cardinality(C)
  BY <1>1, <1>2, <1>3, OneForEach
<1> QED
  BY <1>4, <1>5 DEF C

(* Whatever is imported, delivered, retried or cleared, a page counts one  *)
(* blob of a share in a round, and only blobs that somebody made.          *)
THEOREM SigningTypeCorrect == Spec => []SigningTypeOK
<1>1. SignInv => SigningTypeOK
  BY FromOnce DEF SignInv, PageTypes, CollectedInv, SigningTypeOK
<1> QED
  BY <1>1, SignInvAlways, PTL

-----------------------------------------------------------------------------
LEMMA InitRelayed == Init => RelayedInv
<1> SUFFICES ASSUME Init PROVE Relayed
  BY DEF RelayedInv
<1> USE DEF Init
<1>1. StartedInv /\ SentInv /\ PastInv
  BY DEF StartedInv, SentInv, PastInv, Past
<1>2. GotInv /\ TogetherInv /\ FreshInv /\ OutcomeInv
  BY DEF GotInv, TogetherInv, FreshInv, OutcomeInv
<1> QED
  BY <1>1, <1>2 DEF Relayed

\* T barriers of a round are one from everybody.
LEMMA BarriersFull ==
  ASSUME SignInv, GotInv, NEW p \in Pages, NEW r,
         Cardinality({x \in barriers[p] : x[1] = r}) >= T
  PROVE  \A q \in Pages : <<r, share[q]>> \in barriers[p]
<1> DEFINE S == {x \in barriers[p] : x[1] = r}
           f == [x \in S |-> CHOOSE q \in Pages : x = <<r, share[q]>>]
<1>1. \A x \in S : f[x] \in Pages /\ x = <<r, share[f[x]]>>
  <2> SUFFICES ASSUME NEW x \in S PROVE f[x] \in Pages /\ x = <<r, share[f[x]]>>
    OBVIOUS
  <2>1. \E q \in Pages : x = <<r, share[q]>>
    BY DEF GotInv
  <2> QED
    BY <2>1
<1>2. f \in [S -> Pages]
  BY <1>1
<1>3. \A x, y \in S : f[x] = f[y] => x = y
  <2> HIDE DEF f
  <2> QED
    BY <1>1
<1>4. Cardinality(S) >= Cardinality(Pages)
  BY SignersFinite
<1>5. \A x \in S : x \in barriers[p]
  OBVIOUS
<1> HIDE DEF S, f
<1>6. \A q \in Pages : \E x \in S : f[x] = q
  BY <1>2, <1>3, <1>4, SignersFinite, Covering
<1> QED
  BY <1>1, <1>5, <1>6

\* What was sent stays sent, in a page that goes on.
Onward(q) ==
  \/ attempt'[q] > attempt[q]
  \/ /\ attempt'[q] = attempt[q] /\ barrierSent[q] \subseteq barrierSent'[q]
     /\ phase'[q] > phase[q] \/ (phase'[q] = phase[q] /\ (blobSent[q] => blobSent'[q]))

LEMMA BarrierStaysOut ==
  ASSUME SignInv, SignInv', NEW q \in Pages, Onward(q), NEW a \in Int, NEW r, BarrierOut(q, a, r)
  PROVE  BarrierOut(q, a, r)'
<1>1. attempt[q] \in Int /\ attempt'[q] \in Int
  BY SigningAssumption DEF SignInv, PageTypes
<1> QED
  BY <1>1 DEF Onward, BarrierOut

LEMMA BlobStaysOut ==
  ASSUME SignInv, SignInv', NEW b, GoodFile(b), Onward(b.by), BlobOut(b)
  PROVE  BlobOut(b)'
<1>1. attempt[b.by] \in Int /\ attempt'[b.by] \in Int /\ phase[b.by] \in Int /\ phase'[b.by] \in Int
  BY SigningAssumption DEF SignInv, PageTypes, GoodFile
<1>2. b.attempt \in Int /\ b.attempt <= attempt[b.by] /\ b.round \in Int
  BY <1>1 DEF GoodFile
<1> QED
  BY <1>1, <1>2 DEF Onward, BlobOut

LEMMA CombinesKept ==
  ASSUME NEW p \in Pages, collected'[p] = collected[p], active'[p] = active[p], UNCHANGED unlucky
  PROVE  Combines(p)' <=> Combines(p)
<1>1. \A r : Collected(p, r)' = Collected(p, r)
  BY DEF Collected
<1>2. \A r : From(p, r)' = From(p, r)
  BY <1>1 DEF From
<1>3. \A r, ids : Of(p, r, ids)' = Of(p, r, ids)
  BY <1>1 DEF Of
<1>4. HasAll(p, 2)' = HasAll(p, 2) /\ HasAll(p, 3)' = HasAll(p, 3)
  BY <1>2 DEF HasAll
<1> QED
  BY <1>3, <1>4 DEF Combines, Masks

\* Steps that concern no blob and no barrier.
LEMMA RelayedQuiet ==
  ASSUME SignInv, Relayed,
         UNCHANGED <<share, unlucky, phase, active, attempt, blobSent, barrierSent, files>>,
         \A q \in Pages : barriers'[q] = barriers[q] /\ collected'[q] = collected[q],
         \A q \in Pages : known[q] = Pages => known'[q] = Pages,
         \A q \in Pages : stage'[q] = "done" => stage[q] = "done",
         \A m \in net' : m \in net \/ m.body = Proposal
  PROVE  Relayed'
<1> USE DEF Relayed
<1>1. StartedInv'
  BY DEF StartedInv
<1>2. SentInv' /\ PastInv'
  BY DEF SentInv, PastInv, Past, Full
<1>3. GotInv' /\ TogetherInv'
  BY DEF GotInv, TogetherInv, BarrierOut, BlobOut
<1>4. FreshInv'
  <2>1. \A r, q : Barrier(r, q)' = Barrier(r, q)
    BY DEF Barrier
  <2>2. Proposal \notin files /\ \A r \in 1 .. 3 : \A q : Barrier(r, q) # Proposal
    BY BodiesDiffer DEF SignInv
  <2>3. \A m \in net' : (m.body \in files \/ \E r \in 1 .. 3 : \E q \in Pages : m.body = Barrier(r, q)) => m \in net
    BY <2>2
  <2> SUFFICES ASSUME NEW m \in net' PROVE Fresh(m)'
    BY DEF FreshInv
  <2>4. CASE m \in net
    <3>1. m.to \in Pages
      BY <2>4 DEF SignInv, PostInv
    <3> QED
      BY <2>1, <2>4, <3>1 DEF FreshInv, Fresh, BarrierOut, BlobOut
  <2>5. CASE m \notin net
    BY <2>1, <2>3, <2>5 DEF Fresh
  <2> QED
    BY <2>4, <2>5
<1>5. OutcomeInv'
  BY CombinesKept DEF OutcomeInv
<1> QED
  BY <1>1, <1>2, <1>3, <1>4, <1>5

LEMMA OthersGoOn ==
  ASSUME SignInv, NEW q \in Pages,
         attempt'[q] = attempt[q], barrierSent'[q] = barrierSent[q],
         phase'[q] = phase[q], blobSent'[q] = blobSent[q]
  PROVE  Onward(q)
  BY DEF Onward

\* What is under way as a blob was one when it was sent.
LEMMA StillAFile ==
  ASSUME SignInv, SignInv', UNCHANGED share, NEW m \in net, m.body \in files'
  PROVE  m.body \in files
<1>1. PICK b : b = m.body
  OBVIOUS
<1>2. GoodFile(b)'
  BY <1>1 DEF SignInv, FilesInv
<1>3. DOMAIN b = {"round", "from", "by", "attempt", "on"} /\ b.round \in 1 .. 3
  BY <1>2 DEF GoodFile
<1>4. b # Proposal
  BY <1>3 DEF Proposal
<1>5. \A r, q : b # Barrier(r, q)
  <2>1. \A r, q : DOMAIN Barrier(r, q) = {"round", "barrier"}
    BY DEF Barrier
  <2> QED
    BY <2>1, <1>3
<1> QED
  BY <1>1, <1>4, <1>5 DEF SignInv, PostInv

\* Mail stays fresh as long as its page has not got it.
LEMMA FreshKept ==
  ASSUME SignInv, SignInv', FreshInv, UNCHANGED <<share, attempt>>, \A q \in Pages : Onward(q),
         NEW m \in net,
         \A r \in 1 .. 3 : \A q \in Pages :
           m.body = Barrier(r, q) /\ <<r, share[q]>> \in barriers'[m.to] => <<r, share[q]>> \in barriers[m.to],
         m.body \in collected'[m.to] => m.body \in collected[m.to]
  PROVE  Fresh(m)'
<1>1. \A r, q : Barrier(r, q)' = Barrier(r, q)
  BY DEF Barrier
<1>2. m.to \in Pages /\ attempt[m.to] \in Int
  BY SigningAssumption DEF SignInv, PostInv, PageTypes
<1>3. ASSUME NEW r \in 1 .. 3, NEW q \in Pages, m.body = Barrier(r, q)
      PROVE  /\ attempt'[m.to] >= 1 /\ <<r, share'[q]>> \notin barriers'[m.to]
             /\ (attempt'[q] > attempt'[m.to] \/ (attempt'[q] = attempt'[m.to] /\ r \in barrierSent'[q]))
  <2>1. attempt[m.to] >= 1 /\ BarrierOut(q, attempt[m.to], r) /\ <<r, share[q]>> \notin barriers[m.to]
    BY <1>3 DEF FreshInv, Fresh
  <2>2. PICK a \in Int : a = attempt[m.to]
    BY <1>2
  <2>3. BarrierOut(q, a, r)'
    BY <2>1, <2>2, BarrierStaysOut
  <2> QED
    BY <1>3, <2>1, <2>2, <2>3 DEF BarrierOut
<1>4. ASSUME m.body \in files'
      PROVE  /\ m.body.by # m.to /\ m.body.attempt >= attempt'[m.to]
             /\ m.body \notin collected'[m.to] /\ BlobOut(m.body)'
  <2>1. m.body \in files
    BY <1>4, StillAFile
  <2>2. PICK b : b = m.body
    OBVIOUS
  <2>3. GoodFile(b) /\ b.by \in Pages
    BY <2>1, <2>2 DEF SignInv, FilesInv, GoodFile
  <2>4. /\ b.by # m.to /\ b.attempt >= attempt[m.to]
        /\ b \notin collected[m.to] /\ BlobOut(b)
    BY <2>1, <2>2 DEF FreshInv, Fresh
  <2>5. BlobOut(b)'
    BY <2>3, <2>4, BlobStaysOut
  <2> QED
    BY <2>2, <2>4, <2>5
<1> QED
  BY <1>1, <1>3, <1>4 DEF Fresh, BarrierOut

\* A page leaves a round.
LEMMA RelayedAdvance ==
  ASSUME SignInv, SignInv', Relayed, Unbroken, NEW p \in Pages, NEW r \in 1 .. 2, Advance(p, r)
  PROVE  Relayed'
<1> USE DEF Relayed
<1>1. PICK b0 : /\ b0.by = p /\ b0.round = r + 1 /\ b0.attempt = attempt[p]
                /\ collected' = [collected EXCEPT ![p] = @ \cup {b0}]
                /\ files' = files \cup {b0}
  <2> DEFINE on0 == IF r = 1 THEN Nothing
                    ELSE [ids |-> active[p], masks |-> Masks(Of(p, 2, active[p]))]
  <2>1. PICK on, b0 : on = on0 /\ b0 = Blob(p, r + 1, on)
    OBVIOUS
  <2>2. /\ collected' = [collected EXCEPT ![p] = @ \cup {b0}]
        /\ files' = files \cup {b0}
    BY <2>1 DEF Advance
  <2>3. b0.by = p /\ b0.round = r + 1 /\ b0.attempt = attempt[p]
    BY <2>1 DEF Blob, Advance
  <2> QED
    BY <2>2, <2>3
<1>2. /\ stage[p] = "signing" /\ phase[p] = r /\ MayProceed(p, r)
      /\ phase' = [phase EXCEPT ![p] = r + 1]
      /\ blobSent' = [blobSent EXCEPT ![p] = FALSE]
      /\ UNCHANGED <<active, attempt, share, unlucky, known, stage, barriers, barrierSent, net>>
  BY DEF Advance, fixed
<1>3. /\ phase'[p] = r + 1 /\ collected'[p] = collected[p] \cup {b0} /\ blobSent'[p] = FALSE
      /\ \A q \in Pages \ {p} : phase'[q] = phase[q] /\ collected'[q] = collected[q] /\ blobSent'[q] = blobSent[q]
  BY <1>1, <1>2 DEF SignInv, PageTypes
<1>4. \A q \in Pages : Onward(q)
  BY <1>2, <1>3, OthersGoOn DEF Onward
<1>5. \A q \in Pages : <<r, share[q]>> \in barriers[p]
  <2>1. attempt[p] >= 1
    BY <1>2 DEF SignInv, StageInv
  <2>2. active[p] = Pages
    BY <2>1 DEF StartedInv
  <2>3. Cardinality({x \in barriers[p] : x[1] = r}) >= T
    BY <1>2, <2>2, SignersFinite DEF MayProceed, Unbroken
  <2> QED
    BY <2>3, BarriersFull
<1>6. StartedInv'
  BY <1>2, <1>3 DEF StartedInv
<1>7. SentInv'
  <2> SUFFICES ASSUME NEW q \in Pages, NEW s \in barrierSent[q]
               PROVE  /\ s <= phase'[q] /\ Full(q, s)'
                      /\ phase'[q] = s => blobSent'[q]
    BY <1>2 DEF SentInv
  <2>1. s <= phase[q] /\ Full(q, s) /\ (phase[q] = s => blobSent[q]) /\ s \in Int /\ phase[q] \in Int
    BY DEF SentInv, SignInv, PageTypes
  <2>2. Full(q, s)'
    BY <2>1, <1>3 DEF Full
  <2> QED
    BY <2>1, <2>2, <1>2, <1>3
<1>8. PastInv'
  BY <1>2, <1>3, <1>5 DEF PastInv, Past, SignInv, PageTypes
<1>9. GotInv'
  <2>1. ASSUME NEW q \in Pages, NEW x \in barriers'[q]
        PROVE  \E u \in Pages : \E s \in 1 .. 3 : x = <<s, share'[u]>> /\ BarrierOut(u, attempt[q], s)'
    <3>1. PICK u \in Pages, s \in 1 .. 3 : x = <<s, share[u]>> /\ BarrierOut(u, attempt[q], s)
      BY <1>2, <2>1 DEF GotInv
    <3> QED
      BY <3>1, <1>2 DEF BarrierOut
  <2>2. ASSUME NEW q \in Pages, NEW b \in collected'[q]
        PROVE  b.attempt = attempt'[q] /\ (b.by # q => BlobOut(b)')
    <3>1. CASE b \in collected[q]
      <4>1. GoodFile(b) /\ b.by \in Pages
        BY <3>1 DEF SignInv, CollectedInv, FilesInv, GoodFile
      <4> QED
        BY <3>1, <4>1, <1>2, <1>4, BlobStaysOut DEF GotInv
    <3>2. CASE b = b0 /\ q = p
      BY <3>2, <1>1, <1>2
    <3> QED
      BY <3>1, <3>2, <1>3
  <2> QED
    BY <2>1, <2>2, <1>2 DEF GotInv
<1>10. TogetherInv'
  BY <1>2 DEF TogetherInv
<1>11. FreshInv'
  <2> SUFFICES ASSUME NEW m \in net PROVE Fresh(m)'
    BY <1>2 DEF FreshInv
  <2>1. m.body \in files => m.body.by # m.to
    BY DEF FreshInv, Fresh
  <2>2. m.to \in Pages
    BY DEF SignInv, PostInv
  <2>3. ASSUME m.body = b0 PROVE m.to # p
    <3>1. b0 \in files'
      BY <1>1
    <3>2. m.body \in files
      BY <2>3, <3>1, <1>2, StillAFile
    <3> QED
      BY <1>1, <2>1, <2>3, <3>2
  <2> QED
    BY <1>2, <1>3, <1>4, <2>2, <2>3, FreshKept
<1>12. OutcomeInv'
  <2> SUFFICES ASSUME NEW q \in Pages
               PROVE  /\ stage'[q] = "done" => Combines(q)'
                      /\ phase'[q] = 4 => ~Combines(q)'
    BY DEF OutcomeInv
  <2>1. CASE q = p
    BY <2>1, <1>2, <1>3
  <2>2. CASE q # p
    BY <2>2, <1>2, <1>3, CombinesKept DEF OutcomeInv
  <2> QED
    BY <2>1, <2>2
<1> QED
  BY <1>6, <1>7, <1>8, <1>9, <1>10, <1>11, <1>12

\* A page ends its attempt, one way or the other.
LEMMA RelayedCombine ==
  ASSUME SignInv, SignInv', Relayed, Unbroken, NEW p \in Pages, Combine(p)
  PROVE  Relayed'
<1> USE DEF Relayed
<1>1. /\ stage[p] = "signing" /\ phase[p] = 3 /\ MayProceed(p, 3)
      /\ \/ stage' = [stage EXCEPT ![p] = "done"] /\ UNCHANGED phase /\ Combines(p)
         \/ phase' = [phase EXCEPT ![p] = 4] /\ UNCHANGED stage /\ ~Combines(p)
      /\ UNCHANGED <<share, unlucky, known, active, attempt, collected, blobSent, barriers, barrierSent,
                     files, net>>
  BY DEF Combine, fixed, sync
<1>a. stage \in [Pages -> {"choose", "proposed", "signing", "done", "left"}] /\ phase \in [Pages -> 0 .. 4]
  BY DEF SignInv, PageTypes
<1>2. /\ phase'[p] \in {3, 4} /\ (stage'[p] = "done" => phase'[p] = 3)
      /\ stage'[p] = "done" => Combines(p)
      /\ phase'[p] = 4 => ~Combines(p)
      /\ \A q \in Pages \ {p} : phase'[q] = phase[q] /\ stage'[q] = stage[q]
      /\ \A q \in Pages : phase'[q] >= phase[q]
  <2>1. CASE stage' = [stage EXCEPT ![p] = "done"] /\ phase' = phase /\ Combines(p)
    <3>1. stage'[p] = "done" /\ phase'[p] = 3
      BY <1>1, <1>a, <2>1
    <3>2. \A q \in Pages \ {p} : stage'[q] = stage[q]
      BY <1>a, <2>1
    <3>3. \A q \in Pages : phase'[q] >= phase[q]
      BY <1>a, <2>1
    <3> QED
      BY <2>1, <3>1, <3>2, <3>3
  <2>2. CASE phase' = [phase EXCEPT ![p] = 4] /\ stage' = stage /\ ~Combines(p)
    <3>1. stage'[p] = "signing" /\ phase'[p] = 4
      BY <1>1, <1>a, <2>2
    <3>2. \A q \in Pages \ {p} : phase'[q] = phase[q]
      BY <1>a, <2>2
    <3>3. \A q \in Pages : phase'[q] >= phase[q]
      BY <1>a, <2>2
    <3> QED
      BY <2>2, <3>1, <3>2, <3>3
  <2> QED
    BY <1>1, <2>1, <2>2
<1>3. \A q \in Pages : Onward(q)
  <2>1. \A q \in Pages : phase[q] \in Int /\ phase'[q] \in Int
    BY DEF SignInv, PageTypes
  <2> QED
    BY <1>1, <1>2, <2>1 DEF Onward
<1>4. \A q \in Pages : <<3, share[q]>> \in barriers[p]
  <2>1. attempt[p] >= 1
    BY <1>1 DEF SignInv, StageInv
  <2>2. active[p] = Pages
    BY <2>1 DEF StartedInv
  <2>3. Cardinality({x \in barriers[p] : x[1] = 3}) >= T
    BY <1>1, <2>2, SignersFinite DEF MayProceed, Unbroken
  <2> QED
    BY <2>3, BarriersFull
<1>5. StartedInv'
  BY <1>1, <1>2 DEF StartedInv
<1>6. SentInv'
  <2> SUFFICES ASSUME NEW q \in Pages, NEW s \in barrierSent[q]
               PROVE  /\ s <= phase'[q] /\ Full(q, s)'
                      /\ phase'[q] = s => blobSent'[q]
    BY <1>1 DEF SentInv
  <2>1. s <= phase[q] /\ Full(q, s) /\ (phase[q] = s => blobSent[q]) /\ s \in 1 .. 3 /\ phase[q] \in Int /\ phase'[q] \in Int
    BY DEF SentInv, SignInv, PageTypes
  <2>2. Full(q, s)'
    BY <2>1, <1>1 DEF Full
  <2> QED
    BY <2>1, <2>2, <1>1, <1>2
<1>7. PastInv'
  BY <1>1, <1>2, <1>4 DEF PastInv, Past, SignInv, PageTypes
<1>8. GotInv'
  <2>1. ASSUME NEW q \in Pages, NEW x \in barriers'[q]
        PROVE  \E u \in Pages : \E s \in 1 .. 3 : x = <<s, share'[u]>> /\ BarrierOut(u, attempt[q], s)'
    <3>1. PICK u \in Pages, s \in 1 .. 3 : x = <<s, share[u]>> /\ BarrierOut(u, attempt[q], s)
      BY <1>1, <2>1 DEF GotInv
    <3> QED
      BY <3>1, <1>1 DEF BarrierOut
  <2>2. ASSUME NEW q \in Pages, NEW b \in collected'[q]
        PROVE  b.attempt = attempt'[q] /\ (b.by # q => BlobOut(b)')
    <3>1. b \in collected[q]
      BY <1>1
    <3>2. GoodFile(b) /\ b.by \in Pages
      BY <3>1 DEF SignInv, CollectedInv, FilesInv, GoodFile
    <3> QED
      BY <3>1, <3>2, <1>1, <1>3, BlobStaysOut DEF GotInv
  <2> QED
    BY <2>1, <2>2, <1>1 DEF GotInv
<1>9. TogetherInv'
  BY <1>1 DEF TogetherInv
<1>10. FreshInv'
  <2> SUFFICES ASSUME NEW m \in net PROVE Fresh(m)'
    BY <1>1 DEF FreshInv
  <2> QED
    BY <1>1, <1>3, FreshKept
<1>11. OutcomeInv'
  <2> SUFFICES ASSUME NEW q \in Pages
               PROVE  /\ stage'[q] = "done" => Combines(q)'
                      /\ phase'[q] = 4 => ~Combines(q)'
    BY DEF OutcomeInv
  <2>1. Combines(q)' <=> Combines(q)
    BY <1>1, CombinesKept
  <2>2. CASE q = p
    BY <2>1, <2>2, <1>2
  <2>3. CASE q # p
    BY <2>1, <2>3, <1>2 DEF OutcomeInv
  <2> QED
    BY <2>2, <2>3
<1> QED
  BY <1>5, <1>6, <1>7, <1>8, <1>9, <1>10, <1>11

\* A page sends its blob: nobody has it, and nobody is ahead.
LEMMA RelayedSendBlob ==
  ASSUME SignInv, SignInv', Relayed, Unbroken, NEW p \in Pages, SendBlob(p)
  PROVE  Relayed'
<1> USE DEF Relayed
<1>1. /\ phase[p] \in 1 .. 3 /\ ~blobSent[p]
      /\ net' = net \cup UNION {Mail(p, b) : b \in {c \in Collected(p, phase[p]) : c.by = p}}
      /\ blobSent' = [blobSent EXCEPT ![p] = TRUE]
      /\ UNCHANGED <<share, unlucky, known, stage, phase, active, attempt, collected, barriers,
                     barrierSent, files>>
  BY DEF SendBlob, fixed, session
<1>2. blobSent'[p] = TRUE /\ \A q \in Pages \ {p} : blobSent'[q] = blobSent[q]
  BY <1>1 DEF SignInv, PageTypes
<1>3. \A q \in Pages : Onward(q)
  BY <1>1, <1>2 DEF Onward
<1>4. StartedInv' /\ TogetherInv'
  BY <1>1 DEF StartedInv, TogetherInv
<1>5. SentInv' /\ PastInv'
  BY <1>1, <1>2 DEF SentInv, PastInv, Past, Full
<1>6. GotInv'
  <2>1. ASSUME NEW q \in Pages, NEW x \in barriers'[q]
        PROVE  \E u \in Pages : \E s \in 1 .. 3 : x = <<s, share'[u]>> /\ BarrierOut(u, attempt[q], s)'
    <3>1. PICK u \in Pages, s \in 1 .. 3 : x = <<s, share[u]>> /\ BarrierOut(u, attempt[q], s)
      BY <1>1, <2>1 DEF GotInv
    <3> QED
      BY <3>1, <1>1 DEF BarrierOut
  <2>2. ASSUME NEW q \in Pages, NEW b \in collected'[q]
        PROVE  b.attempt = attempt'[q] /\ (b.by # q => BlobOut(b)')
    <3>1. b \in collected[q]
      BY <1>1
    <3>2. GoodFile(b) /\ b.by \in Pages
      BY <3>1 DEF SignInv, CollectedInv, FilesInv, GoodFile
    <3> QED
      BY <3>1, <3>2, <1>1, <1>3, BlobStaysOut DEF GotInv
  <2> QED
    BY <2>1, <2>2, <1>1 DEF GotInv
<1>7. FreshInv'
  <2> SUFFICES ASSUME NEW m \in net' PROVE Fresh(m)'
    BY DEF FreshInv
  <2>1. CASE m \in net
    BY <2>1, <1>1, <1>3, FreshKept
  <2>2. CASE m \notin net
    <3>1. PICK b \in Collected(p, phase[p]) : b.by = p /\ m \in Mail(p, b)
      BY <1>1, <2>2
    <3>2. PICK q \in Pages : q # p /\ m.to = q /\ m.body = b
      BY <3>1 DEF Mail
    <3>3. b \in collected[p] /\ b.round = phase[p] /\ b \in files
      BY DEF Collected, SignInv, CollectedInv
    <3>4. b.attempt = attempt[p]
      BY <3>3 DEF GotInv
    <3>5. attempt[p] >= attempt[q]
      <4>1. ASSUME attempt[q] > attempt[p] PROVE FALSE
        <5>1. attempt[p] # 0
          BY <1>1 DEF StartedInv
        <5>2. phase[p] \in barrierSent[p]
          BY <1>1, <4>1, <5>1 DEF TogetherInv
        <5> QED
          BY <1>1, <5>2 DEF SentInv
      <4>2. attempt[p] \in Int /\ attempt[q] \in Int
        BY SigningAssumption DEF SignInv, PageTypes
      <4> QED
        BY <4>1, <4>2
    <3>6. b \notin collected[q]
      <4> SUFFICES ASSUME b \in collected[q] PROVE FALSE
        OBVIOUS
      <4>1. BlobOut(b)
        BY <3>1, <3>2 DEF GotInv
      <4>2. attempt[p] \in Int /\ phase[p] \in Int
        BY <1>1, SigningAssumption DEF SignInv, PageTypes
      <4> QED
        BY <1>1, <3>1, <3>3, <3>4, <4>1, <4>2 DEF BlobOut
    <3>7. BlobOut(b)'
      BY <1>1, <1>2, <3>1, <3>3 DEF BlobOut
    <3>8. \A r \in 1 .. 3 : \A u : b # Barrier(r, u)'
      <4>1. \A r, u : Barrier(r, u)' = Barrier(r, u)
        BY <1>1 DEF Barrier
      <4> QED
        BY <4>1, <3>3, BodiesDiffer DEF SignInv
    <3> QED
      BY <1>1, <3>1, <3>2, <3>4, <3>5, <3>6, <3>7, <3>8 DEF Fresh
  <2> QED
    BY <2>1, <2>2
<1>8. OutcomeInv'
  BY <1>1, CombinesKept DEF OutcomeInv
<1> QED
  BY <1>4, <1>5, <1>6, <1>7, <1>8

\* What a page with everybody's blobs knows of the others: they are in its
\* attempt, or past it.
LEMMA FullMeansBegun ==
  ASSUME SignInv, GotInv, NEW p \in Pages, NEW r, Full(p, r), NEW q \in Pages
  PROVE  attempt[q] >= attempt[p]
<1>1. PICK b \in collected[p] : b.by = q
  BY DEF Full
<1>2. GoodFile(b) /\ b.attempt = attempt[p]
  BY DEF GotInv, SignInv, CollectedInv, FilesInv
<1> QED
  BY <1>1, <1>2 DEF GoodFile

\* A page sends its barrier.
LEMMA RelayedSendBarrier ==
  ASSUME SignInv, SignInv', Relayed, Unbroken, NEW p \in Pages, SendBarrier(p)
  PROVE  Relayed'
<1> USE DEF Relayed
<1>1. PICK r \in 1 .. 3 : r = phase[p]
  BY DEF SendBarrier
<1>2. /\ blobSent[p] /\ Count(p, r) >= Cardinality(active[p]) /\ r \notin barrierSent[p]
      /\ barrierSent' = [barrierSent EXCEPT ![p] = @ \cup {r}]
      /\ barriers' = [barriers EXCEPT ![p] = @ \cup {<<r, share[p]>>}]
      /\ net' = net \cup Mail(p, Barrier(r, p))
      /\ UNCHANGED <<share, unlucky, known, stage, phase, active, attempt, collected, blobSent, files>>
  BY <1>1 DEF SendBarrier, Barrier, fixed, session
<1>3. /\ barrierSent'[p] = barrierSent[p] \cup {r} /\ barriers'[p] = barriers[p] \cup {<<r, share[p]>>}
      /\ \A q \in Pages \ {p} : barrierSent'[q] = barrierSent[q] /\ barriers'[q] = barriers[q]
  BY <1>2 DEF SignInv, PageTypes
<1>4. \A q \in Pages : Onward(q)
  BY <1>2, <1>3 DEF Onward
<1>5. attempt[p] >= 1 /\ attempt[p] \in Int /\ \A q \in Pages : attempt[q] \in Int
  BY <1>1, SigningAssumption DEF SignInv, StageInv, PageTypes
<1>6. Full(p, r)
  <2>1. active[p] = Pages
    BY <1>5 DEF StartedInv
  <2>2. Count(p, r) >= T
    BY <1>2, <2>1, SignersFinite
  <2> QED
    BY <2>2, CountedFull DEF SignInv
<1>7. \A q \in Pages : attempt[q] = attempt[p]
  <2> SUFFICES ASSUME NEW q \in Pages PROVE attempt[q] = attempt[p]
    OBVIOUS
  <2>1. attempt[q] >= attempt[p]
    BY <1>6, FullMeansBegun
  <2>2. ~(attempt[q] > attempt[p])
    BY <1>2, <1>5 DEF TogetherInv
  <2> QED
    BY <1>5, <2>1, <2>2
<1>8. \A q \in Pages : <<r, share[p]>> \notin barriers[q]
  <2> SUFFICES ASSUME NEW q \in Pages, <<r, share[p]>> \in barriers[q] PROVE FALSE
    OBVIOUS
  <2>1. PICK u \in Pages, s \in 1 .. 3 : <<r, share[p]>> = <<s, share[u]>> /\ BarrierOut(u, attempt[q], s)
    BY DEF GotInv
  <2>2. u = p /\ s = r
    BY <2>1 DEF SignInv, PageTypes
  <2> QED
    BY <1>2, <1>5, <1>7, <2>1, <2>2 DEF BarrierOut
<1>9. StartedInv'
  BY <1>2, <1>3, <1>5 DEF StartedInv
<1>10. SentInv'
  <2> SUFFICES ASSUME NEW q \in Pages, NEW s \in barrierSent'[q]
               PROVE  /\ s <= phase'[q] /\ Full(q, s)'
                      /\ phase'[q] = s => blobSent'[q]
    BY DEF SentInv
  <2>1. CASE s \in barrierSent[q]
    BY <2>1, <1>2 DEF SentInv, Full
  <2>2. CASE q = p /\ s = r
    BY <2>2, <1>1, <1>2, <1>6 DEF Full
  <2> QED
    BY <2>1, <2>2, <1>3
<1>11. PastInv'
  BY <1>2, <1>3 DEF PastInv, Past
<1>12. GotInv'
  <2>1. ASSUME NEW q \in Pages, NEW x \in barriers'[q]
        PROVE  \E u \in Pages : \E s \in 1 .. 3 : x = <<s, share'[u]>> /\ BarrierOut(u, attempt[q], s)'
    <3>1. CASE x \in barriers[q]
      <4>1. PICK u \in Pages, s \in 1 .. 3 : x = <<s, share[u]>> /\ BarrierOut(u, attempt[q], s)
        BY <3>1 DEF GotInv
      <4>2. barrierSent[u] \subseteq barrierSent'[u]
        BY <1>3
      <4> QED
        BY <4>1, <4>2, <1>2 DEF BarrierOut
    <3>2. CASE q = p /\ x = <<r, share[p]>>
      <4>1. attempt'[p] = attempt[p] /\ r \in barrierSent'[p] /\ share' = share
        BY <1>2, <1>3
      <4> QED
        BY <3>2, <4>1, <1>2 DEF BarrierOut
    <3> QED
      BY <3>1, <3>2, <1>3
  <2>2. ASSUME NEW q \in Pages, NEW b \in collected'[q]
        PROVE  b.attempt = attempt'[q] /\ (b.by # q => BlobOut(b)')
    BY <1>2 DEF GotInv, BlobOut
  <2> QED
    BY <2>1, <2>2, <1>2 DEF GotInv
<1>13. TogetherInv'
  BY <1>2, <1>3 DEF TogetherInv
<1>14. FreshInv'
  <2> SUFFICES ASSUME NEW m \in net' PROVE Fresh(m)'
    BY DEF FreshInv
  <2>1. CASE m \in net
    <3>1. m.to \in Pages
      BY <2>1 DEF SignInv, PostInv
    <3>2. ASSUME NEW s \in 1 .. 3, NEW q \in Pages, m.body = Barrier(s, q),
                 <<s, share[q]>> \in barriers'[m.to], <<s, share[q]>> \notin barriers[m.to]
          PROVE  FALSE
      <4>1. <<s, share[q]>> = <<r, share[p]>>
        BY <1>3, <3>1, <3>2
      <4>2. q = p /\ s = r
        BY <4>1 DEF SignInv, PageTypes
      <4>3. BarrierOut(p, attempt[m.to], r)
        BY <2>1, <3>2, <4>2 DEF FreshInv, Fresh
      <4> QED
        BY <1>2, <1>5, <1>7, <3>1, <4>3 DEF BarrierOut
    <3> QED
      BY <2>1, <3>2, <1>2, <1>4, FreshKept
  <2>2. CASE m \notin net
    <3>1. PICK q \in Pages : q # p /\ m.to = q /\ m.body = Barrier(r, p)
      BY <1>2, <2>2 DEF Mail
    <3>2. \A s, u : Barrier(s, u)' = Barrier(s, u)
      BY <1>2 DEF Barrier
    <3>3. m.body \notin files
      BY <3>1, BodiesDiffer DEF SignInv
    <3>4. ASSUME NEW s \in 1 .. 3, NEW u \in Pages, m.body = Barrier(s, u)
          PROVE  s = r /\ u = p
      BY <3>1, <3>4, BarrierNames DEF SignInv
    <3>5. /\ attempt'[q] >= 1 /\ <<r, share'[p]>> \notin barriers'[q]
          /\ attempt'[p] = attempt'[q] /\ r \in barrierSent'[p]
      BY <1>2, <1>3, <1>5, <1>7, <1>8, <3>1
    <3> QED
      BY <1>2, <3>1, <3>2, <3>3, <3>4, <3>5 DEF Fresh, BarrierOut
  <2> QED
    BY <2>1, <2>2
<1>15. OutcomeInv'
  BY <1>2, CombinesKept DEF OutcomeInv
<1> QED
  BY <1>9, <1>10, <1>11, <1>12, <1>13, <1>14, <1>15

\* A barrier arrives.
LEMMA RelayedGetsBarrier ==
  ASSUME SignInv, SignInv', Relayed, NEW m \in net, NEW p \in Pages, p = m.to,
         NEW r \in 1 .. 3, NEW q \in Pages, m.body = Barrier(r, q),
         barriers' = [barriers EXCEPT ![p] = @ \cup {<<r, share[q]>>}],
         net' = net \ {m},
         UNCHANGED <<share, unlucky, known, stage, phase, active, attempt, collected, blobSent,
                     barrierSent, files>>
  PROVE  Relayed'
<1> USE DEF Relayed
<1>1. barriers'[p] = barriers[p] \cup {<<r, share[q]>>} /\ \A u \in Pages \ {p} : barriers'[u] = barriers[u]
  BY DEF SignInv, PageTypes
<1>2. attempt[p] >= 1 /\ BarrierOut(q, attempt[p], r)
  BY DEF FreshInv, Fresh
<1>3. \A u \in Pages : Onward(u)
  BY DEF Onward
<1>4. StartedInv'
  <2>1. attempt[p] # 0
    BY <1>2
  <2> QED
    BY <1>1, <2>1 DEF StartedInv
<1>5. SentInv' /\ TogetherInv'
  BY DEF SentInv, TogetherInv, Full
<1>6. PastInv'
  BY <1>1 DEF PastInv, Past
<1>7. GotInv'
  <2>1. ASSUME NEW u \in Pages, NEW x \in barriers'[u]
        PROVE  \E v \in Pages : \E s \in 1 .. 3 : x = <<s, share[v]>> /\ BarrierOut(v, attempt[u], s)
    <3>1. CASE x \in barriers[u]
      BY <3>1 DEF GotInv
    <3>2. CASE u = p /\ x = <<r, share[q]>>
      BY <3>2, <1>2
    <3> QED
      BY <3>1, <3>2, <1>1
  <2>2. ASSUME NEW u \in Pages, NEW b \in collected'[u]
        PROVE  b.attempt = attempt'[u] /\ (b.by # u => BlobOut(b)')
    BY DEF GotInv, BlobOut
  <2> QED
    BY <2>1, <2>2 DEF GotInv, BarrierOut
<1>8. FreshInv'
  <2> SUFFICES ASSUME NEW k \in net, k # m PROVE Fresh(k)'
    BY DEF FreshInv
  <2>1. k.to \in Pages
    BY DEF SignInv, PostInv
  <2>2. ASSUME NEW s \in 1 .. 3, NEW u \in Pages, k.body = Barrier(s, u),
               <<s, share[u]>> \in barriers'[k.to], <<s, share[u]>> \notin barriers[k.to]
        PROVE  FALSE
    <3>1. k.to = p /\ <<s, share[u]>> = <<r, share[q]>>
      BY <1>1, <2>1, <2>2
    <3>2. s = r /\ u = q
      BY <3>1 DEF SignInv, PageTypes
    <3>3. k = m
      BY <2>2, <3>1, <3>2 DEF SignInv, PostInv
    <3> QED
      BY <3>3
  <2> QED
    BY <1>3, <2>2, FreshKept
<1>9. OutcomeInv'
  BY CombinesKept DEF OutcomeInv
<1> QED
  BY <1>4, <1>5, <1>6, <1>7, <1>8, <1>9

\* A page that is past a round has everybody's blob of it.
LEMMA PastIsFull ==
  ASSUME SignInv, Relayed, NEW p \in Pages, NEW r \in 1 .. 3, Past(p, r)
  PROVE  Full(p, r)
<1>1. <<r, share[p]>> \in barriers[p]
  BY DEF Relayed, PastInv
<1>2. PICK q \in Pages, s \in 1 .. 3 : <<r, share[p]>> = <<s, share[q]>> /\ BarrierOut(q, attempt[p], s)
  BY <1>1 DEF Relayed, GotInv
<1>3. q = p /\ s = r
  BY <1>2 DEF SignInv, PageTypes
<1>4. attempt[p] \in Int
  BY SigningAssumption DEF SignInv, PageTypes
<1>5. r \in barrierSent[p]
  BY <1>2, <1>3, <1>4 DEF BarrierOut
<1> QED
  BY <1>5 DEF Relayed, SentInv

\* Nobody accepts a second blob of a page in a round.
LEMMA FullTakesNone ==
  ASSUME SignInv, NEW p \in Pages, NEW b \in files, Full(p, b.round)
  PROVE  ~Acceptable(p, b)
<1>1. GoodFile(b)
  BY DEF SignInv, FilesInv
<1>2. PICK c \in collected[p] : c.round = b.round /\ c.by = b.by
  BY <1>1 DEF Full, GoodFile
<1>3. c.from = share[c.by] /\ b.from = share[b.by]
  BY <1>1 DEF GoodFile, SignInv, CollectedInv, FilesInv
<1> QED
  BY <1>2, <1>3 DEF Acceptable, From, Collected

\* A blob arrives: it is of the attempt that the page is in.
LEMMA RelayedGetsBlob ==
  ASSUME SignInv, SignInv', Relayed, NEW m \in net, NEW p \in Pages, p = m.to,
         m.body \in files, stage[p] = "signing", phase[p] # 0,
         Acceptable(p, m.body), Collect(p, m.body),
         net' = net \ {m},
         UNCHANGED <<share, unlucky, known, stage, phase, active, attempt, blobSent, barriers,
                     barrierSent, files>>
  PROVE  Relayed'
<1> USE DEF Relayed
<1>1. PICK b \in files : b = m.body
  OBVIOUS
<1>2. collected'[p] = collected[p] \cup {b} /\ \A q \in Pages \ {p} : collected'[q] = collected[q]
  BY <1>1 DEF Collect, SignInv, PageTypes
<1>3. GoodFile(b) /\ b.by \in Pages /\ b.by # p /\ b.attempt >= attempt[p] /\ BlobOut(b)
  BY <1>1 DEF FreshInv, Fresh, SignInv, FilesInv, GoodFile
<1>4. ~Full(p, b.round)
  BY <1>1, FullTakesNone
<1>5. b.attempt = attempt[p]
  <2>1. attempt[p] \in Int /\ attempt[b.by] \in Int /\ b.attempt \in Int /\ b.attempt <= attempt[b.by] /\ b.round \in 1 .. 3
    BY <1>3, SigningAssumption DEF SignInv, PageTypes, GoodFile
  <2>2. ASSUME attempt[b.by] > attempt[p] PROVE FALSE
    <3>1. attempt[p] # 0
      BY DEF StartedInv
    <3>2. b.round \in barrierSent[p]
      BY <1>3, <2>1, <2>2, <3>1 DEF TogetherInv
    <3> QED
      BY <1>4, <3>2 DEF SentInv
  <2> QED
    BY <1>3, <2>1, <2>2
<1>6. \A u \in Pages : Onward(u)
  BY DEF Onward
<1>7. StartedInv' /\ PastInv' /\ TogetherInv'
  BY DEF StartedInv, PastInv, Past, TogetherInv
<1>8. SentInv'
  <2>1. \A q \in Pages : \A r : Full(q, r) => Full(q, r)'
    BY <1>2 DEF Full
  <2> QED
    BY <2>1 DEF SentInv
<1>9. GotInv'
  <2>1. ASSUME NEW u \in Pages, NEW x \in barriers'[u]
        PROVE  \E v \in Pages : \E s \in 1 .. 3 : x = <<s, share[v]>> /\ BarrierOut(v, attempt[u], s)
    BY DEF GotInv
  <2>2. ASSUME NEW u \in Pages, NEW c \in collected'[u]
        PROVE  c.attempt = attempt[u] /\ (c.by # u => BlobOut(c))
    <3>1. CASE c \in collected[u]
      BY <3>1 DEF GotInv
    <3>2. CASE u = p /\ c = b
      BY <3>2, <1>3, <1>5
    <3> QED
      BY <3>1, <3>2, <1>2
  <2> QED
    BY <2>1, <2>2 DEF GotInv, BarrierOut, BlobOut
<1>10. FreshInv'
  <2> SUFFICES ASSUME NEW k \in net, k # m PROVE Fresh(k)'
    BY DEF FreshInv
  <2>1. k.to \in Pages
    BY DEF SignInv, PostInv
  <2>2. ASSUME k.body \in collected'[k.to], k.body \notin collected[k.to]
        PROVE  FALSE
    <3>1. k.to = p /\ k.body = m.body
      BY <1>1, <1>2, <2>1, <2>2
    <3> QED
      BY <3>1 DEF SignInv, PostInv
  <2> QED
    BY <1>6, <2>2, FreshKept
<1>11. OutcomeInv'
  <2> SUFFICES ASSUME NEW q \in Pages
               PROVE  /\ stage'[q] = "done" => Combines(q)'
                      /\ phase'[q] = 4 => ~Combines(q)'
    BY DEF OutcomeInv
  <2>1. CASE q = p
    <3>1. phase[p] # 4
      <4>1. b.round \in 1 .. 3
        BY <1>3 DEF GoodFile
      <4>2. phase[p] = 4 => Past(p, b.round)
        BY <4>1 DEF Past
      <4> QED
        BY <1>4, <4>1, <4>2, PastIsFull
    <3> QED
      BY <2>1, <3>1
  <2>2. CASE q # p
    BY <2>2, <1>2, CombinesKept DEF OutcomeInv
  <2> QED
    BY <2>1, <2>2
<1> QED
  BY <1>7, <1>8, <1>9, <1>10, <1>11

\* A page begins an attempt: nothing of the last one is on its way to it,
\* and nobody is more than one ahead or behind.
LEMMA RelayedBegin ==
  ASSUME SignInv, SignInv', Relayed, OneResponsePerMasks, NEW p \in Pages,
         phase[p] \in {0, 4}, stage'[p] = "signing",
         known[p] = Pages, BeginSession(p, Pages),
         barriers'[p] = {}, barrierSent'[p] = {},
         \A q \in Pages \ {p} :
           barriers'[q] = barriers[q] /\ barrierSent'[q] = barrierSent[q] /\ stage'[q] = stage[q],
         UNCHANGED <<share, unlucky, known, net>>
  PROVE  Relayed'
<1> USE DEF Relayed
<1>1. PICK b0 : /\ b0.by = p /\ b0.attempt = attempt'[p]
                /\ collected' = [collected EXCEPT ![p] = {b0}]
                /\ files' = files \cup {b0}
  <2>1. PICK b0 : b0 = Blob(p, 1, Nothing)
    OBVIOUS
  <2> QED
    BY <2>1 DEF BeginSession, Blob
<1>2. /\ attempt' = [attempt EXCEPT ![p] = @ + 1]
      /\ active' = [active EXCEPT ![p] = Pages]
      /\ phase' = [phase EXCEPT ![p] = 1]
      /\ blobSent' = [blobSent EXCEPT ![p] = FALSE]
  BY DEF BeginSession
<1>3. PICK a \in Nat : a = attempt[p]
  BY SigningAssumption DEF SignInv, PageTypes
<1>4. /\ attempt'[p] = a + 1 /\ active'[p] = Pages /\ phase'[p] = 1 /\ collected'[p] = {b0}
      /\ \A q \in Pages \ {p} :
           /\ attempt'[q] = attempt[q] /\ active'[q] = active[q] /\ phase'[q] = phase[q]
           /\ collected'[q] = collected[q] /\ blobSent'[q] = blobSent[q]
      /\ \A q \in Pages : attempt[q] \in Nat
  BY <1>1, <1>2, <1>3, SigningAssumption DEF SignInv, PageTypes
<1>5. \A q \in Pages : Onward(q)
  BY <1>3, <1>4 DEF Onward
<1>6. ASSUME a # 0, NEW r \in 1 .. 3
      PROVE  Full(p, r) /\ \A q \in Pages : <<r, share[q]>> \in barriers[p] /\ BarrierOut(q, a, r)
  <2>1. phase[p] = 4
    BY <1>3, <1>6 DEF StartedInv
  <2>2. Past(p, r)
    BY <2>1 DEF Past
  <2>3. Full(p, r) /\ \A q \in Pages : <<r, share[q]>> \in barriers[p]
    BY <2>2, PastIsFull DEF PastInv
  <2>4. ASSUME NEW q \in Pages PROVE BarrierOut(q, a, r)
    <3>1. PICK u \in Pages, s \in 1 .. 3 : <<r, share[q]>> = <<s, share[u]>> /\ BarrierOut(u, attempt[p], s)
      BY <2>3 DEF GotInv
    <3>2. u = q /\ s = r
      BY <3>1 DEF SignInv, PageTypes
    <3> QED
      BY <1>3, <3>1, <3>2
  <2> QED
    BY <2>3, <2>4
<1>7. StartedInv'
  BY <1>3, <1>4 DEF StartedInv
<1>8. SentInv'
  <2> SUFFICES ASSUME NEW q \in Pages, NEW s \in barrierSent'[q]
               PROVE  /\ s <= phase'[q] /\ Full(q, s)'
                      /\ phase'[q] = s => blobSent'[q]
    BY DEF SentInv
  <2>1. q # p
    OBVIOUS
  <2> QED
    BY <2>1, <1>4 DEF SentInv, Full
<1>9. PastInv'
  BY <1>4 DEF PastInv, Past
<1>10. GotInv'
  <2>1. ASSUME NEW q \in Pages, NEW x \in barriers'[q]
        PROVE  \E u \in Pages : \E s \in 1 .. 3 : x = <<s, share'[u]>> /\ BarrierOut(u, attempt[q], s)'
    <3>1. q # p
      BY <2>1
    <3>2. PICK u \in Pages, s \in 1 .. 3 : x = <<s, share[u]>> /\ BarrierOut(u, attempt[q], s)
      BY <2>1, <3>1 DEF GotInv
    <3>3. PICK c \in Int : c = attempt[q] /\ c = attempt'[q]
      BY <1>4, <3>1
    <3>4. BarrierOut(u, c, s)'
      BY <1>5, <3>2, <3>3, BarrierStaysOut
    <3> QED
      BY <3>2, <3>3, <3>4 DEF BarrierOut
  <2>2. ASSUME NEW q \in Pages, NEW b \in collected'[q]
        PROVE  b.attempt = attempt'[q] /\ (b.by # q => BlobOut(b)')
    <3>1. CASE q = p
      BY <3>1, <2>2, <1>1, <1>4
    <3>2. CASE q # p
      <4>1. b \in collected[q]
        BY <3>2, <2>2, <1>4
      <4>2. GoodFile(b) /\ b.by \in Pages
        BY <4>1 DEF SignInv, CollectedInv, FilesInv, GoodFile
      <4> QED
        BY <3>2, <4>1, <4>2, <1>4, <1>5, BlobStaysOut DEF GotInv
    <3> QED
      BY <3>1, <3>2
  <2> QED
    BY <2>1, <2>2 DEF GotInv, BarrierOut
<1>11. TogetherInv'
  <2> SUFFICES ASSUME NEW u \in Pages, NEW q \in Pages
               PROVE  /\ attempt'[q] <= attempt'[u] + 1
                      /\ attempt'[q] > attempt'[u] => attempt'[u] = 0 \/ \A r \in 1 .. 3 : r \in barrierSent'[u]
    BY DEF TogetherInv
  <2>1. /\ attempt[q] <= attempt[u] + 1
        /\ attempt[q] > attempt[u] => attempt[u] = 0 \/ \A r \in 1 .. 3 : r \in barrierSent[u]
    BY DEF TogetherInv
  <2>2. CASE u # p /\ q # p
    BY <2>1, <2>2, <1>4
  <2>3. CASE u = p
    BY <2>1, <2>3, <1>3, <1>4
  <2>4. CASE u # p /\ q = p /\ a = 0
    <3>1. attempt'[u] = attempt[u] /\ attempt[u] \in Nat /\ attempt'[q] = 1
      BY <2>4, <1>4
    <3> QED
      BY <3>1
  <2>5. CASE u # p /\ q = p /\ a # 0
    <3>1. \A r \in 1 .. 3 : BarrierOut(u, a, r)
      BY <2>5, <1>6
    <3>2. attempt'[u] = attempt[u] /\ attempt[u] \in Nat /\ attempt'[q] = a + 1 /\ barrierSent'[u] = barrierSent[u]
      BY <2>5, <1>4
    <3>3. 1 \in 1 .. 3
      OBVIOUS
    <3>4. attempt[u] > a \/ attempt[u] = a
      BY <3>1, <3>3 DEF BarrierOut
    <3>5. attempt[u] = a => \A r \in 1 .. 3 : r \in barrierSent[u]
      BY <3>1, <3>2 DEF BarrierOut
    <3> QED
      BY <3>2, <3>4, <3>5
  <2> QED
    BY <2>2, <2>3, <2>4, <2>5
<1>12. FreshInv'
  <2> SUFFICES ASSUME NEW m \in net PROVE Fresh(m)'
    BY DEF FreshInv
  <2>1. Fresh(m) /\ m.to \in Pages
    BY DEF FreshInv, SignInv, PostInv
  <2>2. \A r, q : Barrier(r, q)' = Barrier(r, q)
    BY DEF Barrier
  <2>3. ASSUME NEW r \in 1 .. 3, NEW q \in Pages, m.body = Barrier(r, q)
        PROVE  /\ attempt'[m.to] >= 1 /\ <<r, share'[q]>> \notin barriers'[m.to]
               /\ (attempt'[q] > attempt'[m.to] \/ (attempt'[q] = attempt'[m.to] /\ r \in barrierSent'[q]))
    <3>1. attempt[m.to] >= 1 /\ BarrierOut(q, attempt[m.to], r) /\ <<r, share[q]>> \notin barriers[m.to]
      BY <2>1, <2>3 DEF Fresh
    <3>2. m.to # p
      <4> SUFFICES ASSUME m.to = p PROVE FALSE
        OBVIOUS
      <4>1. a # 0
        BY <3>1, <1>3
      <4> QED
        BY <3>1, <4>1, <1>6
    <3>3. PICK c \in Int : c = attempt[m.to] /\ c = attempt'[m.to]
      BY <1>4, <2>1, <3>2
    <3>4. BarrierOut(q, c, r)'
      BY <1>5, <3>1, <3>3, BarrierStaysOut
    <3> QED
      BY <2>1, <3>1, <3>2, <3>3, <3>4 DEF BarrierOut
  <2>4. ASSUME m.body \in files'
        PROVE  /\ m.body.by # m.to /\ m.body.attempt >= attempt'[m.to]
               /\ m.body \notin collected'[m.to] /\ BlobOut(m.body)'
    <3>1. PICK b \in files : b = m.body
      BY <2>4, StillAFile
    <3>2. GoodFile(b) /\ b.by \in Pages /\ b.round \in 1 .. 3 /\ b.attempt \in Nat /\ b.attempt >= 1
      BY <3>1 DEF SignInv, FilesInv, GoodFile
    <3>3. b.by # m.to /\ b.attempt >= attempt[m.to] /\ b \notin collected[m.to] /\ BlobOut(b)
      BY <2>1, <3>1 DEF Fresh
    <3>4. BlobOut(b)'
      BY <1>5, <3>2, <3>3, BlobStaysOut
    <3>5. CASE m.to # p
      BY <2>1, <3>1, <3>3, <3>4, <3>5, <1>4
    <3>6. CASE m.to = p
      <4>1. b # b0
        BY <3>3, <3>6, <1>1
      <4>2. b.attempt # a
        <5> SUFFICES ASSUME b.attempt = a PROVE FALSE
          OBVIOUS
        <5>1. a # 0
          BY <3>2
        <5>2. PICK c \in collected[p] : c.round = b.round /\ c.by = b.by
          BY <5>1, <3>2, <1>6 DEF Full
        <5>3. c \in files /\ c.attempt = a
          BY <1>3 DEF SignInv, CollectedInv, GotInv
        <5>4. c = b
          BY <5>2, <5>3, OneFile DEF SignInv
        <5> QED
          BY <3>3, <3>6, <5>4
      <4> QED
        BY <3>1, <3>2, <3>3, <3>4, <3>6, <4>1, <4>2, <1>3, <1>4
    <3> QED
      BY <3>5, <3>6
  <2> QED
    BY <2>2, <2>3, <2>4 DEF Fresh, BarrierOut
<1>13. OutcomeInv'
  <2> SUFFICES ASSUME NEW q \in Pages
               PROVE  /\ stage'[q] = "done" => Combines(q)'
                      /\ phase'[q] = 4 => ~Combines(q)'
    BY DEF OutcomeInv
  <2>1. CASE q = p
    BY <2>1, <1>4
  <2>2. CASE q # p
    BY <2>2, <1>4, CombinesKept DEF OutcomeInv
  <2> QED
    BY <2>1, <2>2
<1> QED
  BY <1>7, <1>8, <1>9, <1>10, <1>11, <1>12, <1>13

\* The effect that starts a session takes the first T of T pages.
LEMMA AllStart ==
  ASSUME SignInv, NEW p \in Pages, Cardinality(known[p]) >= T
  PROVE  /\ known[p] = Pages
         /\ {i \in known[p] : Cardinality(known[p] \cap 0 .. i) <= T} = Pages
<1>1. known[p] \subseteq Pages
  BY DEF SignInv, PageTypes
<1>2. IsFiniteSet(known[p]) /\ Cardinality(known[p]) <= Cardinality(Pages)
  BY <1>1, SignersFinite, FS_Subset
<1>3. Cardinality(known[p]) = Cardinality(Pages)
  BY <1>2, SignersFinite, FS_CardinalityType
<1>4. known[p] = Pages
  BY <1>1, <1>3, SignersFinite, FS_Subset
<1>5. ASSUME NEW i \in Pages PROVE Cardinality(known[p] \cap 0 .. i) <= T
  <2>1. known[p] \cap 0 .. i \subseteq Pages
    BY <1>1
  <2> QED
    BY <2>1, SignersFinite, FS_Subset
<1> QED
  BY <1>4, <1>5

LEMMA RelayedAutoInit ==
  ASSUME SignInv, SignInv', Relayed, Unbroken, OneResponsePerMasks, NEW p \in Pages,
         phase[p] \in {0, 4}, AutoInit(p), stage'[p] = "signing",
         barriers'[p] = {}, barrierSent'[p] = {},
         \A q \in Pages \ {p} :
           barriers'[q] = barriers[q] /\ barrierSent'[q] = barrierSent[q] /\ stage'[q] = stage[q],
         UNCHANGED <<share, unlucky, known, net>>
  PROVE  Relayed'
<1>1. CASE Cardinality(known[p]) >= T
  <2>1. known[p] = Pages /\ BeginSession(p, Pages)
    BY <1>1, AllStart DEF AutoInit, Unbroken
  <2> QED
    BY <2>1, RelayedBegin
<1>2. CASE ~(Cardinality(known[p]) >= T)
  <2>1. attempt[p] = 0
    <3>1. attempt[p] >= 1 => Cardinality(known[p]) >= T
      BY SignersFinite DEF Relayed, StartedInv
    <3> QED
      BY <1>2, <3>1, SigningAssumption DEF SignInv, PageTypes
  <2>2. phase[p] = 0 /\ barriers[p] = {} /\ barrierSent[p] = {}
    BY <2>1 DEF Relayed, StartedInv
  <2>3. collected[p] = {}
    <3> SUFFICES ASSUME NEW b \in collected[p] PROVE FALSE
      OBVIOUS
    <3>1. GoodFile(b) /\ b.attempt = 0
      BY <2>1 DEF Relayed, GotInv, SignInv, CollectedInv, FilesInv
    <3> QED
      BY <3>1 DEF GoodFile
  <2>4. UNCHANGED <<phase, active, attempt, blobSent, files>> /\ \A q \in Pages : collected'[q] = collected[q]
    <3>1. /\ phase' = [phase EXCEPT ![p] = 0]
          /\ collected' = [collected EXCEPT ![p] = {}]
          /\ UNCHANGED <<active, attempt, files, blobSent>>
      BY <1>2 DEF AutoInit, StaysIdle
    <3>2. phase' = phase
      BY <3>1, <2>2 DEF SignInv, PageTypes
    <3>3. \A q \in Pages : collected'[q] = collected[q]
      BY <3>1, <2>3 DEF SignInv, PageTypes
    <3> QED
      BY <3>1, <3>2, <3>3
  <2>5. \A q \in Pages :
          /\ barriers'[q] = barriers[q] /\ barrierSent'[q] = barrierSent[q]
          /\ stage'[q] = "done" => stage[q] = "done"
    BY <2>2
  <2>6. barrierSent' = barrierSent
    BY <2>5 DEF SignInv, PageTypes
  <2> QED
    BY <2>4, <2>5, <2>6, RelayedQuiet
<1> QED
  BY <1>1, <1>2

LEMMA RelayedUnlock ==
  ASSUME SignInv, SignInv', Relayed, Unbroken, OneResponsePerMasks, NEW p \in Pages, Unlock(p)
  PROVE  Relayed'
<1>1. /\ stage[p] = "proposed" /\ AutoInit(p)
      /\ stage' = [stage EXCEPT ![p] = "signing"]
      /\ UNCHANGED <<share, unlucky, known, barriers, barrierSent, net>>
  BY DEF Unlock, fixed
<1>2. phase[p] = 0
  BY <1>1 DEF SignInv, StageInv
<1>3. barriers[p] = {} /\ barrierSent[p] = {}
  BY <1>2 DEF Relayed, StartedInv
<1>4. stage'[p] = "signing" /\ \A q \in Pages \ {p} : stage'[q] = stage[q]
  BY <1>1 DEF SignInv, PageTypes
<1> QED
  BY <1>1, <1>2, <1>3, <1>4, RelayedAutoInit

LEMMA RelayedRetry ==
  ASSUME SignInv, SignInv', Relayed, Unbroken, OneResponsePerMasks, NEW p \in Pages, Retry(p)
  PROVE  Relayed'
<1>1. /\ stage[p] = "signing" /\ phase[p] = 4 /\ AutoInit(p)
      /\ barriers' = [barriers EXCEPT ![p] = {}]
      /\ barrierSent' = [barrierSent EXCEPT ![p] = {}]
      /\ UNCHANGED <<share, unlucky, known, stage, net>>
  BY DEF Retry, fixed
<1>2. /\ barriers'[p] = {} /\ barrierSent'[p] = {}
      /\ \A q \in Pages \ {p} : barriers'[q] = barriers[q] /\ barrierSent'[q] = barrierSent[q]
  BY <1>1 DEF SignInv, PageTypes
<1> QED
  BY <1>1, <1>2, RelayedAutoInit

LEMMA RelayedReceive ==
  ASSUME SignInv, SignInv', Relayed, Unbroken, NEW m \in net, Receive(m)
  PROVE  Relayed'
<1>1. /\ net' = net \ {m}
      /\ UNCHANGED <<share, unlucky, known, phase, active, attempt, blobSent, barrierSent, files>>
  BY ReceiveCases
<1>2. PICK p \in Pages : p = m.to
  BY DEF SignInv, PostInv
<1>3. CASE stage' = [stage EXCEPT ![p] = "proposed"] /\ UNCHANGED <<collected, barriers>>
  <2>1. \A q \in Pages : stage'[q] = "done" => stage[q] = "done"
    BY <1>3 DEF SignInv, PageTypes
  <2> QED
    BY <1>1, <1>3, <2>1, RelayedQuiet
<1>4. CASE UNCHANGED <<stage, collected, barriers>>
  BY <1>1, <1>4, RelayedQuiet
<1>5. ASSUME NEW r \in 1 .. 3, NEW q \in Pages, m.body = Barrier(r, q),
             barriers' = [barriers EXCEPT ![p] = @ \cup {<<r, share[q]>>}],
             UNCHANGED <<stage, collected>>
      PROVE  Relayed'
  BY <1>1, <1>2, <1>5, RelayedGetsBarrier
<1>6. CASE /\ m.body \in files /\ stage[p] = "signing" /\ phase[p] # 0
           /\ Acceptable(p, m.body) /\ Collect(p, m.body)
           /\ UNCHANGED <<stage, barriers>>
  BY <1>1, <1>2, <1>6, RelayedGetsBlob
<1> QED
  BY <1>2, <1>3, <1>4, <1>5, <1>6, ReceiveCases

LEMMA RelayedOther ==
  ASSUME SignInv, Relayed,
         \/ Propose \/ UNCHANGED vars
         \/ \E p \in Pages : Cancel(p) \/ Reconnected(p)
         \/ \E m \in net : Lose(m)
  PROVE  Relayed'
<1> USE DEF fixed, session, sync
<1>1. CASE Propose
  <2>1. /\ stage' = [stage EXCEPT ![Creator] = "proposed"]
        /\ net' = IF Relay THEN net \cup Mail(Creator, Proposal) ELSE net
        /\ UNCHANGED <<share, unlucky, known, phase, active, attempt, collected, blobSent, barriers,
                       barrierSent, files>>
    BY <1>1 DEF Propose, Proposal
  <2>2. \A q \in Pages : stage'[q] = "done" => stage[q] = "done"
    BY <2>1 DEF SignInv, PageTypes
  <2>3. \A m \in net' : m \in net \/ m.body = Proposal
    BY <2>1 DEF Mail
  <2> QED
    BY <2>1, <2>2, <2>3, RelayedQuiet
<1>2. ASSUME NEW p \in Pages, Cancel(p) \/ Reconnected(p)
      PROVE  Relayed'
  <2>1. /\ known' = [q \in Pages |-> known[q] \cup {p}]
        /\ stage' = [stage EXCEPT ![p] = "left"] \/ UNCHANGED stage
        /\ UNCHANGED <<share, unlucky, phase, active, attempt, collected, blobSent, barriers, barrierSent,
                       files, net>>
    BY <1>2 DEF Cancel, Reconnected
  <2>2. \A q \in Pages : known[q] = Pages => known'[q] = Pages
    BY <2>1
  <2>3. \A q \in Pages : stage'[q] = "done" => stage[q] = "done"
    BY <2>1 DEF SignInv, PageTypes
  <2> QED
    BY <2>1, <2>2, <2>3, RelayedQuiet
<1>3. CASE UNCHANGED vars \/ \E m \in net : Lose(m)
  BY <1>3, RelayedQuiet DEF vars, Lose
<1> QED
  BY <1>1, <1>2, <1>3

LEMMA RelayedStep ==
  ASSUME SignInv, SignInv', RelayedInv, OneResponsePerMasks, [Next]_vars
  PROVE  RelayedInv'
<1> SUFFICES ASSUME Unbroken' PROVE Relayed'
  BY DEF RelayedInv
<1>1. ASSUME NEW p \in Pages, ClearShare(p) PROVE FALSE
  BY <1>1 DEF ClearShare, Unbroken
<1>2. Unbroken /\ ~Offline
  <2>1. UNCHANGED transport
    BY ReceiveCases DEF Next, Progress, Page, Propose, ImportProposal, Unlock, StartSigning, Advance, Combine,
       Retry, SendBlob, SendBarrier, Import, Cancel, ClearShare, Lose, Reconnected, fixed, vars
  <2>2. cleared' = cleared
    BY <1>1, ReceiveCases DEF Next, Progress, Page, Propose, ImportProposal, Unlock, StartSigning, Advance,
       Combine, Retry, SendBlob, SendBarrier, Import, Cancel, Lose, Reconnected, vars
  <2> QED
    BY <2>1, <2>2 DEF Unbroken, Relay, Offline
<1>3. Relayed
  BY <1>2 DEF RelayedInv
<1>4. \A p \in Pages : ~ImportProposal(p) /\ ~StartSigning(p) /\ ~Import(p)
  BY <1>2 DEF ImportProposal, StartSigning, Import
<1> QED
  BY <1>1, <1>2, <1>3, <1>4, RelayedOther, RelayedUnlock, RelayedAdvance, RelayedCombine, RelayedRetry,
     RelayedSendBlob, RelayedSendBarrier, RelayedReceive
     DEF Next, Progress, Page

LEMMA RelayedInvAlways == Spec => [](SignInv /\ RelayedInv)
<1>1. Init => SignInv /\ RelayedInv
  BY InitSignInv, InitRelayed
<1>2. SignInv /\ RelayedInv /\ OneResponsePerMasks /\ [Next]_vars => (SignInv /\ RelayedInv)'
  BY SignStep, RelayedStep
<1> QED
  BY <1>1, <1>2, MasksAnsweredOnce, PTL DEF Spec

(* ThresholdSign.tsx, on barriers: "No party advances until all T barriers *)
(* for the current round are received."  Over the relay, as long as nobody *)
(* clears a share, a page is past a round only when everybody has all its  *)
(* blobs, although no barrier says which attempt it is of: for any number  *)
(* of signers, attempts and lost messages.                                 *)
THEOREM SignersInStep == Spec => []RoundsInStep
<1>1. ASSUME SignInv, RelayedInv PROVE RoundsInStep
  <2> SUFFICES ASSUME Relay, cleared = {}, NEW p \in Pages, NEW r \in 1 .. 3,
                      phase[p] > r \/ stage[p] = "done",
                      NEW b \in Of(p, r, active[p]), attempt[b.by] = b.attempt
               PROVE  Count(b.by, r) = T
    BY DEF RoundsInStep
  <2>1. Relayed
    BY <1>1 DEF RelayedInv, Unbroken
  <2>2. b \in collected[p] /\ b.attempt = attempt[p]
    BY <2>1 DEF Relayed, GotInv, Of, Collected
  <2>3. PICK q \in Pages : q = b.by
    BY <1>1, <2>2 DEF SignInv, CollectedInv, FilesInv, GoodFile
  <2>4. Past(p, r)
    BY <2>1 DEF Past, Relayed, StartedInv
  <2>5. <<r, share[q]>> \in barriers[p]
    BY <2>1, <2>4 DEF Relayed, PastInv
  <2>6. PICK u \in Pages, s \in 1 .. 3 : <<r, share[q]>> = <<s, share[u]>> /\ BarrierOut(u, attempt[p], s)
    BY <2>1, <2>5 DEF Relayed, GotInv
  <2>7. u = q /\ s = r
    BY <1>1, <2>6 DEF SignInv, PageTypes
  <2>8. r \in barrierSent[q]
    BY <1>1, <2>2, <2>3, <2>6, <2>7, SigningAssumption DEF BarrierOut, SignInv, PageTypes
  <2>9. Full(q, r)
    BY <2>1, <2>8 DEF Relayed, SentInv
  <2> QED
    BY <1>1, <2>3, <2>9, CountedFull DEF SignInv
<1> QED
  BY <1>1, RelayedInvAlways, PTL

\* Two pages that have everybody's blobs of a round, in the same attempt,
\* have the same.
LEMMA SameBlobs ==
  ASSUME SignInv, Relayed, OneResponsePerMasks, NEW p \in Pages, NEW q \in Pages, NEW r,
         attempt[p] = attempt[q], Full(q, r)
  PROVE  Collected(p, r) \subseteq Collected(q, r)
<1> SUFFICES ASSUME NEW b \in Collected(p, r) PROVE b \in Collected(q, r)
  OBVIOUS
<1>1. b \in files /\ b.round = r /\ b.attempt = attempt[p] /\ b.by \in Pages
  BY DEF Collected, SignInv, CollectedInv, FilesInv, GoodFile, Relayed, GotInv
<1>2. PICK c \in collected[q] : c.round = r /\ c.by = b.by
  BY <1>1 DEF Full
<1>3. c \in files /\ c.attempt = attempt[q]
  BY DEF SignInv, CollectedInv, Relayed, GotInv
<1>4. c = b
  BY <1>1, <1>2, <1>3, OneFile DEF SignInv
<1> QED
  BY <1>2, <1>4 DEF Collected

(* Over the relay the signers of an attempt end it alike, unless a share   *)
(* was cleared: nobody starts over while another holds the signature - for *)
(* any number of signers, whichever messages are lost.                     *)
THEOREM SignersEndAlike == Spec => []OneOutcome
<1>1. ASSUME SignInv, RelayedInv, OneResponsePerMasks PROVE OneOutcome
  <2> SUFFICES ASSUME Relay, cleared = {}, NEW p \in Pages, NEW q \in Pages,
                      stage[p] = "done", phase[q] = 4, attempt[p] = attempt[q]
               PROVE  FALSE
    BY DEF OneOutcome
  <2>1. Relayed
    BY <1>1 DEF RelayedInv, Unbroken
  <2>2. phase[p] = 3 /\ Combines(p) /\ ~Combines(q)
    BY <2>1 DEF Relayed, StartedInv, OutcomeInv
  <2>3. \A r \in 1 .. 3 : Full(p, r) /\ Full(q, r)
    BY <1>1, <2>1, <2>2, PastIsFull DEF Past
  <2>4. Collected(p, 2) = Collected(q, 2) /\ Collected(p, 3) = Collected(q, 3)
    <3>1. Collected(p, 2) \subseteq Collected(q, 2) /\ Collected(p, 3) \subseteq Collected(q, 3)
      BY <1>1, <2>1, <2>3, SameBlobs
    <3>2. Collected(q, 2) \subseteq Collected(p, 2) /\ Collected(q, 3) \subseteq Collected(p, 3)
      BY <1>1, <2>1, <2>3, SameBlobs
    <3> QED
      BY <3>1, <3>2
  <2>5. active[p] = active[q]
    <3>1. attempt[p] >= 1 /\ attempt[q] >= 1
      BY <1>1, <2>2 DEF SignInv, StageInv
    <3> QED
      BY <2>1, <3>1 DEF Relayed, StartedInv
  <2>6. \A ids : Of(p, 2, ids) = Of(q, 2, ids) /\ Of(p, 3, ids) = Of(q, 3, ids)
    BY <2>4 DEF Of
  <2>7. HasAll(p, 2) = HasAll(q, 2) /\ HasAll(p, 3) = HasAll(q, 3)
    BY <2>4, <2>5 DEF HasAll, From
  <2> QED
    BY <2>2, <2>5, <2>6, <2>7 DEF Combines
<1> QED
  BY <1>1, RelayedInvAlways, MasksAnsweredOnce, PTL
=============================================================================
