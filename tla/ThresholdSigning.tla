-------------------------- MODULE ThresholdSigning --------------------------
(***************************************************************************)
(* One step signed by T holders of key shares: cabal/src/components/       *)
(* OfflineSigner.tsx and ThresholdSign.tsx over cabal/src/lib/threshold.ts *)
(* in the page of every signer, and when the functions of the vendored     *)
(* library accept their inputs.                                            *)
(*                                                                         *)
(* Pages are numbered by the order in which they joined the relay session; *)
(* the share that a page loads carries a number of its own.  A blob is its *)
(* round, the share it is from, the page and the attempt that made it, and *)
(* for a response what it was computed on; it does not show its attempt.   *)
(* Offline, blobs are files: they are imported in any order, at any time.  *)
(***************************************************************************)
EXTENDS Integers, FiniteSets

CONSTANTS
  N, T,         \* shares, threshold
  MaxAttempts,  \* bound: times a page runs round 1
  MaxLost       \* bound: messages the relay drops

ASSUME SigningAssumption ==
  /\ N \in Nat /\ T \in Nat /\ 2 <= T /\ T <= N
  /\ MaxAttempts \in Nat \ {0}

Pages == 0 .. T - 1      \* "For signing, parties = threshold"
Ids == 0 .. N - 1
Creator == 0

VARIABLES
  transport,   \* "relay" or "offline"
  share,       \* share.partyId of the share that a page's holder has
  unlucky,     \* the attempts whose masks will miss the norm bounds
  known,       \* the keys of relayClient.parties
  stage,       \* of the page: "choose", "proposed", "signing", "done", "left"
  phase,       \* of ThresholdSign: 0 idle, rounds 1 .. 3, 4 failed
  active,      \* activePartyIds
  attempt,     \* how often the page ran round1
  collected,   \* the session's collectedRound... maps
  blobSent,    \* roundBlobSent
  barriers,    \* round and share number
  barrierSent, \* barrierSentRef
  files,       \* every blob ever made
  net,         \* what the relay has yet to deliver
  lost,        \* how many messages the relay has dropped
  missed,      \* the pages that have dropped what reached them
  cleared      \* the pages that have cleared their share while signing

session == <<phase, active, attempt, collected>>
sync == <<blobSent, barriers, barrierSent>>
fixed == <<transport, share, unlucky>>
vars == <<fixed, known, stage, session, sync, files, net, lost, missed, cleared>>

Relay == transport = "relay"
Offline == transport = "offline"

Init ==
  /\ transport \in {"relay", "offline"}
  /\ share \in {s \in [Pages -> Ids] : \A p, q \in Pages : s[p] = s[q] => p = q}
  /\ unlucky \in SUBSET (1 .. MaxAttempts)
  /\ known = [p \in Pages |-> p .. T - 1]
  /\ stage = [p \in Pages |-> "choose"]
  /\ phase = [p \in Pages |-> 0]
  /\ active = [p \in Pages |-> {}]
  /\ attempt = [p \in Pages |-> 0]
  /\ collected = [p \in Pages |-> {}]
  /\ blobSent = [p \in Pages |-> FALSE]
  /\ barriers = [p \in Pages |-> {}]
  /\ barrierSent = [p \in Pages |-> {}]
  /\ files = {} /\ net = {} /\ lost = 0 /\ missed = {} /\ cleared = {}

Mail(p, body) == {[to |-> q, body |-> body] : q \in Pages \ {p}}

Collected(p, r) == {b \in collected[p] : b.round = r}
From(p, r) == {b.from : b \in Collected(p, r)}
Count(p, r) == Cardinality(Collected(p, r))

Of(p, r, ids) == {b \in Collected(p, r) : b.from \in ids}
Masks(blobs) == {[from |-> b.from, by |-> b.by, attempt |-> b.attempt] : b \in blobs}

Nothing == [ids |-> {}, masks |-> {}]

Blob(p, r, on) ==
  [round |-> r, from |-> share[p], by |-> p, attempt |-> attempt'[p], on |-> on]

-----------------------------------------------------------------------------
(* threshold.ts: a round throws, and nothing changes, when the blob of an  *)
(* active party is missing; round 3 also when a commitment is not the one  *)
(* that was hashed.                                                        *)
HasAll(p, r) == active[p] \subseteq From(p, r)

CanReveal(p) == HasAll(p, 1)

CanRespond(p) ==
  HasAll(p, 2) /\ Masks(Of(p, 1, active[p])) = Masks(Of(p, 2, active[p]))

(* A signature comes out when everybody answered on the same commitments   *)
(* of the same signers, and luck has it.                                   *)
Combines(p) ==
  /\ HasAll(p, 2) /\ HasAll(p, 3)
  /\ LET seen == Masks(Of(p, 2, active[p]))
     IN /\ \A b \in Of(p, 3, active[p]) : b.on = [ids |-> active[p], masks |-> seen]
        /\ \A m \in seen : m.attempt \notin unlucky

(* Mutant of Acceptable: a blob replaces an earlier one of its sender. *)
AcceptableAgain(p, b) == b.from # share[p] /\ b.from \in active[p]

Acceptable(p, b) ==
  /\ b.from # share[p]
  /\ b.from \in active[p]
  /\ b.from \notin From(p, b.round)

-----------------------------------------------------------------------------
(* Mutant of BeginSession: the proposer keeps the masks of its first attempt. *)
BeginSessionSameMasks(p, ids) ==
  /\ attempt' = [attempt EXCEPT ![p] = IF p = Creator THEN 1 ELSE @ + 1]
  /\ active' = [active EXCEPT ![p] = ids]
  /\ phase' = [phase EXCEPT ![p] = 1]
  /\ LET b == Blob(p, 1, Nothing)
     IN collected' = [collected EXCEPT ![p] = {b}] /\ files' = files \cup {b}
  /\ blobSent' = [blobSent EXCEPT ![p] = FALSE]

(* createSession, round1: the session starts with the page's own hash. *)
BeginSession(p, ids) ==
  /\ attempt' = [attempt EXCEPT ![p] = @ + 1]
  /\ active' = [active EXCEPT ![p] = ids]
  /\ phase' = [phase EXCEPT ![p] = 1]
  /\ LET b == Blob(p, 1, Nothing)
     IN collected' = [collected EXCEPT ![p] = {b}] /\ files' = files \cup {b}
  /\ blobSent' = [blobSent EXCEPT ![p] = FALSE]

StaysIdle(p) ==
  /\ phase' = [phase EXCEPT ![p] = 0]
  /\ collected' = [collected EXCEPT ![p] = {}]
  /\ UNCHANGED <<active, attempt, files, blobSent>>

(* The effect that starts a relayed session runs when ThresholdSign is     *)
(* shown and when it is idle again, not when the relay tells of a party.   *)
AutoInit(p) ==
  IF Relay /\ Cardinality(known[p]) >= T
  THEN BeginSession(p, {i \in known[p] : Cardinality(known[p] \cap 0 .. i) <= T})
  ELSE StaysIdle(p)

(* Over the relay `ready` makes the creator broadcast its proposal; offline *)
(* it is a blob to copy.                                                   *)
Propose ==
  /\ stage[Creator] = "choose"
  /\ stage' = [stage EXCEPT ![Creator] = "proposed"]
  /\ net' = IF Relay THEN net \cup Mail(Creator, [round |-> 0]) ELSE net
  /\ UNCHANGED <<fixed, known, session, sync, files, lost, missed, cleared>>

ImportProposal(p) ==
  /\ Offline /\ p # Creator
  /\ stage[p] = "choose" /\ stage[Creator] # "choose"
  /\ stage' = [stage EXCEPT ![p] = "proposed"]
  /\ UNCHANGED <<fixed, known, session, sync, files, net, lost, missed, cleared>>

(* ShareGate: the share is decrypted and ThresholdSign shown. *)
Unlock(p) ==
  /\ stage[p] = "proposed"
  /\ stage' = [stage EXCEPT ![p] = "signing"]
  /\ AutoInit(p)
  /\ UNCHANGED <<fixed, known, barriers, barrierSent, net, lost, missed, cleared>>

(* parsePartyIds *)
StartSigning(p) ==
  /\ Offline /\ stage[p] = "signing" /\ phase[p] = 0
  /\ \E ids \in SUBSET Ids :
       share[p] \in ids /\ Cardinality(ids) = T /\ BeginSession(p, ids)
  /\ UNCHANGED <<fixed, known, stage, barriers, barrierSent, net, lost, missed, cleared>>

-----------------------------------------------------------------------------
(* Mutant of MayProceed: the blobs are counted over the relay too. *)
MayProceedAlone(p, r) == Count(p, r) >= T /\ (Relay => blobSent[p])

(* Mutant of MayProceed: one barrier is not waited for. *)
MayProceedButOne(p, r) ==
  IF Relay THEN Cardinality({b \in barriers[p] : b[1] = r}) >= Cardinality(active[p]) - 1
  ELSE Count(p, r) >= T

(* A relayed round is left when the barriers of all are in, a manual one by *)
(* a button that counts blobs.                                             *)
MayProceed(p, r) ==
  IF Relay THEN Cardinality({b \in barriers[p] : b[1] = r}) >= Cardinality(active[p])
  ELSE Count(p, r) >= T

(* advanceToRound2, advanceToRound3 *)
Advance(p, r) ==
  /\ stage[p] = "signing" /\ phase[p] = r /\ MayProceed(p, r)
  /\ IF r = 1 THEN CanReveal(p) ELSE CanRespond(p)
  /\ phase' = [phase EXCEPT ![p] = r + 1]
  /\ UNCHANGED <<active, attempt>>
  /\ LET on == IF r = 1 THEN Nothing
               ELSE [ids |-> active[p], masks |-> Masks(Of(p, 2, active[p]))]
         b == Blob(p, r + 1, on)
     IN collected' = [collected EXCEPT ![p] = @ \cup {b}] /\ files' = files \cup {b}
  /\ blobSent' = [blobSent EXCEPT ![p] = FALSE]
  /\ UNCHANGED <<fixed, known, stage, barriers, barrierSent, net, lost, missed, cleared>>

(* doCombine; OfflineSigner takes a signature and hides ThresholdSign. *)
Combine(p) ==
  /\ stage[p] = "signing" /\ phase[p] = 3 /\ MayProceed(p, 3)
  /\ IF Combines(p)
     THEN stage' = [stage EXCEPT ![p] = "done"] /\ UNCHANGED phase
     ELSE phase' = [phase EXCEPT ![p] = 4] /\ UNCHANGED stage
  /\ UNCHANGED <<fixed, known, active, attempt, collected, sync, files, net, lost, missed, cleared>>

Retry(p) ==
  /\ stage[p] = "signing" /\ phase[p] = 4 /\ attempt[p] < MaxAttempts
  /\ barriers' = [barriers EXCEPT ![p] = {}]
  /\ barrierSent' = [barrierSent EXCEPT ![p] = {}]
  /\ AutoInit(p)
  /\ UNCHANGED <<fixed, known, stage, net, lost, missed, cleared>>

(* Clearing the share takes ThresholdSign away with all that it has got;   *)
(* with the next share it starts anew.                                     *)
ClearShare(p) ==
  /\ stage[p] = "signing" /\ attempt[p] < MaxAttempts
  /\ cleared = {}     \* bound: once in a session
  /\ stage' = [stage EXCEPT ![p] = "proposed"]
  /\ StaysIdle(p)
  /\ barriers' = [barriers EXCEPT ![p] = {}]
  /\ barrierSent' = [barrierSent EXCEPT ![p] = {}]
  /\ cleared' = {p}
  /\ UNCHANGED <<fixed, known, net, lost, missed>>

(* The relay tells the others that the page has left. *)
Cancel(p) ==
  /\ stage[p] = "signing" /\ (phase[p] = 4 \/ (Offline /\ phase[p] = 0))
  /\ stage' = [stage EXCEPT ![p] = "left"]
  /\ known' = [q \in Pages |-> known[q] \cup {p}]
  /\ UNCHANGED <<fixed, session, sync, files, net, lost, missed, cleared>>

-----------------------------------------------------------------------------
SendBlob(p) ==
  /\ Relay /\ stage[p] = "signing" /\ phase[p] \in 1 .. 3 /\ ~blobSent[p]
  /\ net' = net \cup UNION {Mail(p, b) : b \in {c \in Collected(p, phase[p]) : c.by = p}}
  /\ blobSent' = [blobSent EXCEPT ![p] = TRUE]
  /\ UNCHANGED <<fixed, known, stage, session, barriers, barrierSent, files, lost, missed, cleared>>

(* Mutant of SendBarrier: the page does not count its own. *)
SendBarrierNotOwn(p) ==
  LET r == phase[p] IN
  /\ Relay /\ stage[p] = "signing" /\ r \in 1 .. 3
  /\ blobSent[p] /\ Count(p, r) >= Cardinality(active[p]) /\ r \notin barrierSent[p]
  /\ barrierSent' = [barrierSent EXCEPT ![p] = @ \cup {r}]
  /\ net' = net \cup Mail(p, [round |-> r, barrier |-> share[p]])
  /\ UNCHANGED <<fixed, known, stage, session, blobSent, barriers, files, lost, missed, cleared>>

SendBarrier(p) ==
  LET r == phase[p] IN
  /\ Relay /\ stage[p] = "signing" /\ r \in 1 .. 3
  /\ blobSent[p] /\ Count(p, r) >= Cardinality(active[p]) /\ r \notin barrierSent[p]
  /\ barrierSent' = [barrierSent EXCEPT ![p] = @ \cup {r}]
  /\ barriers' = [barriers EXCEPT ![p] = @ \cup {<<r, share[p]>>}]
  /\ net' = net \cup Mail(p, [round |-> r, barrier |-> share[p]])
  /\ UNCHANGED <<fixed, known, stage, session, blobSent, files, lost, missed, cleared>>

Collect(p, b) == collected' = [collected EXCEPT ![p] = @ \cup {b}]

(* handleAddBlob: a manual round takes only its own blobs. *)
Import(p) ==
  /\ Offline /\ stage[p] = "signing" /\ phase[p] \in 1 .. 3
  /\ \E b \in files : b.round = phase[p] /\ Acceptable(p, b) /\ Collect(p, b)
  /\ UNCHANGED <<fixed, known, stage, phase, active, attempt, sync, files, net, lost, missed, cleared>>

Miss(p) == missed' = missed \cup {p} /\ UNCHANGED <<stage, collected, barriers>>

(* The handlers of `message`.  A page that does not show ThresholdSign yet, *)
(* or has no session, drops what it gets; the proposal comes before the    *)
(* blobs of the creator, who has to unlock a share first.                  *)
Receive(m) ==
  LET p == m.to
      proposal == [to |-> p, body |-> [round |-> 0]]
  IN /\ m \in net /\ net' = net \ {m}
     /\ proposal \in net => m = proposal
     /\ CASE m = proposal ->
               /\ stage' = [stage EXCEPT ![p] = "proposed"]
               /\ UNCHANGED <<collected, barriers, missed>>
          [] m # proposal /\ stage[p] # "signing" -> Miss(p)
          [] m # proposal /\ stage[p] = "signing" /\ "barrier" \in DOMAIN m.body ->
               /\ barriers' = [barriers EXCEPT ![p] = @ \cup {<<m.body.round, m.body.barrier>>}]
               /\ UNCHANGED <<stage, collected, missed>>
          [] OTHER ->
               IF phase[p] # 0 /\ Acceptable(p, m.body)
               THEN Collect(p, m.body) /\ UNCHANGED <<stage, barriers, missed>>
               ELSE Miss(p)
     /\ UNCHANGED <<fixed, known, phase, active, attempt, blobSent, barrierSent, files, lost, cleared>>

Lose(m) ==
  /\ lost < MaxLost /\ lost' = lost + 1
  /\ m \in net /\ net' = net \ {m}
  /\ UNCHANGED <<fixed, known, stage, session, sync, files, missed, cleared>>

(* A page's connection breaks and comes back: `left`, `reconnected`. *)
Reconnected(p) ==
  /\ Relay
  /\ known' = [q \in Pages |-> known[q] \cup {p}] /\ known' # known
  /\ UNCHANGED <<fixed, stage, session, sync, files, net, lost, missed, cleared>>

Page(p) ==
  \/ ImportProposal(p) \/ Unlock(p) \/ StartSigning(p)
  \/ \E r \in 1 .. 2 : Advance(p, r)
  \/ Combine(p) \/ Retry(p) \/ SendBlob(p) \/ SendBarrier(p) \/ Import(p)

Progress ==
  \/ Propose
  \/ \E p \in Pages : Page(p)
  \/ \E m \in net : Receive(m)

Next ==
  \/ Progress
  \/ \E p \in Pages : Cancel(p) \/ ClearShare(p) \/ Reconnected(p)
  \/ \E m \in net : Lose(m)

(* People unlock their shares, effects run, messages are delivered. *)
Spec == Init /\ [][Next]_vars /\ WF_vars(Progress)

-----------------------------------------------------------------------------
SigningTypeOK ==
  /\ phase \in [Pages -> 0 .. 4] /\ attempt \in [Pages -> 0 .. MaxAttempts]
  /\ \A p \in Pages :
       /\ stage[p] \in {"choose", "proposed", "signing", "done", "left"}
       /\ \A b \in collected[p] : b \in files
       /\ \A r \in 1 .. 3 : Cardinality(From(p, r)) = Count(p, r)

(* ThresholdSign.tsx, on barriers: "No party advances until all T barriers *)
(* for the current round are received."  Nobody is past a round with a     *)
(* blob whose maker, in the same attempt, lacks one of that round, although *)
(* neither blobs nor barriers say which attempt they belong to.  It needs  *)
(* that nobody clears a share in mid-session: a barrier of the session     *)
(* before is taken for one of the next.                                    *)
RoundsInStep ==
  (Relay /\ cleared = {}) => \A p \in Pages, r \in 1 .. 3 :
    (phase[p] > r \/ stage[p] = "done") =>
      \A b \in Of(p, r, active[p]) :
        (attempt[b.by] = b.attempt /\ phase[b.by] # 0) => Count(b.by, r) = T

(* Over the relay the signers of an attempt end it alike, unless a share   *)
(* was cleared: nobody starts over while another holds the signature.      *)
OneOutcome ==
  (Relay /\ cleared = {}) => \A p, q \in Pages :
    (stage[p] = "done" /\ phase[q] = 4) => attempt[p] # attempt[q]

(* Masks are used for one response only: a second one on the same masks    *)
(* would give away the share.  Whatever is retried, whichever stale files  *)
(* are imported, a page answers once in an attempt.                        *)
OneResponsePerMasks ==
  \A b, c \in files :
    (b.round = 3 /\ c.round = 3 /\ b.by = c.by /\ b.attempt = c.attempt) => b = c

Over(p) == stage[p] = "done" \/ (phase[p] = 4 /\ attempt[p] = MaxAttempts)

(* relay-ceremony-design.md, "Auto-Advance Rules": when every page has     *)
(* started, the shares carry the numbers of the pages and no message was   *)
(* dropped, by the relay or by a page, the rounds run to an end.           *)
SigningEnds ==
  <>(\/ Offline \/ lost > 0 \/ missed # {} \/ cleared # {}
     \/ \E p \in Pages :
          stage[p] = "left" \/ share[p] # p \/ (stage[p] = "signing" /\ phase[p] = 0)
     \/ \A p \in Pages : Over(p))

(* relay-ceremony-design.md:118: "Signing: parties = threshold (e.g. 3) -  *)
(* session starts as soon as threshold parties connect": with every share  *)
(* unlocked, each page starts signing.                                     *)
EveryPageStarts ==
  \A p \in Pages : (Relay /\ stage[p] = "signing") ~> (phase[p] # 0 \/ lost > 0)
=============================================================================
