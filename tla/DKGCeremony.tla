----------------------------- MODULE DKGCeremony -----------------------------
(***************************************************************************)
(* The key ceremony: ceremony/src/components/DKGWizard.tsx in the pages of *)
(* all parties, and when the functions of the vendored threshold library   *)
(* accept their inputs.                                                    *)
(*                                                                         *)
(* The steps of the wizard are numbered: 0 join, 1 commit, 2 reveal,       *)
(* 3 masks, 4 aggregate, 5 complete.  A blob is its kind, the party number *)
(* it is from, the number it is for, and the page that made it; what is in *)
(* it is not modelled.  Over the relay a page is the party of its number   *)
(* and effects run by themselves; offline, people pick their numbers and   *)
(* carry blobs by copy and paste, in any order and as often as they like.  *)
(***************************************************************************)
EXTENDS Integers, FiniteSets

CONSTANTS
  N, T,      \* parties, threshold
  Spreads,   \* bound: the generator sets that the hash may pick
  MaxLost    \* bound: messages the relay drops

ASSUME CeremonyAssumption == N \in Nat /\ T \in Nat /\ 2 <= T /\ T <= N

Pages == 0 .. N - 1
All == N           \* -1 in the code: a blob for everybody
Creator == 0

VARIABLES
  transport,   \* "relay" or "offline"
  generators,  \* the parties that dkgPhase2Finalize will pick as generators
  step, myPartyId,
  made,        \* the phases a page has computed its own part of; 0: INIT_SESSION
  collected,   \* the blobs in the page's collected... arrays
  sent,        \* phase1Sent ... phase4Sent
  barriers,    \* the page's `barriers`: phase and party
  barrierSent, \* barrierSentRef
  net,         \* what the relay has yet to deliver
  lost         \* how many messages the relay has dropped

pageVars == <<step, myPartyId, made, collected, sent, barriers, barrierSent>>
vars == <<transport, generators, pageVars, net, lost>>

-----------------------------------------------------------------------------
(* The library.  Every N-T+1 parties hold a secret together; the party     *)
(* that spreads it is chosen among them by a hash.                         *)
Bitmasks == {b \in SUBSET Pages : Cardinality(b) = N - T + 1}

CoHolders == [i \in Pages |-> (UNION {b \in Bitmasks : i \in b}) \ {i}]

GeneratorSets ==
  {{g[b] : b \in Bitmasks} : g \in {f \in [Bitmasks -> Pages] : \A b \in Bitmasks : f[b] \in b}}

Init ==
  /\ transport \in {"relay", "offline"}
  /\ generators \in Spreads \cap GeneratorSets
  /\ step = [p \in Pages |-> 0]
  /\ myPartyId = [p \in Pages |-> 0]
  /\ made = [p \in Pages |-> {}]
  /\ collected = [p \in Pages |-> {}]
  /\ sent = [p \in Pages |-> {}]
  /\ barriers = [p \in Pages |-> {}]
  /\ barrierSent = [p \in Pages |-> {}]
  /\ net = {} /\ lost = 0

Relay == transport = "relay"
Offline == transport = "offline"

Blob(p, kind, to) == [kind |-> kind, from |-> myPartyId[p], to |-> to, by |-> p]

PublicKind == <<"p1", "p2pub", "p3", "p4">>
Public(p, k) == IF k = 3 THEN {} ELSE {Blob(p, PublicKind[k], All)}

Private(p, k) ==
  CASE k = 2 -> {Blob(p, "p2priv", i) : i \in CoHolders[myPartyId[p]]}
    [] k = 3 /\ myPartyId[p] \in generators ->
         {Blob(p, "p3priv", i) : i \in Pages \ {myPartyId[p]}}
    [] OTHER -> {}

Own(p, k) == Public(p, k) \cup Private(p, k)

Collected(p, kind) == {b \in collected[p] : b.kind = kind}
From(p, kind) == {b.from : b \in Collected(p, kind)}
Count(p, kind) == Cardinality(Collected(p, kind))
Complete(p, kind) == Count(p, kind) = N

Others(p, ids) == ids \ {myPartyId[p]}

-----------------------------------------------------------------------------
(* Mutant of PhaseReady: private reveals are not waited for. *)
PhaseReadyPublic(p, k) ==
  CASE k = 1 -> Complete(p, "p1")
    [] k = 2 -> Complete(p, "p2pub")
    [] k = 3 -> /\ 3 \in made[p]
                /\ Count(p, "p3priv") >= Cardinality(Others(p, generators))
    [] k = 4 -> Complete(p, "p4")

(* phase1Ready ... phase4Ready. *)
PhaseReady(p, k) ==
  CASE k = 1 -> Complete(p, "p1")
    [] k = 2 -> /\ Complete(p, "p2pub")
                /\ Count(p, "p2priv") >= Cardinality(CoHolders[myPartyId[p]])
    [] k = 3 -> /\ 3 \in made[p]
                /\ Count(p, "p3priv") >= Cardinality(Others(p, generators))
    [] k = 4 -> Complete(p, "p4")

(* When dkgPhase1 ... dkgFinalize do not throw. *)
Computable(p, k) ==
  CASE k = 1 -> 0 \in made[p]
    [] k = 2 -> 1 \in made[p] /\ Complete(p, "p1")
    [] k = 3 -> /\ 1 \in made[p] /\ Complete(p, "p1") /\ Complete(p, "p2pub")
                /\ CoHolders[myPartyId[p]] \subseteq From(p, "p2priv")
    [] k = 4 -> 3 \in made[p] /\ Others(p, generators) \subseteq From(p, "p3priv")
    [] k = 5 -> 3 \in made[p] /\ Complete(p, "p4")

(* Mutant of Compute: what arrived before is overwritten. *)
ComputeOverwrites(p, k) ==
  /\ step[p] = k /\ k \notin made[p]
  /\ Computable(p, k)
  /\ made' = [made EXCEPT ![p] = @ \cup {k}]
  /\ collected' = [collected EXCEPT ![p] =
       IF k \in {1, 2, 4} THEN {b \in @ : b.kind # PublicKind[k]} \cup Public(p, k) ELSE @]
  /\ UNCHANGED <<transport, generators, step, myPartyId, sent, barriers, barrierSent, net, lost>>

(* The page computes its part of a phase, by itself or, for the commitment *)
(* offline, by a button: SET_PHASE1 ... SET_PHASE4 keep what has arrived.  *)
Compute(p, k) ==
  /\ step[p] = k /\ k \notin made[p]
  /\ Computable(p, k)
  /\ made' = [made EXCEPT ![p] = @ \cup {k}]
  /\ collected' = [collected EXCEPT ![p] =
       IF k \in {1, 2, 4}
       THEN {b \in @ : b.kind # PublicKind[k] \/ b.from # myPartyId[p]} \cup Public(p, k)
       ELSE @]
  /\ UNCHANGED <<transport, generators, step, myPartyId, sent, barriers, barrierSent, net, lost>>

-----------------------------------------------------------------------------
(* Mutant of Acceptable: a second blob of the same party counts. *)
AcceptableAgain(p, b) == b.from # myPartyId[p] /\ b.to \in {All, myPartyId[p]}

(* handlePaste and handleRelayBlob. *)
Acceptable(p, b) ==
  /\ b.from # myPartyId[p]
  /\ b.to \in {All, myPartyId[p]}
  /\ b.from \notin From(p, b.kind)

Mail(p, blobs) ==
  {[to |-> q, blob |-> b] : q \in Pages \ {p}, b \in blobs}

AddressedMail(p, blobs) == {m \in Mail(p, blobs) : m.blob.to \in {All, m.to}}

(* relaySendBlob; phase 3 is sent, and marked sent, only by a page that    *)
(* has masks to send.                                                      *)
SendPhase(p, k) ==
  /\ Relay
  /\ k \in made[p] \ sent[p]
  /\ k = 3 => Own(p, 3) # {}
  /\ net' = net \cup AddressedMail(p, Own(p, k))
  /\ sent' = [sent EXCEPT ![p] = @ \cup {k}]
  /\ UNCHANGED <<transport, generators, step, myPartyId, made, collected,
                 barriers, barrierSent, lost>>

(* Mutant of SendBarrier: sent before the own blobs are. *)
SendBarrierEarly(p, k) ==
  /\ Relay
  /\ step[p] = k
  /\ PhaseReady(p, k) /\ k \notin barrierSent[p]
  /\ barrierSent' = [barrierSent EXCEPT ![p] = @ \cup {k}]
  /\ barriers' = [barriers EXCEPT ![p] = @ \cup {<<k, myPartyId[p]>>}]
  /\ net' = net \cup Mail(p, {[kind |-> "barrier", phase |-> k, from |-> myPartyId[p]]})
  /\ UNCHANGED <<transport, generators, step, myPartyId, made, collected, sent, lost>>

SendBarrier(p, k) ==
  /\ Relay
  /\ step[p] = k
  /\ PhaseReady(p, k) /\ k \in sent[p] /\ k \notin barrierSent[p]
  /\ barrierSent' = [barrierSent EXCEPT ![p] = @ \cup {k}]
  /\ barriers' = [barriers EXCEPT ![p] = @ \cup {<<k, myPartyId[p]>>}]
  /\ net' = net \cup Mail(p, {[kind |-> "barrier", phase |-> k, from |-> myPartyId[p]]})
  /\ UNCHANGED <<transport, generators, step, myPartyId, made, collected, sent, lost>>

Passed(p, k) ==
  IF Relay THEN Cardinality({b \in barriers[p] : b[1] = k}) >= N
  ELSE k \in made[p] /\ PhaseReady(p, k)

(* SET_STEP: by itself over the relay, by the Continue button offline. *)
Advance(p, k) ==
  /\ step[p] = k /\ Passed(p, k)
  /\ step' = [step EXCEPT ![p] = k + 1]
  /\ UNCHANGED <<transport, generators, myPartyId, made, collected, sent,
                 barriers, barrierSent, net, lost>>

-----------------------------------------------------------------------------
(* The join step.  INIT_SESSION and SET_PARTY_ID come together. *)
CreateSession ==
  /\ made[Creator] = {}
  /\ made' = [made EXCEPT ![Creator] = {0}]
  /\ IF Relay
     THEN net' = net \cup Mail(Creator, {[kind |-> "config"]})
     ELSE UNCHANGED net
  /\ UNCHANGED <<transport, generators, step, myPartyId, collected, sent,
                 barriers, barrierSent, lost>>

(* Mutant of StartCreator: a second `ready` starts over. *)
StartCreatorAgain ==
  /\ 0 \in made[Creator]
  /\ step' = [step EXCEPT ![Creator] = 1]
  /\ UNCHANGED <<transport, generators, myPartyId, made, collected, sent,
                 barriers, barrierSent, net, lost>>

StartCreator ==
  /\ 0 \in made[Creator] /\ step[Creator] = 0
  /\ step' = [step EXCEPT ![Creator] = 1]
  /\ UNCHANGED <<transport, generators, myPartyId, made, collected, sent,
                 barriers, barrierSent, net, lost>>

ReceiveConfig(p) ==
  /\ made' = [made EXCEPT ![p] = {0}]
  /\ myPartyId' = [myPartyId EXCEPT ![p] = p]
  /\ step' = [step EXCEPT ![p] = 1]
  /\ UNCHANGED <<collected, barriers>>

LoadSession(p) ==
  /\ Offline /\ p # Creator
  /\ made[p] = {} /\ made[Creator] # {}
  /\ made' = [made EXCEPT ![p] = {0}]
  /\ myPartyId' = [myPartyId EXCEPT ![p] = 1]
  /\ UNCHANGED <<transport, generators, step, collected, sent, barriers, barrierSent, net, lost>>

PickNumber(p) ==
  /\ Offline /\ p # Creator
  /\ step[p] = 0 /\ 0 \in made[p]
  /\ \E i \in Pages \ {0} : myPartyId' = [myPartyId EXCEPT ![p] = i]
  /\ UNCHANGED <<transport, generators, step, made, collected, sent, barriers, barrierSent, net, lost>>

StartJoiner(p) ==
  /\ Offline /\ p # Creator
  /\ step[p] = 0 /\ 0 \in made[p]
  /\ step' = [step EXCEPT ![p] = 1]
  /\ UNCHANGED <<transport, generators, myPartyId, made, collected, sent,
                 barriers, barrierSent, net, lost>>

-----------------------------------------------------------------------------
Collect(p, b) ==
  /\ collected' = IF Acceptable(p, b)
                  THEN [collected EXCEPT ![p] = @ \cup {b}] ELSE collected
  /\ UNCHANGED <<made, myPartyId, step, barriers>>

(* A message event.  The relay may reorder what one party sends, but its   *)
(* session config is delivered long before its first blob, which waits for *)
(* a timer of its own.                                                     *)
Deliver(m) ==
  LET p == m.to
      config == [to |-> p, blob |-> [kind |-> "config"]]
  IN /\ m \in net /\ net' = net \ {m}
     /\ CASE m.blob.kind = "config" -> ReceiveConfig(p)
          [] m.blob.kind = "barrier" ->
               /\ barriers' = [barriers EXCEPT ![p] = @ \cup {<<m.blob.phase, m.blob.from>>}]
               /\ UNCHANGED <<made, myPartyId, step, collected>>
          [] OTHER -> (m.blob.by = Creator => config \notin net) /\ Collect(p, m.blob)
     /\ UNCHANGED <<transport, generators, sent, barrierSent, lost>>

Lose(m) ==
  /\ lost < MaxLost /\ lost' = lost + 1
  /\ m \in net /\ net' = net \ {m}
  /\ UNCHANGED <<transport, generators, pageVars>>

Paste(p) ==
  /\ Offline /\ step[p] \in made[p] \ {0, 5}
  /\ \E q \in Pages : \E k \in made[q] \ {0, 5} : \E b \in Own(q, k) :
       Acceptable(p, b) /\ Collect(p, b)
  /\ UNCHANGED <<transport, generators, sent, barrierSent, net, lost>>

Page(p) ==
  \/ \E k \in 1 .. 5 : Compute(p, k)
  \/ \E k \in 1 .. 4 : SendPhase(p, k) \/ SendBarrier(p, k) \/ Advance(p, k)
  \/ LoadSession(p) \/ PickNumber(p) \/ StartJoiner(p) \/ Paste(p)

Progress ==
  \/ CreateSession \/ StartCreator
  \/ \E p \in Pages : Page(p)
  \/ \E m \in net : Deliver(m)

Next == Progress \/ \E m \in net : Lose(m)

Spec == Init /\ [][Next]_vars

(* Effects run and messages are delivered as long as there are any. *)
FairSpec == Spec /\ WF_vars(Progress)

-----------------------------------------------------------------------------
CeremonyTypeOK ==
  /\ step \in [Pages -> 0 .. 5] /\ myPartyId \in [Pages -> Pages]
  /\ made \in [Pages -> SUBSET (0 .. 5)]
  /\ \A p \in Pages :
       /\ barrierSent[p] \subseteq sent[p] /\ sent[p] \subseteq made[p]
       /\ \A k \in made[p] : k <= step[p]

(* The library throws when an input is missing, and the wizard has no way  *)
(* back: no page enters a phase that it cannot compute, although it only   *)
(* counted what it got, over either transport.                             *)
PhasesComputable ==
  \A p \in Pages :
    step[p] \in 1 .. 5 => (step[p] \in made[p] \/ Computable(p, step[p]))

(* Offline, people may pick the same number twice.  Then nobody gets past  *)
(* the commitments.                                                        *)
NumbersDistinct ==
  (\E p \in Pages : step[p] > 1) =>
    \A p, q \in Pages : p # q => myPartyId[p] # myPartyId[q]

(* DKGWizard.tsx:334, on barriers: "This prevents the race where Party A    *)
(* advances before Party B receives A's blob."  Parties move in step, over *)
(* either transport, except that nobody waits for one that is no generator *)
(* to finish the reveals.                                                  *)
Barrier == INSTANCE Lockstep WITH Parties <- Pages, Last <- 5, Optional <- {3}, at <- step
RefinesLockstep == Barrier!Spec

AllComplete == \A p \in Pages : 5 \in made[p]

(* relay-ceremony-design.md, "Auto-advance": over a relay that loses       *)
(* nothing a ceremony in which everybody is a generator of some bitmask    *)
(* ends with everybody holding the key, in whatever order blobs arrive.    *)
CeremonyEnds == <>(Offline \/ lost > 0 \/ generators # Pages \/ AllComplete)

=============================================================================
